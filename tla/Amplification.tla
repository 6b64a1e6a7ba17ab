--------------------------- MODULE Amplification ---------------------------
(***************************************************************************)
(* The size bound of a transaction value (execution.rs):                   *)
(* primitive_serialization_layout, PrimitiveArgumentLayout::bcs_only,     *)
(* and amplification_bound / amplification_bound_ with their inner         *)
(* amplification function.  A Move type is a tree: a leaf, or a wrapper    *)
(* (vector<T>, std::option::Option<T>, or another generic struct G<T>)     *)
(* around one inner type.  The recursive operators translate the code;    *)
(* each is checked against a reference definition that reads the type as *)
(* the flat sequence of its wrappers followed by its leaf.                 *)
(***************************************************************************)
EXTENDS Naturals, Sequences, SequencesExt

CONSTANTS
  MaxTypeDepth,       \* bound on the nesting depth of the types enumerated
  Limits,             \* the values of max_ptb_value_size tried
  NoLimit,            \* max_ptb_value_size unset, and "no bound"
  MaxMoveValueDepth   \* max_move_value_depth

\* The protocol configuration and mode are part of the state, chosen once:
\* max_ptb_value_size (limit), max_ptb_value_size_v2 (sizeV2) and
\* Mode::packages_are_predefined (predefined).
VARIABLES path, limit, sizeV2, predefined
vars == <<path, limit, sizeV2, predefined>>

ASSUME MaxMoveValueDepth \in Nat \ {0}

Prims    == {"bool", "u8", "u16", "u32", "u64", "u128", "u256", "address"}
\* Leaves: the primitives, signer, and the structs sui::object::ID,
\* std::ascii::String, std::string::String, a struct without copy and one
\* with copy.
Leaves   == Prims \cup {"signer", "ID", "Ascii", "UTF8", "Other", "CopyStruct"}
Wrappers == {"vector", "option", "generic"}

\* A type as its wrappers, outermost first, and its leaf.
Paths == {w \o <<l>> : w \in UNION {[1..n -> Wrappers] : n \in 0..MaxTypeDepth - 1},
                       l \in Leaves}

RECURSIVE ToType(_)
ToType(p) ==
  IF Len(p) = 1 THEN [k |-> Head(p)]
  ELSE [k |-> Head(p), inner |-> ToType(Tail(p))]

NoLayout == [k |-> "none"]

(***************************************************************************)
(* primitive_serialization_layout: primitives map to themselves, ID to an  *)
(* address, the two strings to Ascii and UTF8, vector and Option to their  *)
(* inner layout when it exists; signer and any other struct have none.    *)
(***************************************************************************)
\* Mutant: any generic struct is read like an Option.
RECURSIVE PrimitiveLayoutAnyGeneric(_)
PrimitiveLayoutAnyGeneric(t) ==
  CASE t.k \in Prims              -> [k |-> t.k]
    [] t.k = "ID"                 -> [k |-> "address"]
    [] t.k \in {"Ascii", "UTF8"}  -> [k |-> t.k]
    [] t.k \in Wrappers ->
         LET l == PrimitiveLayoutAnyGeneric(t.inner)
         IN IF l = NoLayout THEN NoLayout
            ELSE [k |-> IF t.k = "vector" THEN "vector" ELSE "option", inner |-> l]
    [] OTHER                      -> NoLayout

RECURSIVE PrimitiveLayout(_)
PrimitiveLayout(t) ==
  CASE t.k \in Prims              -> [k |-> t.k]
    [] t.k = "ID"                 -> [k |-> "address"]
    [] t.k \in {"Ascii", "UTF8"}  -> [k |-> t.k]
    [] t.k \in {"vector", "option"} ->
         LET l == PrimitiveLayout(t.inner)
         IN IF l = NoLayout THEN NoLayout ELSE [k |-> t.k, inner |-> l]
    [] OTHER                      -> NoLayout

\* PrimitiveArgumentLayout::bcs_only: no Option and no string inside.
RECURSIVE BcsOnly(_)
BcsOnly(l) ==
  CASE l.k \in {"option", "Ascii", "UTF8"} -> FALSE
    [] l.k = "vector"                      -> BcsOnly(l.inner)
    [] OTHER                               -> TRUE

\* amplification in amplification_bound_: an Option adds one, a vector
\* adds nothing, strings and the wide primitives weigh two, the rest one.
\* Mutant: a vector counted like an Option.
RECURSIVE AmplificationVectorCounts(_)
AmplificationVectorCounts(l) ==
  CASE l.k \in {"option", "vector"}            -> 1 + AmplificationVectorCounts(l.inner)
    [] l.k \in {"Ascii", "UTF8", "u128", "u256", "address"} -> 2
    [] OTHER                                   -> 1

RECURSIVE Amplification(_)
Amplification(l) ==
  CASE l.k = "option"                          -> 1 + Amplification(l.inner)
    [] l.k = "vector"                          -> Amplification(l.inner)
    [] l.k \in {"Ascii", "UTF8", "u128", "u256", "address"} -> 2
    [] OTHER                                   -> 1

\* Abilities: primitives, ID, the strings and CopyStruct have copy; signer
\* and Other do not; vector and Option have copy when their inner type has
\* (the generic struct G<T> is declared without copy).
RECURSIVE HasCopyType(_)
HasCopyType(t) ==
  CASE t.k \in Prims \cup {"ID", "Ascii", "UTF8", "CopyStruct"} -> TRUE
    [] t.k \in {"vector", "option"}               -> HasCopyType(t.inner)
    [] OTHER                                      -> FALSE

\* amplification_bound_: no bound for predefined packages or without a
\* limit; otherwise the limit divided by the amplification, with the
\* maximal value depth when the type has no primitive layout.
AmplificationBoundInner(t) ==
  IF predefined \/ limit = NoLimit THEN NoLimit
  ELSE LET l == PrimitiveLayout(t)
           a == IF l = NoLayout THEN MaxMoveValueDepth ELSE Amplification(l)
       IN limit \div (IF a = 0 THEN MaxMoveValueDepth ELSE a)

\* amplification_bound: under max_ptb_value_size_v2 a type without copy
\* gets no bound.
\* Mutant: the copy check of max_ptb_value_size_v2 is left out.
AmplificationBoundNoCopyCheck(t) == AmplificationBoundInner(t)

AmplificationBound(t) ==
  IF sizeV2 /\ ~HasCopyType(t) THEN NoLimit ELSE AmplificationBoundInner(t)

(***************************************************************************)
(* The state: the parameter type whose bound is computed.                  *)
(* Each bound is computed once per type and configuration.                 *)
(***************************************************************************)
Init ==
  /\ path \in Paths
  /\ limit \in Limits \cup {NoLimit}
  /\ sizeV2 \in BOOLEAN
  /\ predefined \in BOOLEAN

\* Nothing changes once the type and the configuration are chosen.
Next == UNCHANGED vars
Spec == Init /\ [][Next]_vars

ty == ToType(path)

(***************************************************************************)
(* Reference definitions over the flat path.                               *)
(***************************************************************************)
Wraps   == SubSeq(path, 1, Len(path) - 1)
Leaf    == Last(path)
LeafLayout == IF Leaf = "ID" THEN "address" ELSE Leaf
RefHasLayout ==
  /\ \A i \in DOMAIN Wraps : Wraps[i] # "generic"
  /\ Leaf \notin {"signer", "Other", "CopyStruct"}
RefOptions  == Cardinality({i \in DOMAIN Wraps : Wraps[i] = "option"})
RefWeight   == IF LeafLayout \in {"Ascii", "UTF8", "u128", "u256", "address"}
               THEN 2 ELSE 1
RefBcsOnly  == RefOptions = 0 /\ Leaf \notin {"Ascii", "UTF8"}
RefHasCopy  == (\A i \in DOMAIN Wraps : Wraps[i] # "generic")
               /\ Leaf \notin {"signer", "Other"}
RefBound ==
  IF sizeV2 /\ ~RefHasCopy THEN NoLimit
  ELSE IF predefined \/ limit = NoLimit THEN NoLimit
  ELSE limit \div (IF RefHasLayout THEN RefOptions + RefWeight
                             ELSE MaxMoveValueDepth)

TypeOK ==
  /\ path \in Paths
  /\ limit \in Limits \cup {NoLimit}
  /\ sizeV2 \in BOOLEAN /\ predefined \in BOOLEAN

\* primitive_serialization_layout finds a layout exactly for the types
\* built of vectors and Options around a primitive, ID or string; the
\* layout keeps every wrapper and bcs_only holds exactly when no Option or
\* string occurs in it.
LayoutMatchesReference ==
  LET l == PrimitiveLayout(ty) IN
  /\ (l # NoLayout) <=> RefHasLayout
  /\ l # NoLayout => BcsOnly(l) = RefBcsOnly

\* amplification counts each Option once and the leaf by its width, and is
\* never zero, so the division in amplification_bound_ is always defined.
AmplificationMatchesReference ==
  LET l == PrimitiveLayout(ty) IN
  l # NoLayout => Amplification(l) = RefOptions + RefWeight /\ Amplification(l) >= 1

\* amplification_bound, through its copy check, the mode and the limit,
\* gives the limit divided by the number of Options plus the leaf width,
\* the limit divided by the maximal depth for a copyable type without a
\* layout, and no bound otherwise.
BoundMatchesReference == AmplificationBound(ty) = RefBound
=============================================================================
