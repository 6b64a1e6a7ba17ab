---------------------------- MODULE TypeResolver ----------------------------
(***************************************************************************)
(* The type-argument resolution of a MoveCall (execution.rs): each type    *)
(* input is turned into a TypeTag by to_type_tag_ (type parameters first, *)
(* then resolve_datatype_names for the struct itself), re-resolved to     *)
(* defining ids through load_type and get_type_tag when                   *)
(* resolve_type_input_ids_to_defining_id is on, and finally loaded by the *)
(* VM.  The package store is a constant: each storage id has the original  *)
(* id of its package and a type origin table, from the types of that      *)
(* version to the storage id of the version that defined them.            *)
(***************************************************************************)
EXTENDS Integers, Sequences

CONSTANTS
  Addrs,         \* the package addresses a type input may name
  Original,      \* [Addrs -> ids]: the original id of the package at an address
  TypeOrigin,    \* the store: a function from the storage ids present to
                 \* the type origin table [key -> defining storage id]
  Keys,          \* the (module, name) pairs a type input may name
  Arity,         \* [Keys -> Nat]: the number of type parameters of a datatype
  Prims,         \* names of the primitive type inputs
  MaxTypeDepth,  \* bound on the nesting of a type input
  MaxTypeArgs    \* bound on the number of type arguments of a call

\* Every version of a package keeps the types of the versions before it, with
\* the same defining id, and a defining id is a version of the same package.
ASSUME \A a, b \in DOMAIN TypeOrigin : \A k \in DOMAIN TypeOrigin[a] :
         /\ Original[TypeOrigin[a][k]] = Original[a]
         /\ (Original[b] = Original[a] /\ k \in DOMAIN TypeOrigin[b])
              => TypeOrigin[b][k] = TypeOrigin[a][k]

VARIABLES
  typeArgs,   \* the type_arguments of the MoveCall, as TypeInputs
  better,     \* protocol flag better_adapter_type_resolution_errors
  resolve     \* protocol flag resolve_type_input_ids_to_defining_id

vars == <<typeArgs, better, resolve>>

(***************************************************************************)
(* TypeInput and TypeTag share one shape: a kind, and for a struct its     *)
(* address and (module, name); vectors and structs carry their parameters.*)
(***************************************************************************)
Prim(p) == [k |-> p, addr |-> 0, key |-> "none", params |-> <<>>]
Vec(t) == [k |-> "Vector", addr |-> 0, key |-> "none", params |-> <<t>>]
Struct(a, key, ps) == [k |-> "Struct", addr |-> a, key |-> key, params |-> ps]

RECURSIVE TypeInputs(_)
TypeInputs(n) ==
  IF n = 0 THEN {Prim(p) : p \in Prims} \cup {Struct(a, key, <<>>) : a \in Addrs, key \in Keys}
  ELSE LET inner == TypeInputs(n - 1)
       IN inner \cup {Vec(t) : t \in inner}
                \cup {Struct(a, key, <<t>>) : a \in Addrs, key \in Keys, t \in inner}

\* The outcome of a conversion: a tag (or tags), or an error kind and the
\* type argument index it reports.
Ok(v) == [ok |-> TRUE, val |-> v, kind |-> "none", idx |-> 0]
Err(kind, i) == [ok |-> FALSE, val |-> <<>>, kind |-> kind, idx |-> i]

\* Whether a package version declares a datatype in its type origin table.
Declares(a, key) == a \in DOMAIN TypeOrigin /\ key \in DOMAIN TypeOrigin[a]

\* resolve_datatype_names: with better errors, a type the package at its
\* address does not declare (or a missing package) is TypeNotFound.
ResolveDatatypeNames(t, idx) ==
  IF better /\ ~Declares(t.addr, t.key) THEN Err("TypeNotFound", idx) ELSE Ok(t.key)

\* to_type_tag_: vectors recurse, a struct converts its type parameters in
\* order and stops at the first error, then resolves its own names.
RECURSIVE ToTypeTag_(_, _), ParamsTags(_, _, _)
ToTypeTag_(t, idx) ==
  CASE t.k = "Vector" ->
         LET e == ToTypeTag_(t.params[1], idx)
         IN IF e.ok THEN Ok(Vec(e.val)) ELSE e
    [] t.k = "Struct" ->
         LET ps == ParamsTags(t.params, idx, <<>>)
             names == ResolveDatatypeNames(t, idx)
         IN CASE ~ps.ok    -> ps
              [] ~names.ok -> names
              [] OTHER     -> Ok(Struct(t.addr, t.key, ps.val))
    [] OTHER -> Ok(t)

ParamsTags(ps, idx, acc) ==
  IF ps = <<>> THEN Ok(acc)
  ELSE LET e == ToTypeTag_(Head(ps), idx)
       IN IF e.ok THEN ParamsTags(Tail(ps), idx, Append(acc, e.val)) ELSE e

\* The VM's load_type (ExecutionContext::load_type): every datatype must be
\* declared by the package its address names and get as many type
\* arguments as it has parameters; a failure is a VM error, which
\* convert_type_argument_error reports as TypeNotFound or ArityMismatch.
RECURSIVE LoadError(_)
LoadError(t) ==
  CASE t.k = "Struct" /\ ~Declares(t.addr, t.key)   -> "TypeNotFound"
    [] t.k = "Struct" /\ Len(t.params) # Arity[t.key] -> "ArityMismatch"
    [] \E i \in DOMAIN t.params : LoadError(t.params[i]) # "none" ->
         LoadError(t.params[CHOOSE i \in DOMAIN t.params : LoadError(t.params[i]) # "none"])
    [] OTHER -> "none"

LoadType(t, ix) == IF LoadError(t) = "none" THEN Ok(t) ELSE Err(LoadError(t), ix)

\* get_datatype_ident: a loaded datatype is named by its defining module.
GetDatatypeIdent(a, key) == TypeOrigin[a][key]

\* get_type_tag of a loaded type.
RECURSIVE GetTypeTag(_)
GetTypeTag(t) ==
  [t EXCEPT !.addr = IF t.k = "Struct" THEN GetDatatypeIdent(t.addr, t.key) ELSE 0,
            !.params = [i \in DOMAIN t.params |-> GetTypeTag(t.params[i])]]

\* Mutant: the re-resolution to defining ids is left out.
ToTypeTagNoResolve(t, idx) == ToTypeTag_(t, idx)

\* Mutant: a load failure inside to_type_tag always reports index 0.
ToTypeTagIndexZero(t, idx) ==
  LET e == ToTypeTag_(t, idx)
      l == LoadType(e.val, 0)
  IN CASE ~e.ok        -> e
       [] ~resolve     -> e
       [] ~l.ok        -> l
       [] OTHER        -> Ok(GetTypeTag(l.val))

\* to_type_tag: with resolve_type_input_ids_to_defining_id, the tag is
\* loaded (errors at idx with better errors, else at 0) and read back.
ToTypeTag(t, idx) ==
  LET e == ToTypeTag_(t, idx)
      l == LoadType(e.val, IF better THEN idx ELSE 0)
  IN CASE ~e.ok        -> e
       [] ~resolve     -> e
       [] ~l.ok        -> l
       [] OTHER        -> Ok(GetTypeTag(l.val))

\* The type-argument loop of execute_command's MoveCall: each argument is
\* converted and loaded at its index; the first error aborts the command.
RECURSIVE LoadTypeArguments(_, _, _)
LoadTypeArguments(args, ix, acc) ==
  IF ix > Len(args) THEN Ok(acc)
  ELSE LET tag == ToTypeTag(args[ix], ix - 1)
           ty == LoadType(tag.val, ix - 1)
       IN CASE ~tag.ok -> tag
            [] ~ty.ok  -> ty
            [] OTHER   -> LoadTypeArguments(args, ix + 1, Append(acc, ty.val))

Outcome == LoadTypeArguments(typeArgs, 1, <<>>)

Init ==
  /\ typeArgs \in UNION {[1..n -> TypeInputs(MaxTypeDepth)] : n \in 0..MaxTypeArgs}
  /\ better \in BOOLEAN
  /\ resolve \in BOOLEAN
Next == UNCHANGED vars
Spec == Init /\ [][Next]_vars

(***************************************************************************)
(* References for the properties, read off the type inputs alone.         *)
(***************************************************************************)
\* The type an input names: a datatype is its package's original id and its
\* (module, name), whichever version the input reaches it through.
RECURSIVE Denote(_)
Denote(t) ==
  [t EXCEPT !.addr = IF t.k = "Struct" THEN Original[t.addr] ELSE 0,
            !.params = [i \in DOMAIN t.params |-> Denote(t.params[i])]]

RECURSIVE Structs(_)
Structs(t) ==
  (IF t.k = "Struct" THEN {t} ELSE {}) \cup UNION {Structs(t.params[i]) : i \in DOMAIN t.params}

\* The error a type argument must be rejected with: a datatype its package
\* does not declare, else a datatype with the wrong number of arguments.
BadKind(t) ==
  CASE \E s \in Structs(t) : ~Declares(s.addr, s.key)        -> "TypeNotFound"
    [] \E s \in Structs(t) : Len(s.params) # Arity[s.key]    -> "ArityMismatch"
    [] OTHER                                                -> "none"

\* With resolve_type_input_ids_to_defining_id, the tags of a MoveCall's
\* type arguments are equal exactly when the arguments name the same types,
\* whichever upgraded version of a package they are reached through
\* (spec 4.6: type identity survives upgrades).  Reaching a datatype
\* through a later version, or a version that added a type, is where
\* to_type_tag and get_type_tag must agree on the defining id.
TypeIdentitySurvivesUpgrades ==
  resolve /\ Outcome.ok =>
    \A i, j \in DOMAIN typeArgs :
      Outcome.val[i] = Outcome.val[j] <=> Denote(typeArgs[i]) = Denote(typeArgs[j])

\* With better_adapter_type_resolution_errors, a MoveCall's type arguments
\* are accepted iff all of them are well formed; otherwise the error names
\* the first bad argument's index and is TypeNotFound when a datatype is
\* absent from its package's origin table, even where the VM would have
\* failed the load on an arity first (spec 4.6).
ErrorNamesFirstBadArgument ==
  better =>
    IF \A i \in DOMAIN typeArgs : BadKind(typeArgs[i]) = "none" THEN Outcome.ok
    ELSE LET i == CHOOSE i \in DOMAIN typeArgs :
                    /\ BadKind(typeArgs[i]) # "none"
                    /\ \A j \in 1..i - 1 : BadKind(typeArgs[j]) = "none"
         IN ~Outcome.ok /\ Outcome.idx = i - 1 /\ Outcome.kind = BadKind(typeArgs[i])
=============================================================================
