---------------------------- MODULE BcsValidate ----------------------------
(***************************************************************************)
(* bcs_argument_validate (execution.rs): the bytes of a pure argument are  *)
(* walked with bcs::from_bytes_seed against its PrimitiveArgumentLayout;   *)
(* the DeserializeSeed impl dispatches on the layout, VectorElementVisitor *)
(* reads elements until the sequence ends, OptionElementVisitor reads a   *)
(* payload only for Some.  The byte-level reads are the bcs crate's (wire *)
(* format, spec section 5): ULEB128 lengths in canonical form and at most *)
(* 2^31 - 1, a 0/1 tag for bool and Option, fixed-width integers and      *)
(* addresses, strings as a length and UTF-8 bytes, and no bytes left over.*)
(* The parser is checked against a reference that generates every valid   *)
(* encoding of a layout, up to MaxBytes bytes, from the values it holds.  *)
(***************************************************************************)
EXTENDS Integers, Sequences

CONSTANTS
  Bytes,      \* the byte values the enumerated inputs are made of
  MaxBytes,   \* bound on the length of the enumerated inputs
  MaxDepth    \* bound on the Option / Vector nesting of the layouts

ASSUME Bytes \subseteq 0..255 /\ MaxBytes < 128

VARIABLES layout, bytes
vars == <<layout, bytes>>

(***************************************************************************)
(* PrimitiveArgumentLayout: Option and Vector wrappers, outermost first,  *)
(* around a leaf.                                                          *)
(***************************************************************************)
Leaves == {"Bool", "U8", "U16", "U32", "U64", "U128", "U256", "Address",
           "Ascii", "UTF8"}
Width == [l \in {"Bool", "U8", "U16", "U32", "U64", "U128", "U256", "Address"} |->
            CASE l \in {"Bool", "U8"} -> 1 [] l = "U16" -> 2 [] l = "U32" -> 4
              [] l = "U64" -> 8 [] l = "U128" -> 16 [] OTHER -> 32]
Layouts == {w \o <<l>> : w \in UNION {[1..n -> {"Option", "Vector"}] : n \in 0..MaxDepth},
                         l \in Leaves}

Inputs == UNION {[1..n -> Bytes] : n \in 0..MaxBytes}

Drop(s, n) == SubSeq(s, n + 1, Len(s))

\* The outcome of a read: ok, the value read (lengths) and the bytes left.
Fail == [ok |-> FALSE, val |-> 0, rest |-> <<>>]
Ok(v, r) == [ok |-> TRUE, val |-> v, rest |-> r]

\* bcs parse_u32_from_uleb128 (shifts 0, 7, ..., 28) and parse_length.  A
\* value of 2^31 or more is a u32 overflow (final digit at shift 28 of 16
\* or more) or exceeds MAX_SEQUENCE_LENGTH = 2^31 - 1 (digit 8 to 15); the
\* latter is read as TooLong, since TLC's integers stop below 2^31.
TooLong == -1

RECURSIVE Uleb128(_, _, _)
Uleb128(s, shift, acc) ==
  IF s = <<>> THEN Fail
  ELSE LET digit == Head(s) % 128
       IN IF digit = Head(s)
          THEN CASE shift > 0 /\ digit = 0    -> Fail
                 [] shift = 28 /\ digit >= 16 -> Fail
                 [] shift = 28 /\ digit >= 8  -> Ok(TooLong, Tail(s))
                 [] OTHER                      -> Ok(acc + digit * 2^shift, Tail(s))
          ELSE IF shift >= 28 THEN Fail
               ELSE Uleb128(Tail(s), shift + 7, acc + digit * 2^shift)

ParseLength(s) ==
  LET r == Uleb128(s, 0, 0) IN IF r.ok /\ r.val = TooLong THEN Fail ELSE r

\* core::str::from_utf8: well-formed UTF-8 (no overlong form, no surrogate,
\* nothing above U+10FFFF), as the table of valid lead and second bytes.
Cont(b) == b \in 128..191
RECURSIVE IsUtf8(_)
IsUtf8(s) ==
  IF s = <<>> THEN TRUE
  ELSE LET a == s[1]
           n == CASE a < 128 -> 1 [] a \in 194..223 -> 2 [] a \in 224..239 -> 3
                  [] a \in 240..244 -> 4 [] OTHER -> 0
           second == CASE a = 224 -> 160..191 [] a = 237 -> 128..159
                       [] a = 240 -> 144..191 [] a = 244 -> 128..143
                       [] OTHER   -> 128..191
       IN /\ n > 0 /\ Len(s) >= n
          /\ n >= 2 => s[2] \in second
          /\ \A i \in 3..n : Cont(s[i])
          /\ IsUtf8(Drop(s, n))

\* The bcs reads of a leaf: a string is a length and that many bytes.
ParseLeaf(l, s) ==
  CASE l = "Bool" -> IF s # <<>> /\ Head(s) \in {0, 1} THEN Ok(0, Tail(s)) ELSE Fail
    [] l \in {"Ascii", "UTF8"} ->
         LET n == ParseLength(s)
             str == SubSeq(n.rest, 1, n.val)
         IN IF /\ n.ok /\ Len(n.rest) >= n.val /\ IsUtf8(str)
               /\ l = "Ascii" => \A i \in DOMAIN str : str[i] < 128
            THEN Ok(0, Drop(n.rest, n.val)) ELSE Fail
    [] OTHER -> IF Len(s) >= Width[l] THEN Ok(0, Drop(s, Width[l])) ELSE Fail

\* DeserializeSeed for &PrimitiveArgumentLayout, with OptionElementVisitor
\* (a tag, then the payload for Some) and VectorElementVisitor (a length,
\* then the elements one by one).
RECURSIVE Parse(_, _), ParseOption(_, _), ParseElems(_, _, _)
Parse(l, s) ==
  CASE Len(l) = 1      -> ParseLeaf(l[1], s)
    [] l[1] = "Option" -> ParseOption(Tail(l), s)
    [] OTHER           -> LET n == ParseLength(s)
                          IN IF n.ok THEN ParseElems(Tail(l), n.val, n.rest) ELSE Fail

\* deserialize_option: tag 0 is visit_none, tag 1 is visit_some, which reads
\* the payload with the inner layout.
ParseOption(l, s) ==
  CASE s = <<>> \/ Head(s) \notin {0, 1} -> Fail
    [] Head(s) = 0                       -> Ok(0, Tail(s))
    [] OTHER                             -> Parse(l, Tail(s))

\* visit_seq: next_element_seed with the inner layout, once per element.
ParseElems(l, k, s) ==
  IF k = 0 THEN Ok(0, s)
  ELSE LET e == Parse(l, s) IN IF e.ok THEN ParseElems(l, k - 1, e.rest) ELSE Fail

\* Mutant: bytes left after the value are not rejected.
BcsArgumentValidateTrailing(l, s) == Parse(l, s).ok

\* bcs_argument_validate: bcs::from_bytes_seed, which also requires that
\* every byte was read.
BcsArgumentValidate(l, s) == LET r == Parse(l, s) IN r.ok /\ r.rest = <<>>

(***************************************************************************)
(* Reference: the encodings of every value of a layout, generated from the *)
(* values (a code point is encoded by its UTF-8 bit pattern), up to n      *)
(* bytes and over Bytes.                                                   *)
(***************************************************************************)
Enc2(cp) == <<192 + (cp \div 64), 128 + (cp % 64)>>
Enc3(cp) == <<224 + (cp \div 4096), 128 + ((cp \div 64) % 64), 128 + (cp % 64)>>
Enc4(cp) == <<240 + (cp \div 262144), 128 + ((cp \div 4096) % 64),
              128 + ((cp \div 64) % 64), 128 + (cp % 64)>>
InBytes(e) == \A i \in DOMAIN e : e[i] \in Bytes

\* The encodings made of Bytes of the code points (each in the range its
\* length encodes, surrogates excluded);
\* 3- and 4-byte code points are enumerated through their lead byte.
Chars ==
  {<<b>> : b \in {x \in Bytes : x < 128}}
  \cup {e \in {Enc2(cp) : cp \in 128..2047} : InBytes(e)}
  \cup {e \in {Enc3(cp) : cp \in {a * 4096 + lo : a \in {x - 224 : x \in Bytes \cap 224..239},
                                                 lo \in 0..4095}
                          \cap (2048..65535 \ 55296..57343)}
         : InBytes(e)}
  \cup {e \in {Enc4(cp) : cp \in {a * 262144 + lo : a \in {x - 240 : x \in Bytes \cap 240..247},
                                                   lo \in 0..262143}
                          \cap 65536..1114111}
         : InBytes(e)}

RECURSIVE Strings(_)
Strings(k) ==
  IF k = 0 THEN {<<>>}
  ELSE UNION {{c \o r : r \in Strings(k - Len(c))} : c \in {c \in Chars : Len(c) <= k}}

RECURSIVE Enc(_, _), Concat(_, _, _)
Enc(l, n) ==
  IF n <= 0 THEN {}
  ELSE IF Len(l) = 1
  THEN CASE l[1] = "Bool" -> {<<0>>, <<1>>} \cap [1..1 -> Bytes]
         [] l[1] = "UTF8" ->
              (UNION {{<<k>> \o s : s \in Strings(k)} : k \in 0..n - 1}) \cap Inputs
         [] l[1] = "Ascii" ->
              (UNION {{<<k>> \o s : s \in [1..k -> {b \in Bytes : b < 128}]}
                      : k \in 0..n - 1}) \cap Inputs
         [] OTHER -> IF Width[l[1]] <= n THEN [1..Width[l[1]] -> Bytes] ELSE {}
  ELSE IF l[1] = "Option"
  THEN ({<<0>>} \cup {<<1>> \o e : e \in Enc(Tail(l), n - 1)}) \cap Inputs
  ELSE (UNION {{<<k>> \o c : c \in Concat(Tail(l), k, n - 1)} : k \in 0..n - 1}) \cap Inputs

Concat(l, k, n) ==
  IF k = 0 THEN {<<>>}
  ELSE UNION {{e \o r : r \in Concat(l, k - 1, n - Len(e))} : e \in Enc(l, n)}

Reference == [l \in Layouts |-> Enc(l, MaxBytes)]

Init == layout \in Layouts /\ bytes \in Inputs
Next == UNCHANGED vars
Spec == Init /\ [][Next]_vars

\* bcs_argument_validate accepts exactly the encodings of the layout's
\* values: a reader that leaves bytes over, takes an Option tag other than
\* 0 or 1, accepts a non-canonical or overlong length, or lets a malformed
\* or non-ASCII string through gives the VM bytes that are no value of the
\* parameter type.
ValidateMatchesReference ==
  BcsArgumentValidate(layout, bytes) <=> bytes \in Reference[layout]
=============================================================================
