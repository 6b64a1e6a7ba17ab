--------------------------- MODULE ArgumentSlots ---------------------------
(***************************************************************************)
(* The argument table of a programmable transaction and its borrow         *)
(* discipline: by_value_arg, borrow_arg, borrow_arg_mut and restore_arg of *)
(* the ExecutionContext.  The context lives outside src/ and is modelled   *)
(* from the spec (section 4.2 and design note 9): every operation works on *)
(* a per-command record                                                    *)
(*    [slots |-> Arg -> Value, mutB |-> SUBSET Arg, immB |-> SUBSET Arg,   *)
(*     ok |-> BOOLEAN]                                                     *)
(* where mutB/immB are the args borrowed in the running command and ok     *)
(* turns FALSE at the first failing access (the command then aborts).      *)
(* A slot whose value was moved out holds None.                            *)
(***************************************************************************)
EXTENDS Naturals, Sequences, FiniteSets

CONSTANTS
  InputMutable   \* [input index -> BOOLEAN]: objects the sender may mutate or move

\* Value types of the model.  Coins and the package UpgradeCap ("Cap") are
\* the objects; Ticket and Receipt are sui::package::UpgradeTicket and
\* UpgradeReceipt (no abilities); Pure* are untyped transaction inputs
\* (RawValueType::Any) whose bytes decode as a u64 or an address; the rest
\* are loaded Move types.
CoinTypes   == {"CoinA", "CoinB"}
ObjTypes    == CoinTypes \cup {"Cap"}
VecTypes    == {"VecCoinA", "VecCoinB", "VecCap", "VecU64"}
PureTypes   == {"PureU64", "PureAddr"}
Types       == ObjTypes \cup VecTypes \cup PureTypes
               \cup {"U64", "Addr", "Ticket", "Receipt"}

\* Abilities of a type (AbilitySet): objects have key+store, vectors of
\* objects, tickets and receipts have neither copy nor drop, primitives have
\* copy+drop.
HasKey(t)   == t \in ObjTypes
HasStore(t) == t \in ObjTypes
HasCopy(t)  == t \in PureTypes \cup {"U64", "Addr", "VecU64"}
HasDrop(t)  == HasCopy(t)

\* A value: its type, the coin balance (or the u64 payload of a number),
\* the ids of the objects it holds, the package fields of a cap, ticket or
\* receipt (pkg), the code's used_in_non_entry_move_call flag, and two
\* history fields that no code reads: gLast (last produced or
\* mutated by a non-entry call, or holds such a value) and gEver (ever was).
\* pkg: the cap id, package id, policy and digest of a ticket, plus the new
\* storage id of a receipt; a cap uses package only.
NoPkg == [cap |-> 0, package |-> 0, policy |-> 0, digest |-> 0, storage |-> 0]

None == [ty |-> "none", bal |-> 0, ids |-> {}, pkg |-> NoPkg,
         usedNonEntry |-> FALSE, gLast |-> FALSE, gEver |-> FALSE]

\* An Arg is <<0, i>> for input i and <<c, j>> for result j of command c.
IsInput(a) == a[1] = 0

\* Context of a command before its first argument access.
Begin(slots) ==
  [slots |-> slots, mutB |-> {}, immB |-> {}, ok |-> TRUE, inv |-> FALSE]

Fail(c) == [c EXCEPT !.ok = FALSE]

\* An immutable input object may be read but neither moved nor mutated.
Owned(c, a) == IsInput(a) /\ HasKey(c.slots[a].ty) => InputMutable[a[2]]

\* by_value_arg: the slot holds a value, no borrow of this command covers
\* it, and it is owned; a value without copy is moved out of the slot.
ByValue(c, a) ==
  IF c.ok /\ c.slots[a] # None /\ a \notin c.mutB \cup c.immB /\ Owned(c, a)
  THEN IF HasCopy(c.slots[a].ty) THEN c
       ELSE [c EXCEPT !.slots[a] = None]
  ELSE Fail(c)

\* borrow_arg: a shared view, refused while the slot is moved out or
\* exclusively borrowed.
BorrowImm(c, a) ==
  IF c.ok /\ c.slots[a] # None /\ a \notin c.mutB
  THEN [c EXCEPT !.immB = @ \cup {a}]
  ELSE Fail(c)

\* borrow_arg_mut: an exclusive view, refused while the slot is moved out or
\* borrowed at all, or is an immutable input; a value without copy is taken
\* out of the slot until restore_arg puts it back.
BorrowMut(c, a) ==
  IF c.ok /\ c.slots[a] # None /\ a \notin c.mutB \cup c.immB /\ Owned(c, a)
  THEN [c EXCEPT !.mutB = @ \cup {a},
                 !.slots[a] = IF HasCopy(@.ty) THEN @ ELSE None]
  ELSE Fail(c)

\* restore_arg: write v back into an exclusively borrowed slot.  Restoring
\* a slot that is not exclusively borrowed is an invariant violation of the
\* adapter, flagged in the field inv.
Restore(c, a, v) ==
  [c EXCEPT !.slots[a] = v, !.mutB = @ \ {a},
            !.inv = @ \/ a \notin c.mutB]

\* push_command_results asserts that every exclusive borrow was restored.
AllRestored(c) == c.mutB = {}
=============================================================================
