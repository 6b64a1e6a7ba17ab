---------------------------- MODULE ObjectLedger ----------------------------
(***************************************************************************)
(* What a programmable transaction promises about objects and coin         *)
(* balance, stated without commands, argument slots or the VM.  Every      *)
(* object the transaction has seen is in one place: in the transaction's   *)
(* hands, with Move code (taken by value and not returned), transferred,   *)
(* deleted (merged away), or the storage id of a package it wrote.  The    *)
(* last three are final.  A new object gets an id no object ever had.      *)
(* Coin balance, per coin type, is split between the hands, Move code and  *)
(* the transferred coins; the total never changes and what was transferred *)
(* never shrinks.  A transaction commits only with no object in its hands  *)
(* that was not one of its inputs; it may abort at any point.  Next is a   *)
(* relation on the primed state, checked as a property of a refinement.   *)
(***************************************************************************)
EXTENDS Integers

CONSTANTS
  CoinKinds,   \* the coin types
  InputIds,    \* the ids of the objects among the transaction's inputs
  InputSupply  \* [CoinKinds -> Nat]: the balance of the input coins

VARIABLES
  place,       \* [ids seen -> Places]
  hand,        \* [CoinKinds -> Nat]: balance in the transaction's hands
  withMove,    \* [CoinKinds -> Nat]: balance kept by Move code
  sent,        \* [CoinKinds -> Nat]: balance of the transferred coins
  outcome      \* "running", "done" or "aborted"

lvars == <<place, hand, withMove, sent, outcome>>

Places == {"hand", "move", "sent", "deleted", "package"}
Final  == {"sent", "deleted", "package"}

Total(t) == hand[t] + withMove[t] + sent[t]

Init ==
  /\ place = [id \in InputIds |-> "hand"]
  /\ hand = InputSupply
  /\ withMove = [t \in CoinKinds |-> 0]
  /\ sent = [t \in CoinKinds |-> 0]
  /\ outcome = "running"

\* One command: objects move between places, never out of a final one; new
\* objects appear in the hands, with Move code or as a package; balance
\* moves between the hands and Move code, and into the transferred coins
\* only along with an object sent.
Command ==
  /\ outcome = "running"
  /\ outcome' = "running"
  /\ LET old == place
         new == place'
     IN /\ DOMAIN old \subseteq DOMAIN new
        /\ new \in [DOMAIN new -> Places]
        /\ \A id \in DOMAIN old : old[id] \in Final => new[id] = old[id]
        /\ \A id \in DOMAIN new \ DOMAIN old : new[id] \in {"hand", "move", "package"}
        /\ \A t \in CoinKinds :
             /\ hand'[t] + withMove'[t] + sent'[t] = Total(t)
             /\ sent'[t] >= sent[t]
             /\ sent'[t] > sent[t] =>
                  \E id \in DOMAIN old : old[id] = "hand" /\ new[id] = "sent"

\* Commit: only objects that were inputs are left in the transaction's hands.
Commit ==
  /\ outcome = "running"
  /\ outcome' = "done"
  /\ LET p == place IN \A id \in DOMAIN p : p[id] = "hand" => id \in InputIds
  /\ UNCHANGED <<place, hand, withMove, sent>>

\* Abort: whatever was done is discarded with the transaction, so the
\* ledger after an abort is not constrained.
Abort ==
  /\ outcome = "running"
  /\ outcome' = "aborted"

Next == Command \/ Commit \/ Abort

Spec == Init /\ [][Next]_lvars
=============================================================================
