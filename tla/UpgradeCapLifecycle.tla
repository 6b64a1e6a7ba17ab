------------------------- MODULE UpgradeCapLifecycle -------------------------
(***************************************************************************)
(* What a programmable transaction promises about one UpgradeCap, stated   *)
(* without commands, argument slots or the VM.  The cap names the package *)
(* version it may upgrade.  Authorizing clears the cap and issues a       *)
(* ticket for that version; installing consumes the ticket and installs a  *)
(* new version at a fresh storage id, derived from the authorized one;    *)
(* committing points the cap at the new version.  A transaction commits   *)
(* only with no authorization or installation pending, and an aborted     *)
(* transaction leaves nothing of this behind.  The cap may also leave the *)
(* transaction's hands (Move code keeps it, e.g. inside a vector); it     *)
(* then names no version the transaction can use (Gone).                 *)
(***************************************************************************)
EXTENDS Integers

CONSTANT InitialPackage  \* the version the cap names before the transaction

VARIABLES
  phase,     \* "idle", "authorized" (a ticket is live), "upgraded" (a receipt is)
  capPkg,    \* the version the cap names; 0 while an upgrade is pending,
             \* Gone once the cap has left the transaction's hands
  ticket,    \* the version the live ticket authorizes, or 0
  pending,   \* the storage id the live receipt carries, or 0
  upgrades,  \* versions installed: [from, storage]
  outcome    \* "running", "done" or "aborted"

Gone == -1

lvars == <<phase, capPkg, ticket, pending, upgrades, outcome>>

Init ==
  /\ phase = "idle"
  /\ capPkg = InitialPackage
  /\ ticket = 0
  /\ pending = 0
  /\ upgrades = {}
  /\ outcome = "running"

Authorize ==
  /\ outcome = "running" /\ phase = "idle" /\ capPkg \notin {0, Gone}
  /\ phase' = "authorized" /\ ticket' = capPkg /\ capPkg' = 0
  /\ UNCHANGED <<pending, upgrades, outcome>>

\* The new version's storage id is fresh: no earlier version of this
\* transaction, nor the authorized one, has it.
Install ==
  /\ outcome = "running" /\ phase = "authorized"
  /\ pending' \notin {0, ticket} \cup {u.storage : u \in upgrades}
  /\ upgrades' = upgrades \cup {[from |-> ticket, storage |-> pending']}
  /\ phase' = "upgraded" /\ ticket' = 0
  /\ UNCHANGED <<capPkg, outcome>>

Commit ==
  /\ outcome = "running" /\ phase = "upgraded" /\ capPkg = 0
  /\ capPkg' = pending /\ pending' = 0 /\ phase' = "idle"
  /\ UNCHANGED <<ticket, upgrades, outcome>>

Relinquish ==
  /\ outcome = "running" /\ capPkg # Gone
  /\ capPkg' = Gone
  /\ UNCHANGED <<phase, ticket, pending, upgrades, outcome>>

Finish ==
  /\ outcome = "running" /\ phase = "idle"
  /\ outcome' = "done"
  /\ UNCHANGED <<phase, capPkg, ticket, pending, upgrades>>

Abort ==
  /\ outcome = "running"
  /\ outcome' = "aborted"
  /\ phase' = "idle" /\ capPkg' = InitialPackage /\ ticket' = 0
  /\ pending' = 0 /\ upgrades' = {}

Next == Authorize \/ Install \/ Commit \/ Relinquish \/ Finish \/ Abort

Spec == Init /\ [][Next]_lvars
=============================================================================
