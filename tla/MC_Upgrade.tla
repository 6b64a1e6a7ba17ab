---------------------------- MODULE MC_Upgrade ----------------------------
(***************************************************************************)
(* An instance of PTBExecution for package publish and upgrade: the       *)
(* inputs are an owned UpgradeCap for package 101 (a version of original  *)
(* package 100), the policies Compatible (0) and DepOnly (192) and a       *)
(* digest as pure u64 values; the callees are sui::package's              *)
(* authorize_upgrade and commit_upgrade.                                   *)
(***************************************************************************)
EXTENDS PTBExecution

Val(ty, bal, ids, pkg) ==
  [ty |-> ty, bal |-> bal, ids |-> ids, pkg |-> pkg, usedNonEntry |-> FALSE,
   gLast |-> FALSE, gEver |-> FALSE]

UpInputTable ==
  << Val("Cap", 0, {1}, [NoPkg EXCEPT !.package = 101]),
     Val("PureU64", 0, {}, NoPkg), Val("PureU64", 192, {}, NoPkg),
     Val("PureU64", 2, {}, NoPkg) >>

UpInputMutable == <<TRUE, FALSE, FALSE, FALSE>>

P(m, ty) == [m |-> m, ty |-> ty]
R(ref, ty) == [ref |-> ref, ty |-> ty]

\* sui::package::authorize_upgrade(&mut UpgradeCap, u8, vector<u8>).
Authorize == [name |-> "authorize_upgrade", module |-> "sui::package",
              vis |-> "public", entry |-> FALSE,
              params |-> <<P("mut", "Cap"), P("val", "U64"), P("val", "U64")>>,
              rets |-> <<R(FALSE, "Ticket")>>, framework |-> "authorize"]
\* sui::package::commit_upgrade(&mut UpgradeCap, UpgradeReceipt).
Commit    == [name |-> "commit_upgrade", module |-> "sui::package",
              vis |-> "public", entry |-> FALSE,
              params |-> <<P("mut", "Cap"), P("val", "Receipt")>>,
              rets |-> <<>>, framework |-> "commit"]

UpCallees == {Authorize, Commit}

\* The stored versions 100 (original) and 101 of one package, module m1.
UpStoredPackages == (100 :> [runtime |-> 100, mods |-> {"m1"}])
                    @@ (101 :> [runtime |-> 100, mods |-> {"m1"}])

\* Digests: the input digest 2 authorizes adding module m2.
UpModuleSets == {{"m1"}, {"m1", "m2"}, {"m2"}}
UpDigestOf == [m \in UpModuleSets |-> IF m = {"m1"} THEN 1
                                      ELSE IF m = {"m1", "m2"} THEN 2 ELSE 3]

(***************************************************************************)
(* Refinement: the transaction's view of the input UpgradeCap (id 1) is an *)
(* UpgradeCapLifecycle.  A live ticket or receipt is one of this cap's in *)
(* the argument table; an aborted transaction, or one whose finish failed, *)
(* maps to the state the abstract Abort leaves.                           *)
(***************************************************************************)
CapSlot == <<0, 1>>
CapId == 1

Live(ty) == {a \in DOMAIN slots : slots[a].ty = ty /\ slots[a].pkg.cap = CapId}

Dead == status \in {"aborted", "finish_failed"}

LivePkg(ty, field) ==
  IF Dead \/ Live(ty) = {} THEN 0
  ELSE slots[CHOOSE a \in Live(ty) : TRUE].pkg[field]

Lifecycle == INSTANCE UpgradeCapLifecycle WITH
  InitialPackage <- 101,
  phase   <- IF Dead THEN "idle"
             ELSE IF Live("Receipt") # {} THEN "upgraded"
             ELSE IF Live("Ticket") # {} THEN "authorized"
             ELSE "idle",
  capPkg  <- IF Dead THEN 101
             ELSE IF slots[CapSlot].ty = "Cap" THEN slots[CapSlot].pkg.package
             ELSE -1,
  ticket  <- LivePkg("Ticket", "package"),
  pending <- LivePkg("Receipt", "storage"),
  upgrades <- IF Dead THEN {}
              ELSE {[from |-> p.from, storage |-> p.storage] : p \in {q \in packages : q.from # 0}},
  outcome <- IF Dead THEN "aborted"
             ELSE IF status = "finished" THEN "done" ELSE "running"

\* The adapter, the sui::package functions and the finish check together
\* implement the UpgradeCap lifecycle: every transaction of MC_Upgrade is a
\* behaviour of UpgradeCapLifecycle under the mapping above.  It fails if
\* the receipt does not carry the new storage id, a ticket survives its
\* upgrade, or a transaction finishes with a ticket or receipt live.
LifecycleRefined == Lifecycle!Spec
=============================================================================
