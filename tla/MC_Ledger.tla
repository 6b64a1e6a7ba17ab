----------------------------- MODULE MC_Ledger -----------------------------
(***************************************************************************)
(* The instance of MC_PTBExecution seen as an ObjectLedger.  The place of  *)
(* an id is read off where the argument table and the effects hold it; an *)
(* id held in no place or in two maps to "nowhere", which ObjectLedger     *)
(* does not allow.  Balances are those CoinConservation adds up.  A        *)
(* transaction whose finish failed maps to an aborted one.                 *)
(***************************************************************************)
EXTENDS MC_PTBExecution

\* Every id the argument table or the effects hold, and every id created.
SeenIds ==
  KnownIds \cup UNION {slots[a].ids : a \in DOMAIN slots}
  \cup UNION {v.ids : v \in transferred} \cup held.ids \cup deleted
  \cup {p.storage : p \in packages}

\* The place of an id; one held twice, or by no place, is "nowhere".
Where(id) ==
  CASE Holders(id) # 1                             -> "nowhere"
    [] \E a \in DOMAIN slots : id \in slots[a].ids -> "hand"
    [] \E v \in transferred : id \in v.ids         -> "sent"
    [] id \in held.ids                             -> "move"
    [] id \in deleted                              -> "deleted"
    [] OTHER                                       -> "package"

Ledger == INSTANCE ObjectLedger WITH
  CoinKinds <- CoinTypes,
  InputIds  <- UNION {InputTable[i].ids : i \in DOMAIN InputTable},
  InputSupply <- [t \in CoinTypes |-> Supply(t)],
  place     <- [id \in SeenIds |-> Where(id)],
  hand      <- [t \in CoinTypes |-> SumOf([a \in DOMAIN slots |-> CoinBal(slots[a], t)])],
  withMove  <- held.bal,
  sent      <- [t \in CoinTypes |-> MapThenSumSet(LAMBDA v : CoinBal(v, t), transferred)],
  outcome   <- CASE status \in {"aborted", "finish_failed"} -> "aborted"
                 [] status = "finished"                    -> "done"
                 [] OTHER                                  -> "running"

\* The commands, the Move VM's returns and finish together keep the
\* ObjectLedger's promise: no transferred, deleted or published object comes
\* back, a new object never reuses an id, coin balance moves only between
\* the hands, Move code and transferred coins, and a transaction commits
\* only when nothing it created is left unconsumed in its hands.  It fails
\* if finish lets an unused vector of new coins through, a merge loses the
\* balance, or a Move call's returned object is also kept by Move code.
LedgerRefined == Ledger!Spec
=============================================================================
