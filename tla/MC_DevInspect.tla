-------------------------- MODULE MC_DevInspect --------------------------
(***************************************************************************)
(* The inputs of MC_PTBExecution under the dev-inspect ExecutionMode       *)
(* (allow_arbitrary_values and allow_arbitrary_function_calls).  The       *)
(* callees add a public accessor returning &Coin, which check_non_entry_   *)
(* signature accepts in this mode only, dereferencing it.                  *)
(***************************************************************************)
EXTENDS MC_PTBExecution

\* A public getter in the style of a borrow accessor: &Coin -> &Coin.
Borrow == Fn("borrow", "app", "public", FALSE, <<P("ref", "CoinA")>>,
             <<R(TRUE, "CoinA")>>)

\* Private entry, private non-entry (callable here), non-entry with &mut
\* TxContext, and the accessor.
MCDevCallees == {Split, Keep, Helper, Borrow}
=============================================================================
