------------------------- MODULE MC_PTBExecution -------------------------
(***************************************************************************)
(* A small instance of PTBExecution: two mutable CoinA inputs, an          *)
(* immutable CoinB input, a pure u64 and a pure address, and a package of  *)
(* callees covering every FunctionKind and every rejection of              *)
(* check_visibility_and_signature and check_private_generics.              *)
(***************************************************************************)
EXTENDS PTBExecution

Val(ty, bal, ids) ==
  [ty |-> ty, bal |-> bal, ids |-> ids, pkg |-> NoPkg, usedNonEntry |-> FALSE,
   gLast |-> FALSE, gEver |-> FALSE]

MCInputTable ==
  << Val("CoinA", 2, {1}), Val("CoinA", 1, {2}), Val("CoinB", 1, {3}),
     Val("PureU64", 1, {}), Val("PureAddr", 0, {}) >>

MCInputMutable == <<TRUE, TRUE, FALSE, FALSE, FALSE>>

P(m, ty) == [m |-> m, ty |-> ty]
R(ref, ty) == [ref |-> ref, ty |-> ty]
Fn(name, module, vis, entry, params, rets) ==
  [name |-> name, module |-> module, vis |-> vis, entry |-> entry,
   params |-> params, rets |-> rets, framework |-> "none"]

\* coin::split style: public non-entry, &mut Coin, u64, &mut TxContext.
Split   == Fn("split", "pay", "public", FALSE,
              <<P("mut", "CoinA"), P("val", "U64"), P("mut", "TxContext")>>,
              <<R(FALSE, "CoinA")>>)
\* A public non-entry function taking a coin by value and returning a coin,
\* with no TxContext: the coin it returns is the one it was given.
Pass    == Fn("pass", "pay", "public", FALSE, <<P("val", "CoinA")>>,
              <<R(FALSE, "CoinA")>>)
\* A public entry function mutating a coin.
Touch   == Fn("touch", "app", "public", TRUE, <<P("mut", "CoinA")>>, <<>>)
\* Private entry functions.
Keep    == Fn("keep", "app", "private", TRUE,
              <<P("mut", "CoinA"), P("mut", "TxContext")>>, <<>>)
Deposit == Fn("deposit", "app", "private", TRUE, <<P("val", "VecCoinA")>>, <<>>)
\* Rejected: private non-entry, sui::event, reference return, init.
Helper  == Fn("helper", "app", "private", FALSE, <<P("val", "U64")>>, <<>>)
Emit    == Fn("emit", "sui::event", "public", FALSE, <<P("val", "U64")>>, <<>>)
Peek    == Fn("peek", "app", "public", FALSE, <<P("ref", "CoinA")>>,
              <<R(TRUE, "U64")>>)
InitFn  == Fn("init", "app", "private", TRUE, <<P("mut", "TxContext")>>, <<>>)

MCCallees == {Split, Pass, Touch, Keep, Deposit, Helper, Emit, Peek, InitFn}

\* One module set, whose module has an init that may create an object, so
\* that Publish takes fresh ids around an init call; no stored package, so
\* no Upgrade.
MCModuleSets == {{"m1"}}
MCDigestOf == [m \in MCModuleSets |-> 1]
MCStoredPackages == [p \in {} |-> [runtime |-> 0, mods |-> {}]]
=============================================================================
