---------------------------- MODULE PTBExecution ----------------------------
(***************************************************************************)
(* The command dispatcher of programmable_transactions/execution.rs:       *)
(* execute_inner runs the commands of one transaction in order, each       *)
(* through execute_command, over the argument table of ArgumentSlots.      *)
(* Modelled commands: SplitCoins, MergeCoins, TransferObjects, MakeMoveVec,*)
(* MoveCall (visibility check, build_move_args, the Move VM as a           *)
(* nondeterministic collaborator, write_back_results), Publish and Upgrade *)
(* (with the package store, the linkage and sui::package's ticket calls). *)
(* The transaction is chosen one command at a time: the sender fixes it   *)
(* up front, and no command's choice depends on the state, so this        *)
(* enumerates every transaction of at most MaxCommands commands.          *)
(***************************************************************************)
EXTENDS ArgumentSlots, SequencesExt, Functions, Integers, TLC

CONSTANTS
  Mode,          \* "Normal", "DevInspect" or "Genesis" (the ExecutionMode)
  BanEntryInit,  \* protocol flag ban_entry_init
  InputTable,    \* the transaction inputs: a sequence of values
  Callees,       \* the Move functions a MoveCall may name (records, below)
  MaxCommands,   \* bound on the number of commands of a transaction
  MaxArgs,       \* bound on the length of an argument list of a command
  MaxU64,        \* largest coin balance (u64::MAX, scaled down)
  FirstFreshId,  \* ids handed out by the TxContext are FirstFreshId + n
  RetPayload,    \* the u64 a Move function returns
  StoredPackages,     \* the package store before the transaction:
                      \* [storage id -> [runtime |-> id, mods |-> SUBSET names]]
  UpgradeTargets,     \* package ids an Upgrade command may name
  ModuleSets,         \* module sets a Publish or Upgrade command may carry
  DigestOf,           \* [ModuleSets -> Nat]: the digest of the module bytes
  KnownPolicies,      \* UpgradePolicy values (Compatible, Additive, DepOnly)
  DepOnlyPolicy,      \* UpgradePolicy::DEP_ONLY
  DisallowNewModules, \* flag disallow_new_modules_in_deps_only_packages
  InitModules,        \* module names that define an init function
  MaxInitObjects      \* objects an init function may create

ASSUME Mode \in {"Normal", "DevInspect", "Genesis"}
ASSUME MaxCommands \in Nat \ {0} /\ MaxArgs \in Nat \ {0}

(***************************************************************************)
(* A callee is [name, module, vis, entry, params, rets]: params is a       *)
(* sequence of [m \in {"val","ref","mut"}, ty] (a trailing &TxContext or   *)
(* &mut TxContext has ty "TxContext"), rets a sequence of [ref, ty].       *)
(***************************************************************************)

VARIABLES
  slots,        \* the argument table: inputs and the results of each command
  cmdIdx,       \* number of commands that completed successfully
  status,       \* "running", "aborted", "finished", "finish_failed"
  errKind,      \* "none", "user" or "invariant" (an assert_invariant! fired)
  timings,      \* ExecutionTiming per attempted command
  transferred,  \* objects handed to transfer_object
  held,         \* objects and balance consumed by Move code: [ids, bal]
  deleted,      \* ids deleted by delete_id
  idsCreated,   \* TxContext ids_created
  loadedSaved,  \* state_view.save_loaded_runtime_objects was called
  recorded,     \* state_view.record_execution_results was called
  privArgs,     \* history: provenance of every argument a private entry
                \* or init function accepted
  packages,     \* packages written by write_package in this transaction:
                \* [storage, runtime, mods, from] (from: upgraded id, or 0)
  linkage,      \* the linkage view's link context: "none" or a package id
  ticketsMinted \* history: UpgradeTickets returned by authorize_upgrade

vars == <<slots, cmdIdx, status, errKind, timings, transferred, held,
          deleted, idsCreated, loadedSaved, recorded, privArgs,
          packages, linkage, ticketsMinted>>

\* The capability table of the ExecutionMode.
AllowArbitraryValues        == Mode = "DevInspect"
AllowArbitraryFunctionCalls == Mode = "DevInspect"

ElemTypes == {"CoinA", "CoinB", "Cap", "U64"}
VecOf == [CoinA |-> "VecCoinA", CoinB |-> "VecCoinB", Cap |-> "VecCap",
          U64 |-> "VecU64"]

FreshId(n) == FirstFreshId + n

\* The balance of coin type t a value carries (a coin or a vector of coins).
CoinBal(v, t) == IF v.ty \in {t, VecOf[t]} THEN v.bal ELSE 0

SumOf(f) == SumFunction(f)

IsU64(v)  == v.ty \in {"PureU64", "U64"}
IsAddr(v) == v.ty \in {"PureAddr", "Addr"}

(***************************************************************************)
(* check_param_type: untyped bytes are accepted for a type only when it    *)
(* has a primitive layout they decode as (primitive_serialization_layout,  *)
(* bcs_argument_validate); dev-inspect accepts any bytes; a loaded value   *)
(* or an object must have exactly the parameter type.                      *)
(***************************************************************************)
PrimitiveOf == [PureU64 |-> "U64", PureAddr |-> "Addr"]

CheckParamType(v, t) ==
  IF v.ty \in PureTypes
  THEN AllowArbitraryValues \/ PrimitiveOf[v.ty] = t
  ELSE v.ty = t

(***************************************************************************)
(* Ending a command.  Abort: execute_inner saves the loaded runtime        *)
(* objects, records an Abort timing and returns the error tagged with the  *)
(* command index (cmdIdx); the context, and with it the argument table,    *)
(* is dropped.  Complete: Mode::finish_command and push_command_results,   *)
(* which asserts that all exclusive borrows were restored.                 *)
(***************************************************************************)
\* Mutant: the error path forgets save_loaded_runtime_objects.
AbortUnsaved(kind) ==
  /\ status' = "aborted"
  /\ errKind' = kind
  /\ timings' = Append(timings, "Abort")
  /\ UNCHANGED <<slots, cmdIdx, transferred, held, deleted, idsCreated,
                 loadedSaved, recorded, privArgs, packages, linkage,
                 ticketsMinted>>

Abort(kind) ==
  /\ status' = "aborted"
  /\ errKind' = kind
  /\ timings' = Append(timings, "Abort")
  /\ loadedSaved' = TRUE
  /\ UNCHANGED <<slots, cmdIdx, transferred, held, deleted, idsCreated,
                 recorded, privArgs, packages, linkage, ticketsMinted>>

\* The side effects a command leaves outside the argument table.
Effects == [ids |-> idsCreated, transferred |-> transferred, held |-> held,
            deleted |-> deleted, privArgs |-> privArgs, packages |-> packages,
            linkage |-> linkage, minted |-> ticketsMinted]

\* Mutant: results indexed one command ahead.
ResultArgsAhead(n) == {<<cmdIdx + 2, j>> : j \in 1..n}

ResultArgs(n) == {<<cmdIdx + 1, j>> : j \in 1..n}

Complete(c, results, eff) ==
  IF c.inv \/ ~AllRestored(c)
  THEN Abort("invariant")
  ELSE /\ slots' = c.slots @@ [a \in ResultArgs(Len(results)) |-> results[a[2]]]
       /\ cmdIdx' = cmdIdx + 1
       /\ timings' = Append(timings, "Success")
       /\ idsCreated' = eff.ids
       /\ transferred' = eff.transferred
       /\ held' = eff.held
       /\ deleted' = eff.deleted
       /\ privArgs' = eff.privArgs
       /\ packages' = eff.packages
       /\ linkage' = eff.linkage
       /\ ticketsMinted' = eff.minted
       /\ UNCHANGED <<status, errKind, loadedSaved, recorded>>

Vals(args) == [k \in DOMAIN args |-> slots[args[k]]]

TakeAll(c, args) == FoldLeft(ByValue, c, args)

(***************************************************************************)
(* SplitCoins (execute_command): borrow the coin mutably, take each amount *)
(* by value as a u64, give each new coin a fresh id from the TxContext,    *)
(* split it off the balance (coin.split fails on an insufficient balance), *)
(* then restore the reduced coin.  New coins are never marked as used in a *)
(* non-entry call (ObjectValue::coin).                                     *)
(***************************************************************************)
NewCoin(ty, amount, n) ==
  [ty |-> ty, bal |-> amount, ids |-> {FreshId(n)}, pkg |-> NoPkg,
   usedNonEntry |-> FALSE, gLast |-> FALSE, gEver |-> FALSE]

\* Mutant: the split coin is never restored.
SplitRestoreSkip(c, coinArg, coin, total) == c

SplitRestore(c, coinArg, coin, total) ==
  Restore(c, coinArg, [coin EXCEPT !.bal = @ - total])

SplitCoins(coinArg, amountArgs) ==
  LET coin    == slots[coinArg]
      amounts == Vals(amountArgs)
      total   == SumOf([k \in DOMAIN amounts |-> amounts[k].bal])
      c       == TakeAll(BorrowMut(Begin(slots), coinArg), amountArgs)
  IN IF /\ c.ok
        /\ coin.ty \in CoinTypes
        /\ \A k \in DOMAIN amounts : IsU64(amounts[k])
        /\ total <= coin.bal
     THEN Complete(SplitRestore(c, coinArg, coin, total),
                   [k \in DOMAIN amounts |->
                      NewCoin(coin.ty, amounts[k].bal, idsCreated + k)],
                   [Effects EXCEPT !.ids = idsCreated + Len(amountArgs)])
     ELSE Abort("user")

(***************************************************************************)
(* MergeCoins: borrow the target mutably, take every other coin by value,  *)
(* each must have the target's coin type; delete its id and add its        *)
(* balance to the target (checked u64 addition), then restore the target.  *)
(***************************************************************************)
\* Mutant: the merged balance is dropped.
MergeAddLost(bal, total) == bal

MergeAdd(bal, total) == bal + total

MergeCoins(targetArg, coinArgs) ==
  LET target == slots[targetArg]
      coins  == Vals(coinArgs)
      total  == SumOf([k \in DOMAIN coins |-> coins[k].bal])
      c      == TakeAll(BorrowMut(Begin(slots), targetArg), coinArgs)
  IN IF /\ c.ok
        /\ target.ty \in CoinTypes
        /\ \A k \in DOMAIN coins : coins[k].ty = target.ty
        /\ target.bal + total <= MaxU64
     THEN Complete(Restore(c, targetArg,
                           [target EXCEPT !.bal = MergeAdd(@, total)]),
                   <<>>,
                   [Effects EXCEPT !.deleted =
                      @ \cup UNION {coins[k].ids : k \in DOMAIN coins}])
     ELSE Abort("user")

(***************************************************************************)
(* TransferObjects: take every object by value, then the address; each     *)
(* object must have store (ensure_public_transfer_eligible) and is handed  *)
(* to transfer_object.                                                     *)
(***************************************************************************)
TransferObjects(objArgs, addrArg) ==
  LET objs == Vals(objArgs)
      c    == ByValue(TakeAll(Begin(slots), objArgs), addrArg)
  IN IF /\ c.ok
        /\ \A k \in DOMAIN objs : HasKey(objs[k].ty) /\ HasStore(objs[k].ty)
        /\ IsAddr(slots[addrArg])
     THEN Complete(c, <<>>,
                   [Effects EXCEPT !.transferred = @ \cup Range(objs)])
     ELSE Abort("user")

(***************************************************************************)
(* MakeMoveVec: with no arguments the tag gives the element type (the      *)
(* input checker guarantees one); otherwise the elements are taken by      *)
(* value, the first must be an object when no tag is given and fixes the   *)
(* element type, every other one is type-checked against it.  The vector   *)
(* is marked used in a non-entry call when any element is.                 *)
(***************************************************************************)
\* Mutant: only the first element's flag is propagated.
VecUsedNonEntryFirst(vals) == vals # <<>> /\ vals[1].usedNonEntry

VecUsedNonEntry(vals) == \E k \in DOMAIN vals : vals[k].usedNonEntry

MakeVec(elem, vals) ==
  [ty |-> VecOf[elem],
   bal |-> IF elem \in CoinTypes THEN SumOf([k \in DOMAIN vals |-> vals[k].bal])
           ELSE 0,
   ids |-> UNION {vals[k].ids : k \in DOMAIN vals},
   pkg |-> NoPkg,
   usedNonEntry |-> VecUsedNonEntry(vals),
   gLast |-> \E k \in DOMAIN vals : vals[k].gLast,
   gEver |-> \E k \in DOMAIN vals : vals[k].gEver]

MakeMoveVec(tag, args) ==
  LET vals    == Vals(args)
      elem    == IF tag = "none" THEN vals[1].ty ELSE tag
      checked == IF tag = "none" THEN 2..Len(args) ELSE 1..Len(args)
      c       == TakeAll(Begin(slots), args)
  IN IF /\ c.ok
        /\ tag = "none" => HasKey(vals[1].ty)
        /\ \A k \in checked : CheckParamType(vals[k], elem)
     THEN Complete(c, <<MakeVec(elem, vals)>>, Effects)
     ELSE Abort("user")

(***************************************************************************)
(* MoveCall.  check_visibility_and_signature classifies the callee (the    *)
(* FunctionKind), refuses init when ban_entry_init is set, refuses private *)
(* non-entry functions unless the mode allows arbitrary calls, refuses     *)
(* reference returns unless the mode allows arbitrary values, and refuses  *)
(* sui::event and the private sui::transfer functions                      *)
(* (check_private_generics).                                               *)
(***************************************************************************)
PrivateTransferFunctions == {"transfer", "freeze_object", "share_object", "receive"}

FunctionKind(f, fromInit) ==
  CASE ~fromInit /\ f.name = "init" /\ BanEntryInit       -> "Rejected"
    [] f.vis \in {"private", "friend"} /\ f.entry          -> "PrivateEntry"
    [] f.vis = "public" /\ f.entry                         -> "PublicEntry"
    [] f.vis = "public"                                    -> "NonEntry"
    [] f.vis = "private" /\ fromInit                       -> "Init"
    [] AllowArbitraryFunctionCalls                         -> "NonEntry"
    [] OTHER                                               -> "Rejected"

SignatureOk(f, kind) ==
  IF kind = "Init" THEN f.rets = <<>>
  ELSE \A r \in DOMAIN f.rets : ~f.rets[r].ref \/ AllowArbitraryValues

PrivateGenericsOk(f) ==
  /\ f.module # "sui::event"
  /\ ~(f.module = "sui::transfer" /\ f.name \in PrivateTransferFunctions)

\* is_tx_context on the last parameter.
TxContextKind(params) ==
  IF params # <<>> /\ Last(params).ty = "TxContext" /\ Last(params).m # "val"
  THEN IF Last(params).m = "mut" THEN "Mutable" ELSE "Immutable"
  ELSE "None"

\* build_move_args: the access each explicit parameter makes.
Access(c, m, a) ==
  CASE m = "mut" -> BorrowMut(c, a)
    [] m = "ref" -> BorrowImm(c, a)
    [] OTHER     -> ByValue(c, a)

\* build_move_args: the arity, counting the implicit one-time witness of an
\* init with two parameters and the implicit trailing TxContext.
ArityOk(f, kind, nargs) ==
  nargs + (IF kind = "Init" /\ Len(f.params) = 2 THEN 1 ELSE 0)
        + (IF TxContextKind(f.params) # "None" THEN 1 ELSE 0)
  = Len(f.params)

\* build_move_args: private entry and init functions refuse a value marked
\* as used in a non-entry call.
PrivacyOk(kind, vals) ==
  kind \in {"PrivateEntry", "Init"} =>
    \A k \in DOMAIN vals : ~vals[k].usedNonEntry

(***************************************************************************)
(* execute_move_call after the VM returns: the written-back &mut values    *)
(* and the return values (make_value), and vm_move_call's update of the    *)
(* TxContext from its &mut output.                                         *)
(***************************************************************************)
UsedInNonEntry(kind) == kind = "NonEntry"

\* make_value for a mutable reference output: an object keeps its type, a
\* raw value gets the parameter's type; the flag is the call's alone.
MutOutput(v, pty, bal, pkg, nonEntry) ==
  [ty |-> IF HasKey(v.ty) THEN v.ty ELSE pty, bal |-> bal, ids |-> v.ids,
   pkg |-> pkg, usedNonEntry |-> nonEntry, gLast |-> nonEntry, gEver |-> v.gEver \/ nonEntry]

\* make_value for a return value: always marked used in a non-entry call.
ReturnValue(ty, bal, ids, pkg, nonEntry) ==
  [ty |-> ty, bal |-> bal, ids |-> ids, pkg |-> pkg, usedNonEntry |-> TRUE,
   gLast |-> nonEntry, gEver |-> nonEntry]

\* Mutant: vm_move_call does not write the TxContext back.
TxContextAfterCallStale(base, ctxKind, created) == base

\* The ids_created counter after a call made with the counter at base.
TxContextAfterCall(base, ctxKind, created) ==
  IF ctxKind = "Mutable" THEN base + created ELSE base

(***************************************************************************)
(* The two sui::package functions the adapter's upgrade relies on, run by  *)
(* the VM (f.framework): authorize_upgrade(&mut cap, policy, digest) needs *)
(* a cap with no pending upgrade, clears its package and returns a ticket  *)
(* bound to the cap, its package, the policy and the digest;               *)
(* commit_upgrade(&mut cap, receipt) needs the receipt of this cap and a   *)
(* pending upgrade, and sets the cap's package to the new storage id.      *)
(***************************************************************************)
FrameworkOk(f, vals) ==
  CASE f.framework = "authorize" -> vals[1].pkg.package # 0
    [] f.framework = "commit"    -> /\ vals[2].pkg.cap \in vals[1].ids
                                    /\ vals[1].pkg.package = 0
    [] OTHER                     -> TRUE

FrameworkMutPkg(f, vals, k) ==
  CASE f.framework = "authorize" /\ k = 1 -> [vals[1].pkg EXCEPT !.package = 0]
    [] f.framework = "commit" /\ k = 1    ->
         [vals[1].pkg EXCEPT !.package = vals[2].pkg.storage]
    [] OTHER                              -> vals[k].pkg

FrameworkRetPkg(f, vals) ==
  IF f.framework = "authorize"
  THEN [cap |-> CHOOSE i \in vals[1].ids : TRUE, package |-> vals[1].pkg.package,
        policy |-> vals[2].bal, digest |-> vals[3].bal, storage |-> 0]
  ELSE NoPkg

\* LinkageView::set_linkage / set_link_context, outside src/: setting a link
\* context while one is set is an invariant violation.
LinkageFree == linkage = "none"

\* Mutant: the link context set for a command is left in place.
ResetLinkageKept(l) == l

\* LinkageView::reset_linkage, called after every MoveCall, Publish and
\* Upgrade whatever their outcome; l is the
\* link context in place (the callee's or the new package's).
ResetLinkage(l) == "none"

(***************************************************************************)
(* The Move VM, an external collaborator: it may abort; otherwise it       *)
(* returns one output per &mut argument, in parameter order, and the       *)
(* declared return values.  It conserves coin balance: what the &mut and   *)
(* by-value coin arguments held ends in the &mut outputs, the returned     *)
(* coins or stays with Move code.  An object returned by value is one the  *)
(* call received by value (make_object_value reads its id from the bytes)  *)
(* or, only with &mut TxContext (object::new), a fresh coin; the objects   *)
(* received by value and not returned stay with Move code.                 *)
(* Under dev-inspect a reference return is dereferenced                    *)
(* (check_non_entry_signature): an object behind it comes back as a value  *)
(* of the object a reference argument of that type points to, same ids    *)
(* and balance (the one the call left it with).                            *)
(***************************************************************************)
VMReturns(f, kind, args, vals, c) ==
  LET params    == f.params
      rets      == f.rets
      nonEntry  == UsedInNonEntry(kind)
      mutKs     == {k \in DOMAIN args : params[k].m = "mut"}
      valKs     == {k \in DOMAIN args : params[k].m = "val"}
      mutCoinKs == {k \in mutKs : vals[k].ty \in CoinTypes}
      retObjRs  == {r \in DOMAIN rets : HasKey(rets[r].ty) /\ ~rets[r].ref}
      retCoinRs == {r \in retObjRs : rets[r].ty \in CoinTypes}
      refObjRs  == {r \in DOMAIN rets : rets[r].ref /\ HasKey(rets[r].ty)}
      refKs     == {k \in DOMAIN args : params[k].m \in {"ref", "mut"}}
      inBal(t)  == SumOf([k \in mutKs \cup valKs |-> CoinBal(vals[k], t)])
  IN \E mb \in [mutCoinKs -> 0..MaxU64], rb \in [retCoinRs -> 0..MaxU64],
       src \in [refObjRs -> refKs], from \in [retObjRs -> {0} \cup valKs] :
       LET fresh   == {r \in retObjRs : from[r] = 0}
           rank(r) == Cardinality({q \in fresh : q <= r})
           objIds(r) == IF from[r] = 0 THEN {FreshId(idsCreated + rank(r))}
                        ELSE vals[from[r]].ids
           objPkg(r) == IF from[r] = 0 THEN NoPkg ELSE vals[from[r]].pkg
           outBal(t) ==
             SumOf([k \in {q \in mutCoinKs : vals[q].ty = t} |-> mb[k]])
             + SumOf([r \in {q \in retCoinRs : rets[q].ty = t} |-> rb[r]])
           newBal(k) == IF k \in mutCoinKs THEN mb[k] ELSE vals[k].bal
           written == FoldLeft(LAMBDA cc, k :
                        Restore(cc, args[k],
                                MutOutput(vals[k], params[k].ty, newBal(k),
                                          FrameworkMutPkg(f, vals, k), nonEntry)),
                        c, SetToSortSeq(mutKs, <))
           results == [r \in DOMAIN rets |->
                        CASE r \in refObjRs ->
                               ReturnValue(rets[r].ty, newBal(src[r]), vals[src[r]].ids,
                                           vals[src[r]].pkg, nonEntry)
                          [] r \in retObjRs ->
                               ReturnValue(rets[r].ty,
                                           IF r \in retCoinRs THEN rb[r] ELSE 0,
                                           objIds(r), objPkg(r), nonEntry)
                          [] OTHER ->
                               ReturnValue(rets[r].ty, RetPayload, {},
                                           FrameworkRetPkg(f, vals), nonEntry)]
       IN /\ \A r \in refObjRs : vals[src[r]].ty = rets[r].ty
          /\ \A r \in retObjRs \ fresh : vals[from[r]].ty = rets[r].ty
          /\ \A r \in fresh : r \in retCoinRs /\ TxContextKind(params) = "Mutable"
          /\ \A r, q \in retObjRs \ fresh : r # q => from[r] # from[q]
          /\ \A t \in CoinTypes : outBal(t) <= inBal(t)
          /\ FrameworkOk(f, vals)
          /\ Complete(written, results,
               [Effects EXCEPT
                  !.ids = TxContextAfterCall(idsCreated, TxContextKind(params),
                                             Cardinality(fresh)),
                  !.linkage = ResetLinkage(f.module),
                  !.minted = IF f.framework = "authorize"
                             THEN @ \cup {FrameworkRetPkg(f, vals)} ELSE @,
                  !.held = [ids |-> held.ids \cup UNION {vals[k].ids : k \in valKs \ Range(from)},
                            bal |-> [t \in CoinTypes |->
                                       held.bal[t] + inBal(t) - outBal(t)]],
                  !.privArgs =
                    IF kind \in {"PrivateEntry", "Init"}
                    THEN @ \cup {[last |-> vals[k].gLast, ever |-> vals[k].gEver]
                                   : k \in DOMAIN vals}
                    ELSE @])

\* execute_command (MoveCall): set_link_context for the callee's package,
\* execute_move_call, reset_linkage.
MoveCall(f, args) ==
  LET kind == FunctionKind(f, FALSE)
      vals == Vals(args)
      c    == FoldLeft(LAMBDA cc, k : Access(cc, f.params[k].m, args[k]),
                       Begin(slots), [k \in DOMAIN args |-> k])
  IN IF ~LinkageFree THEN Abort("invariant")
     ELSE IF /\ kind # "Rejected"
        /\ SignatureOk(f, kind)
        /\ PrivateGenericsOk(f)
        /\ ArityOk(f, kind, Len(args))
        /\ c.ok
        /\ PrivacyOk(kind, vals)
        /\ \A k \in DOMAIN vals : CheckParamType(vals[k], f.params[k].ty)
     THEN \/ Abort("user")
          \/ VMReturns(f, kind, args, vals, c)
     ELSE Abort("user")

(***************************************************************************)
(* Publish (execute_move_publish): a fresh id from the TxContext is the    *)
(* package's runtime and storage id; the package is linked and written     *)
(* optimistically, verified and every module's init run (init_modules,     *)
(* through execute_move_call with &mut TxContext, so init may create       *)
(* objects that Move code keeps); the linkage is reset and, on an error,   *)
(* the package popped; on success an UpgradeCap with a further fresh id is *)
(* the result.  Gas, deserialization, missing dependencies, verification  *)
(* and an aborting init are the user errors.                               *)
(***************************************************************************)
UpgradeCapValue(rid, capId) ==
  [ty |-> "Cap", bal |-> 0, ids |-> {capId}, pkg |-> [NoPkg EXCEPT !.package = rid],
   usedNonEntry |-> FALSE, gLast |-> FALSE, gEver |-> FALSE]

\* init_modules: the modules of the package that define an init function,
\* each run through execute_move_call with no arguments but the TxContext.
ModulesToInit(mods) == mods \cap InitModules

Publish(mods) ==
  LET rid == FreshId(idsCreated + 1)
  IN IF ~LinkageFree THEN Abort("invariant")
     ELSE
       \/ Abort("user")
       \/ \E created \in 0..(IF ModulesToInit(mods) = {} THEN 0 ELSE MaxInitObjects) :
            LET afterInit == TxContextAfterCall(idsCreated + 1, "Mutable", created)
            IN Complete(Begin(slots), <<UpgradeCapValue(rid, FreshId(afterInit + 1))>>,
                 [Effects EXCEPT
                    !.ids = afterInit + 1,
                    !.held = [@ EXCEPT !.ids = @ \cup {FreshId(idsCreated + 1 + j)
                                                       : j \in 1..created}],
                    !.packages = @ \cup {[storage |-> rid, runtime |-> rid,
                                          mods |-> mods, from |-> 0]},
                    !.linkage = ResetLinkage(rid)])

(***************************************************************************)
(* Upgrade (execute_move_upgrade): the ticket is taken by value and must   *)
(* be an UpgradeTicket for the named package whose digest is that of the  *)
(* new modules; the current package is fetched from the store; the new    *)
(* version keeps the current package's original (runtime) id and gets a   *)
(* fresh storage id; after verification and reset_linkage the policy is   *)
(* checked (check_compatibility), the package written and an              *)
(* UpgradeReceipt for the new storage id is the result.                   *)
(***************************************************************************)
\* Mutant: the ticket is read without being moved out of its slot.
TakeTicketCopied(c, a) == IF c.ok /\ c.slots[a] # None THEN c ELSE Fail(c)

TakeTicket(c, a) == ByValue(c, a)

\* Mutant: the digest check is left out.
TicketMatchesPackageOnly(tk, current, mods) == current = tk.package

TicketMatches(tk, current, mods) ==
  current = tk.package /\ DigestOf[mods] = tk.digest

\* check_compatibility: a known policy, no added or removed module under
\* DepOnly when new modules are disallowed, and every existing module still
\* present (check_module_compatibility of each is the VM's verdict).
\* Mutant: the DEP_ONLY module-count check is left out.
CheckCompatibilityNoCount(oldMods, newMods, policy) ==
  policy \in KnownPolicies /\ oldMods \subseteq newMods

CheckCompatibility(oldMods, newMods, policy) ==
  /\ policy \in KnownPolicies
  /\ ~(DisallowNewModules /\ policy = DepOnlyPolicy
       /\ Cardinality(oldMods) # Cardinality(newMods))
  /\ oldMods \subseteq newMods

\* Mutant: the receipt names the upgraded package instead of the new
\* storage id.
ReceiptCurrentId(tk, sid) ==
  [ty |-> "Receipt", bal |-> 0, ids |-> {}, pkg |-> [tk EXCEPT !.storage = tk.package],
   usedNonEntry |-> FALSE, gLast |-> FALSE, gEver |-> FALSE]

\* UpgradeReceipt::new(upgrade_ticket, storage_id), returned as a Raw value
\* without abilities and not used in a non-entry call.
ReceiptValue(tk, sid) ==
  [ty |-> "Receipt", bal |-> 0, ids |-> {}, pkg |-> [tk EXCEPT !.storage = sid],
   usedNonEntry |-> FALSE, gLast |-> FALSE, gEver |-> FALSE]

\* fetch_package / fetch_packages: the package must be in the store the
\* transaction started from (state_view); a package written earlier in
\* this transaction is not there.
FetchPackage(id) == id \in DOMAIN StoredPackages

Upgrade(ticketArg, current, mods) ==
  LET ticket == slots[ticketArg]
      c      == TakeTicket(Begin(slots), ticketArg)
      sid    == FreshId(idsCreated + 1)
  IN IF /\ c.ok
        /\ CheckParamType(ticket, "Ticket")
        /\ TicketMatches(ticket.pkg, current, mods)
        /\ FetchPackage(current)
     THEN IF ~LinkageFree THEN Abort("invariant")
          ELSE IF CheckCompatibility(StoredPackages[current].mods, mods,
                                     ticket.pkg.policy)
          THEN \/ Abort("user")
               \/ Complete(c, <<ReceiptValue(ticket.pkg, sid)>>,
                    [Effects EXCEPT
                       !.ids = idsCreated + 1,
                       !.packages = @ \cup {[storage |-> sid,
                                             runtime |-> StoredPackages[current].runtime,
                                             mods |-> mods, from |-> current]},
                       !.linkage = ResetLinkage(sid)])
          ELSE Abort("user")
     ELSE Abort("user")

(***************************************************************************)
(* The end of execute_inner: save the loaded runtime objects, then the     *)
(* changeset of context.finish, which refuses a result value without drop  *)
(* that no command consumed.                                               *)
(***************************************************************************)
\* Mutant: finish refuses unused objects but forgets vectors of them.
UnusedWithoutDropObjectsOnly ==
  {a \in DOMAIN slots : ~IsInput(a) /\ slots[a] # None /\ HasKey(slots[a].ty)}

UnusedWithoutDrop ==
  {a \in DOMAIN slots : ~IsInput(a) /\ slots[a] # None /\ ~HasDrop(slots[a].ty)}

TxFinish ==
  /\ status = "running"
  /\ cmdIdx >= 1
  /\ loadedSaved' = TRUE
  /\ IF UnusedWithoutDrop = {}
     THEN status' = "finished" /\ recorded' = TRUE /\ errKind' = "none"
     ELSE status' = "finish_failed" /\ recorded' = FALSE /\ errKind' = "user"
  /\ UNCHANGED <<slots, cmdIdx, timings, transferred, held, deleted,
                 idsCreated, privArgs, packages, linkage, ticketsMinted>>

(***************************************************************************)
(* The specification.                                                      *)
(***************************************************************************)
Init ==
  /\ slots = [a \in {<<0, i>> : i \in DOMAIN InputTable} |-> InputTable[a[2]]]
  /\ cmdIdx = 0
  /\ status = "running"
  /\ errKind = "none"
  /\ timings = <<>>
  /\ transferred = {}
  /\ held = [ids |-> {}, bal |-> [t \in CoinTypes |-> 0]]
  /\ deleted = {}
  /\ idsCreated = 0
  /\ loadedSaved = FALSE
  /\ recorded = FALSE
  /\ privArgs = {}
  /\ packages = {}
  /\ linkage = "none"
  /\ ticketsMinted = {}

ArgLists == UNION {[1..n -> DOMAIN slots] : n \in 1..MaxArgs}

ExecuteCommand ==
  /\ status = "running"
  /\ cmdIdx < MaxCommands
  /\ \/ \E a \in DOMAIN slots, as \in ArgLists : SplitCoins(a, as)
     \/ \E a \in DOMAIN slots, as \in ArgLists : MergeCoins(a, as)
     \/ \E as \in ArgLists, a \in DOMAIN slots : TransferObjects(as, a)
     \/ \E tag \in ElemTypes, as \in ArgLists \cup {<<>>} : MakeMoveVec(tag, as)
     \/ \E as \in ArgLists : MakeMoveVec("none", as)
     \/ \E f \in Callees, as \in ArgLists \cup {<<>>} : MoveCall(f, as)
     \/ \E mods \in ModuleSets : Publish(mods)
     \/ \E a \in DOMAIN slots, p \in UpgradeTargets, mods \in ModuleSets :
          Upgrade(a, p, mods)

Next == ExecuteCommand \/ TxFinish

Spec == Init /\ [][Next]_vars

(***************************************************************************)
(* Properties.                                                             *)
(***************************************************************************)
PkgRecs == [cap : Nat, package : Nat, policy : Nat, digest : Nat, storage : Nat]

Values == [ty : Types \cup {"none"}, bal : Nat, ids : SUBSET Nat, pkg : PkgRecs,
           usedNonEntry : BOOLEAN, gLast : BOOLEAN, gEver : BOOLEAN]

TypeOK ==
  /\ slots \in [DOMAIN slots -> Values]
  /\ \A a \in DOMAIN slots : a[1] \in 0..cmdIdx
  /\ cmdIdx \in 0..MaxCommands
  /\ status \in {"running", "aborted", "finished", "finish_failed"}
  /\ errKind \in {"none", "user", "invariant"}
  /\ timings \in Seq({"Success", "Abort"})
  /\ transferred \subseteq Values
  /\ held \in [ids : SUBSET Nat, bal : [CoinTypes -> Nat]]
  /\ deleted \subseteq Nat
  /\ idsCreated \in Nat
  /\ loadedSaved \in BOOLEAN /\ recorded \in BOOLEAN
  /\ privArgs \subseteq [last : BOOLEAN, ever : BOOLEAN]
  /\ packages \subseteq [storage : Nat, runtime : Nat, mods : ModuleSets,
                         from : Nat]
  /\ linkage \in {"none"} \cup Nat \cup {f.module : f \in Callees}
  /\ ticketsMinted \subseteq PkgRecs

\* The coin supply of the inputs, per coin type.
Supply(t) == SumOf([i \in DOMAIN InputTable |-> CoinBal(InputTable[i], t)])

\* SplitCoins, MergeCoins and Move calls neither create nor destroy coin
\* balance: in every state of a transaction that has not aborted, the
\* balance in the argument table (coins and vectors of coins), in the coins
\* given to transfer_object and in what Move code kept adds up, per coin
\* type, to the supply of the inputs.  Breaking it needs a balance moved
\* through a borrow, a write-back or a merge that loses or doubles it.
CoinConservation ==
  status # "aborted" =>
    \A t \in CoinTypes :
      SumOf([a \in DOMAIN slots |-> CoinBal(slots[a], t)])
      + MapThenSumSet(LAMBDA v : CoinBal(v, t), transferred)
      + held.bal[t]
      = Supply(t)

\* Every object id in play: those of the inputs and those the TxContext
\* handed out.
KnownIds == UNION {InputTable[i].ids : i \in DOMAIN InputTable}
            \cup {FreshId(n) : n \in 1..idsCreated}

Holders(id) ==
  Cardinality({a \in DOMAIN slots : id \in slots[a].ids})
  + (IF \E v \in transferred : id \in v.ids THEN 1 ELSE 0)
  + (IF id \in held.ids THEN 1 ELSE 0)
  + (IF id \in deleted THEN 1 ELSE 0)
  + Cardinality({p \in packages : p.storage = id})

\* Objects are linear: until the transaction aborts, every object id is in
\* exactly one place (one argument slot, transferred, kept by Move code or
\* deleted, or the storage id of a package published or upgraded in this
\* transaction), and no place holds an id that was never created.  It fails if
\* borrow_arg_mut leaves a copy behind, restore_arg or a merge loses the
\* coin, or the TxContext written back by vm_move_call is stale so a fresh
\* id is handed out twice.
EveryObjectInOnePlace ==
  status # "aborted" =>
    /\ \A id \in KnownIds : Holders(id) = 1
    /\ \A a \in DOMAIN slots : slots[a].ids \subseteq KnownIds
    /\ held.ids \cup deleted \subseteq KnownIds

\* write_back_results / make_value / build_move_args: no argument accepted by
\* a private entry or init function was, at that moment, produced or last
\* mutated by a non-entry call, nor contained such a value (MakeMoveVec).
PrivateEntryArgsClean == \A p \in privArgs : ~p.last

\* No command ends with an assert_invariant! failure: every &mut borrow of
\* a command is restored exactly once before push_command_results.
NoInvariantViolation == errKind # "invariant"

\* execute_inner (spec section 8, first property): an aborted transaction
\* has one Success timing per command before the failing one and an Abort
\* for it, saved the loaded runtime objects and recorded no results; a
\* transaction that ran to the end has a Success timing per command, saved
\* the loaded objects, and recorded results exactly when finish succeeded.
DispatcherOutcome ==
  LET ok == [k \in 1..cmdIdx |-> "Success"] IN
  /\ status = "running" => timings = ok /\ ~loadedSaved /\ ~recorded
  /\ status = "aborted" =>
       timings = ok \o <<"Abort">> /\ loadedSaved /\ ~recorded
  /\ status \in {"finished", "finish_failed"} =>
       timings = ok /\ loadedSaved /\ (recorded <=> status = "finished")

\* Spec section 8: a value produced by a non-entry call is always refused
\* by a private entry function.  Checked against the code's flag, which
\* write_back_results overwrites.
PrivateEntryNeverGetsNonEntryValue == \A p \in privArgs : ~p.ever

\* Spec section 4.1: the native effects (transfers) of commands before an
\* aborting one are retained by the adapter, i.e. recorded with the state.
EffectsRetainedOnAbort ==
  status = "aborted" /\ transferred # {} => recorded
\* execute_move_upgrade / sui::package: every package version this
\* transaction installs by Upgrade was authorized by an UpgradeTicket that
\* authorize_upgrade issued for exactly the package it replaces and for
\* the digest of exactly the modules installed, keeps that package's
\* original (runtime) id, and sits at a storage id no published package or
\* object shares.  It fails if the package-id or digest comparison against
\* the ticket is dropped, or the runtime id is taken from the new storage id.
UpgradeAuthorized ==
  \A p \in packages : p.from # 0 =>
    /\ \E tk \in ticketsMinted : tk.package = p.from /\ tk.digest = DigestOf[p.mods]
    /\ p.runtime = StoredPackages[p.from].runtime

\* The UpgradeTicket is linear: each ticket authorize_upgrade issues
\* installs at most one new version.  Breaking it needs a ticket argument
\* that execute_move_upgrade reads without moving it out of its slot, and
\* a second Upgrade command that reuses it.
TicketSingleUse ==
  Cardinality({p \in packages : p.from # 0}) <= Cardinality(ticketsMinted)
\* Spec 4.5: what an upgrade policy allows, at the level of module names:
\* every existing module is kept, and DepOnly requires the same module set
\* (Additive and Compatible further constrain each module; that verdict is
\* the VM's).
PolicyAllows(policy, oldMods, newMods) ==
  oldMods \subseteq newMods /\ (policy = DepOnlyPolicy => oldMods = newMods)

\* Spec 4.5 and the error taxonomy ("disallowed new module"): every version
\* installed by Upgrade was authorized by a ticket whose policy allows the
\* new module set.  The DEP_ONLY count check of check_compatibility and the
\* lookup of every existing module must together reject each other set.
PolicyRespected ==
  \A p \in packages : p.from # 0 =>
    \E tk \in ticketsMinted :
      /\ tk.package = p.from /\ tk.digest = DigestOf[p.mods]
      /\ PolicyAllows(tk.policy, StoredPackages[p.from].mods, p.mods)

=============================================================================
