# TLA+ model of the Sui PTB adapter

This project models the programmable-transaction (PTB) executor in
`src/sui-execution/latest/sui-adapter/src/programmable_transactions/execution.rs`.
That file takes a transaction, a sequence of commands over an argument table,
and runs the commands against the Move VM.

## The system's parts and how they interact

| Part | Code | What it does |
|---|---|---|
| Dispatcher | `execute_inner` (130-190), `execute_command` (194-496) | Runs the commands in order and stops at the first error. On error it saves the loaded runtime objects, pushes an `Abort` timing, drops the context and returns the error tagged with the command index. On success it calls `finish`, saves the loaded objects and records the results. |
| Argument table | `ExecutionContext` (outside `src/`, spec sections 4.2 and 9) | Holds the inputs and the results of every earlier command. `by_value_arg` moves a value out (a copyable one is copied). `borrow_arg` takes a shared view. `borrow_arg_mut` takes a value out until `restore_arg` puts it back. `push_command_results` stores the results of a command. |
| Native commands | SplitCoins, MergeCoins, TransferObjects, MakeMoveVec | These work on coins, objects and vectors directly and hand out fresh ids from the TxContext. |
| Move call marshalling | `check_visibility_and_signature`, `check_non_entry_signature`, `check_private_generics`, `build_move_args`, `is_tx_context`, `execute_move_call`, `vm_move_call`, `write_back_results`, `make_value` | Classifies the callee as PrivateEntry, PublicEntry, NonEntry or Init. It refuses callees a transaction may not call, borrows or takes the arguments, and enforces the privacy boundary: a value used in a non-entry call may not reach a private entry or init function. It then calls the VM, writes back the `&mut` outputs and the TxContext, and builds the return values. |
| Type checking | `check_param_type`, `primitive_serialization_layout`, `bcs_argument_validate` (1913-2033) | Accepts pure bytes only for primitive layouts. It walks them with `bcs::from_bytes_seed` against the layout: the `DeserializeSeed` impl and the Option and Vector visitors, which also check strings for UTF-8 and ASCII. A loaded value or an object must have exactly the parameter type. |
| Type resolver | `to_type_tag(_)`, `resolve_datatype_names`, `get_datatype_ident` (1574-1700) | Turns the type arguments of a MoveCall into type tags. With `resolve_type_input_ids_to_defining_id` on, every datatype is re-named by the package version that defined it. With `better_adapter_type_resolution_errors` on, a datatype its package does not declare is TypeNotFound at that argument's index. |
| Size bound | `amplification_bound(_)` | The size limit of a value, divided by the amplification of its layout. |
| Publish / Upgrade | `execute_move_publish`, `execute_move_upgrade`, `check_compatibility`, `fetch_package(s)`, `init_modules` | Publish takes a fresh id for the package, links and writes it optimistically, verifies it, runs every `init`, resets the linkage (popping the package on error) and returns an `UpgradeCap` with another fresh id. Upgrade takes an `UpgradeTicket` by value, checks its package id and digest, fetches the current package, gives the new version the original (runtime) id and a fresh storage id, verifies, checks the policy and returns an `UpgradeReceipt`. |
| Linkage | `set_link_context`, `LinkageView::set_linkage / reset_linkage` (outside `src/`) | The package context a command runs in. Setting it while one is set is an invariant violation, so every MoveCall, Publish and Upgrade must reset it. |
| `sui::package` (Move framework, outside `src/`) | `authorize_upgrade`, `commit_upgrade` | Called by MoveCall. `authorize_upgrade` clears the cap's package and returns a ticket for it; `commit_upgrade` takes this cap's receipt and points the cap at the new version. |

Everything runs on one thread. The hard behaviours come from sequences of
commands within one transaction:

- borrows that must be restored;
- a flag that is overwritten as a value passes through several calls;
- a failure in the middle of a command or a transaction;
- a TxContext counter shared by the adapter and the VM;
- u64 arithmetic at its limit.

## Modules

- **`ArgumentSlots.tla`** holds the argument table's borrow discipline, modelled from the spec and marked `spec_modelled`.
  - Each command works on a record `[slots, mutB, immB, ok, inv]`. `ok` turns FALSE at the first failing access, and `inv` flags a restore of a slot that was not exclusively borrowed.
  - Values are records `[ty, bal, ids, usedNonEntry, gLast, gEver]`:
    - `usedNonEntry` is the code's `used_in_non_entry_move_call`;
    - `gLast` and `gEver` are history variables that no code reads. They say whether a value was last, or ever, produced or mutated by a non-entry call.
- **`PTBExecution.tla`** holds the dispatcher and the five commands.
  - Every command is one atomic step. It either completes (`Complete`: all borrows restored, results pushed under the next command index, timing `Success`) or aborts (`Abort`: status `aborted`, loaded objects saved, timing `Abort`, the argument table and pending effects left as they were and never recorded).
  - `TxFinish` is the end of `execute_inner`.
  - The Move VM is a nondeterministic collaborator (`VMReturns`). It may abort, or it returns any `&mut` coin balances and returned coins whose total per coin type does not exceed what came in. The rest stays with Move code (`held`). An object returned by value is either one the call received by value, with the same ids (`make_value` reads the id from the bytes), or a fresh coin. A fresh coin needs a `&mut TxContext`, since `object::new` takes one; it gets its id from the TxContext, and `vm_move_call` writes the counter back. Objects received by value and not returned stay with Move code. Under dev-inspect, a reference return is dereferenced (`check_non_entry_signature`, 1254-1260). An object behind it comes back as a copy of the object one of the call's reference arguments points to: same ids, and the balance the call left it with.
  - `Publish` and `Upgrade` are the whole of `execute_move_publish` and `execute_move_upgrade`. Module bytes are a module-name set from `ModuleSets`, with a digest `DigestOf`. Gas, deserialization, missing dependencies, verification, an aborting `init` and a failing per-module compatibility check are nondeterministic user errors. The checks that decide which upgrades are allowed (ticket taken by value and of type UpgradeTicket, package id, digest, the package in the store, the linkage, the policy, the DEP_ONLY module count, every existing module kept) are guards in the code's order. `init_modules` runs the inits of the modules in `InitModules` as one call that may create up to `MaxInitObjects` objects through `&mut TxContext`.
  - The packages written in the transaction are `packages`, records `[storage, runtime, mods, from]` (`from` is the upgraded id, 0 for a publish). The store before the transaction is the constant `StoredPackages`; `fetch_package` reads only that store.
  - `authorize_upgrade` and `commit_upgrade` are callees with a `framework` tag. The VM applies their effects on the cap's `pkg` field and aborts where they abort. `ticketsMinted` is a history of the tickets issued.
- **`UpgradeCapLifecycle.tla`** is an abstract specification of what a transaction promises about one UpgradeCap: authorize, install, commit, in that order; fresh storage ids; commit only when nothing is pending; nothing left after an abort. The cap may also leave the transaction (`Relinquish`, e.g. into a vector).
- **`MC_PTBExecution.tla`** is the instance for coins and Move calls.
- **`ObjectLedger.tla`** is an abstract specification of what a transaction promises about objects and coin balance. Every id seen is in one place: `hand`, `move` (kept by Move code), `sent`, `deleted` or `package`. The last three are final, and a new id was never seen before. Per coin type, the balance in the hands, with Move code and in transferred coins adds up to the input supply, and the transferred part only grows, with an object sent. `Commit` requires that no object other than an input is left in the hands. `Abort` is always possible and leaves the ledger unconstrained.
- **`MC_Ledger.tla`** maps the core instance onto it. An id's place is read off the slots, `transferred`, `held`, `deleted` and `packages`; an id held in two places or in none maps to `"nowhere"`, which the ledger does not allow. A failed finish maps to an abort.
- **`MC_DevInspect.tla`** runs the same inputs in the dev-inspect mode. Its callees add `borrow(&Coin): &Coin`, a public accessor the normal mode rejects.
- **`MC_Upgrade.tla`** is the instance for publish and upgrade. It also holds the refinement mapping `Lifecycle == INSTANCE UpgradeCapLifecycle WITH ...` from the argument table to the abstract cap, ticket and receipt.
- **`Amplification.tla`** covers `primitive_serialization_layout`, `bcs_only`, `amplification` and `amplification_bound(_)` as RECURSIVE operators over type trees.
  - A type is a leaf or a wrapper (vector, Option, another generic struct) around one inner type.
  - The state is one type (as its path) plus the configuration: `max_ptb_value_size` (or none), `max_ptb_value_size_v2`, and whether packages are predefined. All are chosen in `Init`.
  - Each operator is checked against a reference written over the flat path: the number of Options plus the leaf's width; a layout exists iff there is no generic struct and the leaf is primitive, ID or a string.

- **`BcsValidate.tla`** covers `bcs_argument_validate` (1913-1927) as RECURSIVE operators.
  - `Parse` is the `DeserializeSeed` impl (1929-1991). `ParseOption` is `OptionElementVisitor`: tag 0 is none, tag 1 reads the payload, any other tag fails. `ParseElems` is `VectorElementVisitor`: a length, then one `next_element_seed` per element. `ParseLeaf` is the leaf arms.
  - `BcsArgumentValidate` adds what `from_bytes_seed` adds: no bytes may be left over.
  - The byte-level reads come from the bcs crate and `core::str`, which are outside this repository, so they are modelled from the wire format (spec section 5):
    - `Uleb128` and `ParseLength`: canonical ULEB128, u32 overflow, and `MAX_SEQUENCE_LENGTH`. A length of 2^31 or more is the sentinel `TooLong`, because TLC integers are 32-bit.
    - `IsUtf8`: the table of valid lead and second bytes.
    - `Width`: the fixed widths.
  - The state is one layout and one byte string, both chosen in `Init`.
  - `Reference` generates every valid encoding of a layout from its values. Code points are encoded through their UTF-8 bit patterns, so the parser's byte table and the generator's arithmetic are independent.

- **`TypeResolver.tla`** covers the type-argument loop of MoveCall (438-446) as RECURSIVE operators over type trees:
  - `ToTypeTag_` is `to_type_tag_`: the type parameters first (`ParamsTags`), then `ResolveDatatypeNames`;
  - `ToTypeTag` is `to_type_tag`: with the resolve flag on, it loads the tag and reads it back with `GetTypeTag`, which names every datatype by `GetDatatypeIdent`;
  - `LoadTypeArguments` is the loop itself.
  The VM's `load_type` lies outside `src/`. It is modelled from the spec (`LoadError`): the package at the address must declare the datatype, and the datatype must get as many type arguments as it has parameters. The store is a constant, `Original` and `TypeOrigin`. An ASSUME keeps them consistent across versions. The state is the call's type arguments and the two protocol flags, all chosen in `Init`. The properties compare the outcome with references computed from the inputs alone: `Denote` (original id and name) and `BadKind`.
- **`MC_TypeResolver.tla`** defines the store: package 100, its upgrade 102 (which adds `m::B<T>`), an unrelated package 200, and address 300 with no package.

How state corresponds to the code:

| Variable | Code |
|---|---|
| `slots` | the argument table (inputs `<<0,i>>`, results `<<c,j>>`) |
| `cmdIdx` | the loop index of `execute_inner` |
| `timings` | `timings` |
| `idsCreated` | the TxContext's `ids_created` |
| `transferred` | `transfer_object` |
| `deleted` | `delete_id` |
| `loadedSaved` | `save_loaded_runtime_objects` |
| `recorded` | `record_execution_results` |
| `packages` | `write_package` / `context.new_packages` |
| `linkage` | the `LinkageView`'s current link context |
| `ticketsMinted` | history only: tickets `authorize_upgrade` returned |

## Runs

| Run | Expect | What it shows |
|---|---|---|
| `ptb_core` (`MC_Ledger.cfg`, module `MC_Ledger`) | pass | Every transaction of up to 3 commands keeps the properties below, and refines `ObjectLedger` (71,472 states, about 20 s). |
| `taint_laundering` (`MC_Laundering.cfg`) | violation | A coin mutated by a non-entry call, then passed `&mut` to a public entry function, is accepted by a private entry function (write_back_results, line 587). |
| `abort_effects` (`MC_AbortEffects.cfg`) | violation | Transfers made before an aborting command are never recorded (line 163). |
| `upgrade` (`MC_Upgrade.cfg`) | pass | Every transaction of up to 3 commands of Publish, Upgrade, `authorize_upgrade` and `commit_upgrade` installs only authorized versions, uses each ticket once, keeps ids unique around `init` and resets the linkage (14,331 states). |
| `upgrade_lifecycle` (`MC_Lifecycle.cfg`) | pass | The same transactions refine `UpgradeCapLifecycle` under the mapping in `MC_Upgrade`. |
| `dep_only_flag_off` (`MC_DepOnlyFlagOff.cfg`) | violation | With `disallow_new_modules_in_deps_only_packages` off, a DEP_ONLY ticket lets an upgrade add a module (lines 831-834), against spec 4.5. |
| `bcs_validate` (`MC_BcsValidate.cfg`) | pass | `bcs_argument_validate` accepts exactly the encodings of the layout's values, for every layout of nesting depth up to 2 and every input of up to 4 bytes over the alphabet below (327,670 states). |
| `type_resolver` (`MC_TypeResolver.cfg`) | pass | Type arguments resolve to equal tags exactly when they name the same type, through any package version, and bad ones are rejected at the first bad index with the right kind (154,452 states). |
| `dev_inspect` (`MC_DevInspect.cfg`) | pass | Under dev-inspect's relaxations the adapter never hits its own invariant checks. The relaxations are private calls, any bytes for any type, and dereferenced reference returns (126,950 states). |
| `amplification` (`MC_Amplification.cfg`) | pass | The layout, bcs_only, amplification and size bound of every type of depth at most 3, under every configuration, agree with the reference; amplification is never zero (1,456 states). |

Properties of `ptb_core`:

- `CoinConservation`: balance in slots, transferred coins and Move-held balance equals the input supply, per coin type.
- `EveryObjectInOnePlace`: objects are linear, and fresh ids are never repeated.
- `PrivateEntryArgsClean`: no private entry or init function gets a value whose last producer or mutator was a non-entry call.
- `NoInvariantViolation`: every borrow is restored exactly once.
- `DispatcherOutcome`: the timings, saved objects and recorded results that `execute_inner` leaves.
- `TypeOK`.
- `LedgerRefined`: the refinement of `ObjectLedger`, below.

Properties of `upgrade` (with `EveryObjectInOnePlace` and `NoInvariantViolation` as above; package storage ids count as a place):

- `UpgradeAuthorized`: every upgraded version was authorized by a ticket for exactly the package it replaces and the digest of exactly its modules, and keeps that package's original id.
- `TicketSingleUse`: no more upgrades than tickets.
- `PolicyRespected`: every installed version was allowed by its ticket's policy: the old modules are kept, and under DEP_ONLY no module is added (spec 4.5). `dep_only_flag_off` checks the same property with the protocol flag off.

`type_resolver` checks:

- `TypeIdentitySurvivesUpgrades`: with the resolve flag on, the tags of two type arguments are equal iff the arguments name the same types. A type is its package's original id and its name (spec 4.6).
- `ErrorNamesFirstBadArgument`: with the better-errors flag on, the arguments are accepted iff none is bad. Otherwise the error has the index of the first bad argument, and it is TypeNotFound whenever a datatype is missing from its package's origin table. This holds even where the VM's load would fail on an arity first.

`bcs_validate` checks `ValidateMatchesReference`: the validator accepts a byte string iff the reference generates it.

`upgrade_lifecycle` checks `LifecycleRefined == Lifecycle!Spec`.

`ptb_core` also checks `LedgerRefined == Ledger!Spec`. It is a statement about steps, not states. No transferred, deleted or published object comes back. No new object reuses an id. Balance reaches the transferred coins only with an object. A transaction commits only when every object it created was consumed. Its mutant makes finish refuse unused objects but not vectors of them: SplitCoins, then MakeMoveVec of the new coin, then a finish that commits.


`dev_inspect` checks `NoInvariantViolation`, as in `ptb_core`. It states no coin conservation: dev-inspect accepts any bytes for any parameter type, a Coin included (1462-1464), and the code says type invariants may then be violated. A dereferenced `&Coin` return does duplicate the coin (1254-1260), but no part of the system promises otherwise in this mode. `DispatcherOutcome` is checked only in `ptb_core`: it follows from `Abort`, `Complete` and `TxFinish`, which the mode and the upgrade commands do not touch.

Each property has a mutant in `PROJECT.json`: a plausible code bug under which TLC finds the property violated.

## Bounds

The instance has these inputs:

- two mutable CoinA inputs with balances 2 and 1;
- an immutable CoinB;
- a pure u64 (1) and a pure address.

The other bounds:

- `MaxU64 = 2`, so merging 2 and 1 overflows;
- `MaxCommands = 3`;
- `MaxArgs = 2`.

The callees cover every FunctionKind and every rejection:

- a public non-entry `split` with `&mut TxContext` that returns a coin;
- a public non-entry `pass(Coin): Coin` with no TxContext, so the coin it returns is the one it was given;
- a public entry `touch`;
- private entry `keep` and `deposit`;
- a private helper, a `sui::event` function, a reference-returning `peek` and `init`, all rejected.

Three commands are enough for the sequences that matter: non-entry, then entry, then private entry; split, then merge, then transfer; transfer, then abort. The run covers 71,472 distinct states in about 20 s. Here `ModuleSets = {{"m1"}}` with an `init` in `m1`, so Publish takes fresh ids around an `init` that may create an object; there is no stored package, so no Upgrade.

`MC_Upgrade` has:

- an owned UpgradeCap (id 1) for package 101, a version of original package 100 (`StoredPackages`);
- pure u64 inputs 0 (policy COMPATIBLE), 192 (DEP_ONLY) and 2 (the digest of `{m1, m2}`);
- module sets `{m1}`, `{m1, m2}`, `{m2}`, with an `init` in `m2`;
- `UpgradeTargets = {100, 101}`, so a ticket can be presented for the wrong package;
- `MaxCommands = 3`, `MaxArgs = 3`.

- `DisallowNewModules = TRUE` (FALSE in `MC_DepOnlyFlagOff.cfg`).

Three commands are authorize, upgrade, commit: the full cycle. They also cover authorize, upgrade, upgrade with the same ticket, and publish, then authorize with the new cap.

`MC_TypeResolver` has:

- up to two type arguments of nesting depth 1, over `U8`, `Address`, vectors and the datatypes `m::A`, `m::B<T>` and `n::C` at every address. That gives 196 type inputs.
- The types of `m::A` are reachable through both versions of package 100. `m::B` exists only from 102 on, and 300 holds no package.
- Wrong arities: `m::B` without an argument, and `m::A<T>` with one.
- Bad arguments at index 0 and at index 1.

`MC_BcsValidate` has:

- `Bytes = {0, 1, 2, 3, 128, 160, 194, 224}`:
  - 0 and 1 are the valid tags; 2 and 3 are invalid tags but valid lengths;
  - 128 is a ULEB continuation byte, a non-canonical digit and a UTF-8 continuation byte;
  - 160 is the second byte that E0 requires (128 is the overlong one);
  - 194 is a 2-byte lead and 224 a 3-byte lead.
- `MaxBytes = 4`, so a length byte, a 3-byte character and a trailing byte fit. So do a nested option of a string, and a vector of two options.
- `MaxDepth = 2`: a vector of options of a leaf, and every other pair.

Addresses and U256 (32 bytes), 4-byte characters and lengths at the 2^28 shift are out of reach of the enumeration. So the branches of `Uleb128` at shift 28 and the 4-byte rows of `IsUtf8` are parsed but not checked by this run.

`MC_DevInspect` has the inputs of `MC_PTBExecution`, `MaxCommands = 3`, and the callees `split`, `keep`, `helper` (private non-entry, callable in this mode) and `borrow`.

## Fairness and liveness

No liveness property is checked, and no fairness is assumed. `execute_inner` is one synchronous loop on one thread over a finite list of commands. In the model, every handler either completes or aborts, and `TxFinish` is enabled in every running state after the first command. So "every transaction ends" holds by the shape of the definitions, and a liveness run would show nothing. The only way the real loop can fail to end is inside the VM, which gas bounds and the model treats as one step.

The PTBExecution cfgs say `CHECK_DEADLOCK FALSE` because finished and aborted transactions legitimately have no next step. `Amplification`, `BcsValidate` and `TypeResolver` are pure computations; their `Next` only stutters.

## Not modelled (yet)

- `pop_package` after a failed publish (677-680) and the linkage steal/restore around `write_back_results` (553, 570). Any error of a command aborts the whole transaction and drops the context with its staged packages and linkage, so neither can change an outcome. Both happen inside one atomic step of the model.
- Genesis (predefined packages: no fresh id, no UpgradeCap) and per-module compatibility (`InclusionCheck`, `Compatibility::upgrade_check`), which are the VM's verdict.
- Identifier syntax (`to_identifier`, `validate_identifier_inputs`). A bad identifier is reported as `VMInvariantViolation`, an error the adapter never expects, so the model's inputs hold valid identifiers only. The type argument of MakeMoveVec (209, 244) is not modelled; it goes through the same `to_type_tag` with index 0.
- Tracing.
- The v2 static execution path, which lies outside this file.
- Receiving arguments and dev-inspect argument updates (`Mode::ArgumentUpdates`: the mutable reference arguments a dev-inspect call reports back); reference returns in dev-inspect are modelled (`MC_DevInspect`).

## Plan

1. Done: the dispatcher, the native commands and MoveCall, checked by `ptb_core`, with two findings.
2. Done: publish and upgrade as actions of the dispatcher, with the linkage and the package store as state, checked by `upgrade`, and the refinement to `UpgradeCapLifecycle`.
3. Done: `Amplification`, checked by the `amplification` run, and `BcsValidate`, checked by `bcs_validate`.
4. Done: the DEP_ONLY policy (`PolicyRespected`), with a third finding (`dep_only_flag_off`), and `TypeResolver`, checked by `type_resolver`.
5. Done: the abstract `ObjectLedger`, refined by the core instance (`LedgerRefined` in `ptb_core`). The Move VM may now return an object it was given by value.
6. Done: a DevInspect instance (`dev_inspect`).
