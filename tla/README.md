# TLA+ models of the commit-reveal consensus engine and its off-chain agent

This directory holds TLA+ models of the Millau commit-reveal protocol: the
on-chain pallets in `src/bin/millau/pallets` and the off-chain plugin in
`src/bin/millau/offchain-plugin`. TLC checks the models. `PROJECT.json` lists
the following:
- the components;
- every run and its expected result;
- a mutant that each checked property must catch;
- the source lines behind every definition;
- the findings and the hazards.

## 1. The system

| Part | Source | State | Operations |
|---|---|---|---|
| Commitments pallet | `pallets/commitments/src/lib.rs` | `Commits` (per round: a bounded list of `Commitment`s holding commit hash, fulfillment, submitter and in-period flag) and `RevealWindow` (per round: the start block) | `commit`, `reveal` (NoCommitmentFound, AlreadyRevealed, IncorrectRevealedHash), `is_in_reveal_window`, `get_reveal_window` |
| Logic-provider pallet | `pallets/logic-provider/src/lib.rs` | `CommitmentBlockNumbers` (per round: the list of (account, commit block)), `RoundStates`, `ProcessedHashes`, `MajorityType`, and balance locks keyed by round id | the extrinsics `commit_processing_result_hash`, `reveal_processing_result_hash`, `issue_rewards`, `set_majority_type` and `resolve_metadata_dispute`; the `on_finalize` hook |
| Balances (`LocalCurrency`) | the calls at lib.rs 293-303 and 683-784 | free balance and locks of each account | `set_lock`, `remove_lock`, `ensure_can_withdraw`, `issue`/`resolve_creating`, `burn`/`settle(KeepAlive)` |
| Commit loop | `offchain-plugin/src/service.rs`, `offchain.rs` | offchain storage: `TRACKED_STORAGE_KEYS` and one `OffchainCommitmentInfo` per id | one tick every 27 s: `get_data`, `create_commit_hash`, `submit_call`, then `store_key` and `store_commit_info` |
| Reveal poller | `offchain-plugin/src/state_poller.rs` | the same offchain storage | one `check_keys` every 12 s: snapshot the tracked ids, query each window, reveal, remove the revealed ids and write the list back |
| Transaction admission | `pallets/logic-provider/src/lib.rs` 786-945 | the node's in-memory transaction pool | `create_extrinsic_from_external_call` submits; `validate_unsigned` gives each call the tag it provides; the pool refuses a second transaction providing a pooled tag |
| Configuration provider | `offchain-plugin/src/config/`, `logic_provider.rs` | offchain storage (a `keys` list and a value per name), the keystore, the in-memory config map | `get_config` at start (two 15 s retry loops), `schedule_config_update` rebuilding the map every interval, `get_data` reading the file at `local_file_path` |

### How the parts interact

1. A node commits with a signed unsigned extrinsic, and `lock_tokens` locks `FundsToLock`.
2. When the share of committers exceeds the majority (`> 66/100` or `> 50/100` of `MaxParticipants`), the commit that crosses it schedules a reveal window. The window starts `RevealWindowLength` blocks later.
3. The poller sees the window through the `get_reveal_window` runtime API and submits the reveal.
4. At the end block of the window, `on_finalize` calls `issue_rewards`, which:
   - computes the majority hash over the in-period reveals;
   - rewards the correct revealers with the earliest commit block;
   - releases every lock;
   - burns the stake of wrong or missing revealers, and also of late ones when `EnforceBurningTokens` is set;
   - clears the round and archives the hash.
5. If `issue_rewards` fails, the hook marks the round Disputed. The ForceOrigin can later settle a Disputed round on a forced hash with `resolve_metadata_dispute`.

### What makes it hard

Several things make the protocol hard to get right:
- Extrinsics run inside a storage layer, so an `Err` undoes their writes. The hook calls `issue_rewards` outside any layer, so a partial failure there persists.
- One hook may settle several rounds, and these rounds share accounts and balances.
- The tie-break in `calculate_rewards` is an iterator chain: `find`, then `filter` on the rest of the iterator, then `chain(once(first))`.
- A burn can fail silently.
- Off-chain, two tokio loops share one mutex-guarded store. `check_keys` holds a snapshot across several awaits. Block production runs independently of both loops.

## 2. Modules

| Module | Models | Notes |
|---|---|---|
| `Commitments` | commitments pallet | Operators on one round's `Commits` list and window. The commit hash is the pair `<<answer, seed>>`, which is injective like blake2 in practice. |
| `LogicProvider` | logic-provider pallet and balances, with the commitments pallet as its storage | One action per extrinsic and one for a block's `on_finalize` |
| `MC_LogicProvider` | model values and small sets for `LogicProvider` | |
| `OffchainAgent` | one node's commit loop and reveal poller, plus the chain as the poller sees it | One action per step between awaits |
| `MC_OffchainAgent` | instantiates `OffchainAgent` | two seeds, one file hash, symmetry over the seeds |
| `OffchainConfig` | the configuration provider and `get_data` | One action per step between awaits of `start`, the update task and a commit tick |
| `MC_OffchainConfig` | model values and file kinds for `OffchainConfig` | |
| `RoundLifecycle` | what the spec (section 4) promises of one round, with nothing of how | Abstract; `LogicProvider` is shown to implement it |

### LogicProvider

**State.** The variables are the storage items:
- `commits`, `commitmentBlockNumbers`, `revealWindow`, `roundStates`, `processedHashes` and `majorityType`;
- `blockNumber`;
- `freeBalance`, and `locks` (the set of round ids each account has locked).

All locks have amount `FundsToLock`, so the frozen balance is `FundsToLock` whenever some lock exists (`Frozen`).

**Actions.**
- `CommitProcessingResultHash` is the whole commit path:
  - the guards of `commit_processing_result_hash`, in source order;
  - `do_commit_processing_result_hash`, which pushes the commitment and the block entry and opens the window;
  - `lock_tokens`.
- `RevealProcessingResultHash` is the successful reveal.
- `RevealIncorrectHash` is the IncorrectRevealedHash branch: release, then burn, then remove the submitter from both lists. It is enabled only when `DispatchRollsBack` is FALSE. Under a storage layer the `Err` it returns rolls the penalty back, so on a real chain the step has no effect. The unit tests call the handler directly, where the penalty does persist. The behaviours with `DispatchRollsBack = FALSE` include every behaviour with TRUE (those without this step), so `lp_main` checks both dispatch modes at once.
- `SetMajorityType` and `ResolveMetadataDispute` are the ForceOrigin calls. Resolve clears `CommitmentBlockNumbers` twice and never writes `ProcessedHashes`, as the code does.
- `OnFinalize` ends the current block:
  - every due round (`Expired`: `block >= start + length`) goes through `OnFinalizeRound` = `issue_rewards`, Disputed on error, then the window is removed;
  - the due rounds are taken in any order (`SetToSeqs`), because `RevealWindow::iter()` follows the storage hash order;
  - then the block number advances.

**Helpers.** `IssueRewards`, `CalculateRewards`, `MostFrequentHash`, `DoIssueRewards`, `ReleaseTokensOfParticipants`, `BurnEligibleAccountTokens`, `ReleaseTokens` and `BurnTokens` are the functions of the same names. They thread one `Chain` record through each other, in the order the code calls them. `calculate_rewards` and `issue_rewards` are split into steps that each take the previous step's result as a parameter: `FinalSubmissions`, `RewardsFromFinal`, `RewardsFrom`, `CohortOutcome`, `FastestCohort` and `RewardOutcome`; then `IssueRewardsWith`, `SettleAfterMint`, `SettleRound` and `ArchiveRound`. `CloseRound` is the hook's handling of the result. Each step covers a contiguous stretch of the function (see the map). Passing values as parameters, rather than as LET definitions used several times, keeps TLC's coverage profiling from re-expanding the whole settlement expression at every use. `BurnTokens` fails, and leaves the balance unchanged, exactly when `settle(KeepAlive)` fails:
- the balance is below the amount;
- the burn would take an account that holds at least the existential deposit below it;
- the burn would cut into the frozen balance.

### OffchainAgent

**State.**
- The chain, as the poller sees it:
  - `bestBlock`;
  - each id's `windowStart` and whether `on_finalize` has removed it;
  - the transaction `pool` of submitted reveals;
  - `landed`, the block that included each id's first reveal.
- The node's offchain storage: `tracked` (`TRACKED_STORAGE_KEYS`, absent until first written) and `info` (each id's stored `OffchainCommitmentInfo`, its seed and file hash).
- The commit loop's stage `svc`: the id of the current tick and the seed and hash it committed.
- The poller's stage `poller`: its snapshot, loop index and `to_remove` list.
- `sent`, the number of reveal submissions per id.
- `secret`, the (random seed, file hash) pair behind each id's commitment on chain; `committed`, the ids the chain holds a commitment of this node for.
- `restarts`, the node restarts so far.

**Actions.**
- `ServiceTick`, `StoreKey` and `StoreCommitInfo` are the commit loop. The two stores take the lock separately. `submit_call` returns Ok once the pool takes the commit; the pallet refuses a second commit of an id this node has committed, and the loop never learns it. `StoreCommitInfo` writes only an id that has no info yet.
- `CheckKeysStart`, `CheckKey`, `SendCommitmentReveal`, `CheckKeysError` and `CheckKeysWriteBack` are `check_keys`:
  - each action runs from one await to the next;
  - `CheckKeysError` is any `?` that returns early;
  - `RemoveIndices` is the `for_each(remove)` loop, including its panic on an index past the end.
- `ProduceBlock` is the chain: inclusion of pooled reveals, windows opening for committed ids, and `on_finalize` removing windows that reach their last block.
- `SendCommitmentReveal` succeeds only if the pool admits the reveal (`PoolAdmits`). `ValidateUnsigned`, `VerifyCallPublicKeyCommit` and `VerifyCallPublicKeyReveal` give the tag the reveal provides: (public, random seed, reveal hash), with no metadata id. A reveal whose tag is already pooled is refused, and `submit_call`'s `Err` is the `?` of `CheckKeysError`. While the file does not change, two rounds whose seeds coincide provide the same tag.
- `NodeRestart` is a restart of the node. Offchain storage is on disk and the chain goes on. Both loops start again from idle, whatever step they were in. The in-memory pool keeps any subset of its reveals: those already gossiped to peers (`propagate(true)`) survive elsewhere. The id counter `nextTick` goes back to 1: the code's `metadata_id` is the whole seconds since `start`'s `Instant`, and the ticks fall on the same multiples of 27 s in every run of the node, so a restarted node commits under its old ids.

### OffchainConfig

**State.**
- Offchain storage: `keysList` (the `keys` entry, a list of names or absent) and `stored` (the value under each name).
- `hasKey`: the keystore holds a key of `PUBLIC_KEY_TYPE_ID`.
- `config`: the in-memory map.
- `startPc`: where `service::start` is (`keyInfo`, `offchainData`, `running`).
- `scan`: a `build_offchain_config` in progress, whether `start` or the update task runs it, and the names it has still to read. `scan.by = "none"` means the config lock is free.
- `svc` (ok or panicked) and `usedPath`, the path whose file the last commit hashed.

**Actions.**
- `OperatorSetValue`, `OperatorSetKeys` and `InsertKey` are the operator's RPC writes, outside the plugin's mutex.
- `SetOffchainConfig` is `set_offchain_config`, the load of a JSON config file into storage (nothing in `src` calls it; an operator tool or node start would). A missing file or a file that is not a JSON object writes nothing. Otherwise entries are stored one at a time until the first value that is not a string, which ends the load with `JSONTypeError` and leaves the earlier entries written. serde_json iterates its map in name order. The names are model values, so the entries written before a failure can be any subset of the string-valued ones. A load with no failure writes all of them. Each load counts as one write against `MaxWrites`.
- `GetKeyInfo` is `get_key_info`'s loop: it leaves once `get_public_key` finds a key.
- `BuildConfigBegin(by)` reads `keys` once, takes the config lock and queues the names in reverse. `ExtractConfigValue` is one storage read (one await) per name: a name with a value is inserted, a name without one is skipped. `BuildConfigEnd` drops the lock, and `start` moves on once a walk by it completes with a keypair.
- `ServiceTick` is a commit tick's `get_data`: no path or a missing file gives nothing; a text file is hashed; a path that opens but does not read as UTF-8 text (a directory) panics on `unwrap`.

### RoundLifecycle and the refinement

`RoundLifecycle` has, per round, a phase (Open, RevealWindowOpen, Completed, Disputed, ManuallyResolved), the set of participants and the archived answer. Its actions are join, strike-off of a wrong revealer, completion (storage purged, answer archived), dispute (everything kept) and manual resolution (purged, nothing archived). A step may move several rounds, since one block's hook settles every due round.

`LogicProvider` defines `RL == INSTANCE RoundLifecycle WITH` the mapping:
- `phase` is `RoundPhase(m)`: the round's `RoundStates` entry if it has one, else RevealWindowOpen while a window is scheduled, else Open;
- `participants` is the set of submitters in `Commits`;
- `archive` is `ProcessedHashes`.

The property `RoundLifecycleRefined == RL!Spec` is checked in `lp_main` and `lp_rounds`. It is state-level safety: the abstract spec has no fairness.

## 3. Runs

| Run | Cfg | Expect | Checks |
|---|---|---|---|
| `lp_main` | `MC_LogicProvider.cfg` | pass | `TypeOK`, `CommitIndexInSync`, `LocksMatchCommitments`, `SettlementMatchesSpec`, `RevealWindowClosesWithOutcome`, `WindowEventuallyDecided`, with handlers called without a storage layer and burning enforced |
| `lp_rounds` | `MC_LogicProvider_rounds.cfg` | pass | `LocksMatchCommitments`, `SettlementMatchesSpec`, `RevealWindowClosesWithOutcome`, with two rounds that share accounts |
| `lp_dispute` | `MC_LogicProvider_dispute.cfg` | violation | `DisputeAlwaysResolvable` |
| `lp_keepalive` | `MC_LogicProvider_keepalive.cfg` | violation | `SettlementMatchesSpec`, with existential deposit 1 |
| `agent_main` | `MC_OffchainAgent.cfg` | pass | `TypeOK`, `RevealNeverEarly`, `TrackedKeysDistinct`, with one node restart |
| `agent_lost_key` | `MC_OffchainAgent_lost.cfg` | violation | `TrackedKeyNotLost` |
| `agent_panic` | `MC_OffchainAgent_panic.cfg` | violation | `PollerNeverPanics` |
| `agent_duplicate` | `MC_OffchainAgent_dup.cfg` | violation | `AtMostOnceReveal` |
| `agent_reuse` | `MC_OffchainAgent_reuse.cfg` | violation | `RevealMatchesCommitment`, with one node restart |
| `config_main` | `MC_OffchainConfig.cfg` | pass | `TypeOK`, `StartupCompletes`, `ConfigEventuallyCurrent`, `ServiceUsesCurrentPath` |
| `config_panic` | `MC_OffchainConfig_panic.cfg` | violation | `ServiceNeverPanics`, with a directory as one of the paths |

The two LogicProvider pass runs also check `RoundLifecycleRefined`.

### What the properties say

**LogicProvider**
- `CommitIndexInSync`: `Commits` and `CommitmentBlockNumbers` name the same submitters, each once. Every path that edits one list must also edit the other.
- `LocksMatchCommitments`: an account holds the lock of a round exactly while it has a commitment there. Locks are keyed by round id, and every release path must match.
- `SettlementMatchesSpec` is an action property. In any step that settles rounds, every balance change is what the spec's definitions give:
  - the reward set is the earliest correct cohort among in-period revealers, each paid `Reward / |cohort|`;
  - the burn set is the wrong, missing or (if enforced) late revealers;
  - a Completed round archives a hash that holds the majority.

  It is checked against the code's iterator chain, fold of mints, release-then-burn order and KeepAlive burns.
- `RevealWindowClosesWithOutcome`: a window disappears only in the hook of its end block, and only together with Completed or Disputed.
- `WindowEventuallyDecided`: a scheduled round is eventually decided, under fair block production.

**OffchainAgent**
- `RevealNeverEarly`: a reveal never lands before its window starts. Such a reveal would use up the node's one reveal outside the period.
- `TrackedKeysDistinct`: `TRACKED_STORAGE_KEYS` never holds an id twice, through restarts that bring ids round again and write-backs of stale snapshots. A repeated id would be revealed twice in one pass, and the pool's refusal of the second reveal would abort every pass. `store_key`'s `contains` check is what keeps it.
- `RevealMatchesCommitment`: the commit info stored for a committed id holds the seed and hash behind its commitment on chain, so the node's reveal can open it. Spec §2 says a round id is unique while its round is in flight.

**OffchainConfig**
- `StartupCompletes`: once the keystore has a key and `keys` is readable, `start` reaches the commit loop. Its retry loops must not give up or spin.
- `ConfigEventuallyCurrent`: once storage stops changing, the config map eventually holds exactly what storage holds for every listed name. A walk racing the operator's writes can install a mix; the next walk must repair it.
- `ServiceUsesCurrentPath`: once storage stops changing, a commit eventually hashes the file at the stored `local_file_path`.
- `ServiceNeverPanics`: the commit loop never panics.

**Refinement**
- `RoundLifecycleRefined`: every step of the pallet is a step of the round life cycle the spec describes. A round is never decided twice, a decided round never reopens, participants appear only while the round is open and disappear only by strike-off or purge, and the archive is written once, on completion.

### Results
- The passing runs pass.
- Each mutant in `PROJECT.json` makes its property fail. A mutant is a plausible slip in the mapped code, for example:
  - clearing storage before releasing locks;
  - counting the first winner twice;
  - closing the window one block late;
  - dropping the Disputed write;
  - removing only one of the two lists;
  - releasing every lock of an account;
  - settling only one due round per hook;
  - pushing a 0-based index;
  - appending an id to the tracked list without the `contains` check;
  - checking only the end of the window;
  - a config walk without the lock, one that skips a name, or one that never overwrites a name;
  - `set_offchain_data`'s loop not returning on success;
  - the hook dropping the Disputed write, seen by the refinement.
- The violation runs are the findings in `PROJECT.json`:
  1. **`lp_dispute`.** A Disputed round where nobody revealed in period cannot be resolved: `calculate_rewards` fails `ConsensusNotReached` (lib.rs:602) before the forced hash is used (lib.rs:606). Its stakes stay locked. This contradicts spec §4.2, which says resolution "always succeeds".
  2. **`lp_keepalive`.** With a positive existential deposit, the burn of an account that staked its whole spare balance fails, and the failure is only logged. The account keeps the stake. The mock runtime uses a deposit of 0, which hides this.
  3. **`agent_lost_key`.** `check_keys` writes back its snapshot and erases an id that `store_key` added during the tick. The node never reveals for that round.
  4. **`agent_panic`.** Two reveals in one tick make the ascending `Vec::remove` loop index past the end, and the polling task panics. With three keys, the loop removes an unrevealed key instead.
  5. **`agent_duplicate`.** A failure after one reveal was submitted skips the write-back, and the reveal is submitted again on the next tick. This breaks the spec's at-most-once promise.
  6. **`config_panic`.** `get_data` calls `read_to_string(..).unwrap()`. A configured path that opens but is not UTF-8 text, such as a directory, panics. The panic ends `run_service` and, through `futures::join!`, the config update task with it.
  7. **`agent_reuse`.** `run_service` takes `metadata_id` as the seconds since `start`, so a restarted node commits under the ids of its previous run. The pallet refuses the second commit, but `submit_call` already returned Ok. If the first run crashed between its commit and `store_commit_info`, the second run stores its own seed. The reveal built from that seed does not open the commitment on chain, so the node's vote is lost and its stake is burned. This contradicts spec §2, which requires a round id to be unique while its round is in flight.

## 4. Bounds and why they suffice

- **`lp_main`.** It enforces burning; `lp_rounds` checks settlement with burning off, so both settings of `EnforceBurningTokens` are checked. It uses 3 accounts, 2 hashes, one seed, `MaxParticipants = 3`, `RevealWindowLength = 1`, `FundsToLock = 1`, `Reward = 2`, an initial balance of 1 and `MaxBlock = 5`. This is enough for:
  - a 2-of-3 majority under both thresholds, and 1-of-2 and 2-of-2 reveal splits;
  - ties in the commit block and a winner cohort of size 2, so the reward is split;
  - late reveals after the window;
  - a Disputed round followed by manual resolution, which needs block 5;
  - an account that stakes its whole balance.
- **`lp_rounds`.** This uses two rounds, 2 accounts, `MaxParticipants = 2`, an initial balance of 2 and `MaxBlock = 3`. Both rounds can open and come due in the same hook, and one account can hold two locks at once.
- **Horizon.** The block counter is bounded by `Producing`: blocks advance freely up to `MaxBlock`, and past it only while a window is still open. Every opened window is therefore settled, and runs stop only when nothing is pending. This is why the LogicProvider cfgs set `CHECK_DEADLOCK FALSE`.
- **OffchainAgent.** The violation runs use 3 commit ticks, windows of 2 blocks and 7 blocks; `agent_main` uses 2 ticks and 8 blocks, because after its one restart both ids are ticked again. All use two seeds and one file hash, and at most one restart (none in `agent_lost_key`, `agent_panic` and `agent_duplicate`). Three keys are the fewest that show the wrong-key removal. Eight blocks let a window open, a reveal land in it and the window close, before and after a restart. Two seeds give both a tag collision and two reveals pooled at once. The seeds are only compared, so the runs use symmetry over them.
- **OffchainConfig.** This uses two names (`local_file_path` and one other), two paths and two operator writes after an arbitrary initial storage, with `keys` lists of up to two names. Two writes are the fewest that change a value during a walk and the list after it. One path is a text file; the other is missing (`config_main`) or a directory (`config_panic`).

## 5. Fairness

- **LogicProvider.** Only block production is fair: `WF_blockNumber(BlockProduction)`, which is weak fairness of `OnFinalize`. Blocks keep being finalised on a live chain, while users and the ForceOrigin are never obliged to act. The fairness is stated on `blockNumber` because `OnFinalize` is the only action that changes it and it is enabled exactly when `Producing` holds. Written this way it is equivalent to `WF_vars(OnFinalize)` and much cheaper for TLC.
- **OffchainConfig.** The start-up loops, both walks, each storage read and the end of a walk are weakly fair: tokio intervals and awaited storage reads keep firing. The commit tick is strongly fair. It needs the config lock, which the update task takes on every interval, so the tick is enabled only intermittently. The tokio `Mutex` queues its waiters in FIFO order, so a waiting tick is eventually served. The operator is never obliged to act.
- **OffchainAgent.** It checks only safety, so it assumes no fairness.

## 6. Not modelled, and why

- **Signature checks and decoding.** The signature check and payload decoding always succeed for the node's own calls, so `VerifyCallPublicKey*` return valid. The pallet handlers assume only well-formed commit and reveal calls.
- **The commit in the pool.** A first commit of an id is on chain once `submit_call` returns Ok; a repeated one is refused by the pallet. Its pool tag (public, commit hash) can collide like a reveal's, but a refused commit only ends the tick, which `ServiceTick`'s failure branch already covers.
- **Locks of a round that never reaches the majority.** No window is ever scheduled for such a round, so `issue_rewards` never runs for it and `resolve_metadata_dispute` (Disputed rounds only) cannot reach it. Its participants' locks stay for ever. Neither the code nor the spec defines an expiry, so no property asks for a release. `LocksMatchCommitments` checks that the locks stay exactly as long as the commitments do.
- **Whether a refused reveal can be refused for ever.** When two rounds share a tag, the later one can be refused on each tick while the earlier one is re-sent. This is a liveness question. The bounded chain stops producing blocks, and the pool needs blocks to drain, so no run asks it.
- **`target_chain_call`.** It changes no state.
- **The cross-chain notification (`send_transact`) and the x-chain / shared-state pallets.** `issue_rewards` discards the result of `send_transact`. The placeholder call overwrites one `StorageValue` with whatever proof arrives. The transport between them is outside this repository.
- **Relays, the messages module and the chain primitives.** They hold no logic of this repository.
- **Benchmarks and mocks.**
- **Delivery of a reveal lost from the pool.** A restart can drop a submitted reveal that was not yet gossiped, and nothing submits it again. Spec 4.4 step 3 makes submission at-most-once and drops the key on success, so no property asks for a retry. `NodeRestart` keeps any subset of the pool, so the other agent properties are checked with such losses.
- **Late landing.** A reveal can be included after its window closed. `RevealNeverEarly` checks only the early side, because blocks pass between the poller's check and inclusion, and nothing in the code or the spec bounds that delay.
- **A bound on the tracked list.** A tracked id whose window never opens or closed unseen is skipped on every tick and never removed, so the list and each tick's runtime queries grow with the node's uptime. Spec §4.4 step 4 allows this, so no property states a bound. The model's ids are finite; `TrackedKeysDistinct` checks only that no id is held twice.
- **The runtime, block time and `RevealWindowLength` values.** They are not in `src`, so the model does not relate the poller's 12 s period to the window length.

## 7. Plan for the next steps

1. A `System` module that composes `LogicProvider` with one `OffchainAgent` per account, through `INSTANCE`. It would check that an honest, live node's vote is counted, and show how the off-chain faults turn into on-chain burns.
2. `CalculateRewards` checked over bounded inputs against a set-based reference definition of the winners (`SpecWinners`), as a pure-operator run.
3. Liveness of the reveal poller under fairness of its loop, with the chain producing blocks: a tracked key whose window opens is eventually revealed.
