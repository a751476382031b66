# TLA+ models of the data-availability committee

This directory holds TLA+ models of the StarkEx data-availability committee
(`src/src/starkware/committee/...`) and of the storage and Merkle-tree code it
depends on.  Every run listed in `PROJECT.json` is a TLC model check of one of
these modules under one `.cfg` file.

## The system

The committee is one process with one loop.  `Committee.run` in `committee.py` does four things:

1. It writes the initial batch info (batch -1, empty trees) and loads `committee_next_batch_id`.
2. It polls the availability gateway for the batch `next_batch_id`.
3. `validate_data_availability` handles the batch:
   - It reads the batch info of `state_update.prev_batch_id`. An info found only under the legacy key is first copied to the new key.
   - It recomputes the Merkle roots of the validated trees.
   - It compares them with the operator's declared roots.
   - It stores the new batch info and signs the availability claim.
4. It sends the signature to the gateway, then increments `next_batch_id` and writes it.

Any exception aborts the iteration. The loop then sleeps and retries the same batch.

The parts and how they interact:

| Part | Source | Talks to |
|---|---|---|
| Batch validator loop | `committee/committee/committee.py` | gateway client, storage, Merkle tree |
| Gateway client | `committee/availability_gateway_client.py`, `starkware_utils/http_handler.py` | the operator's availability gateway (HTTP, retried) |
| Key-value storage | `storage/aerospike_storage_threadpool.py` | Aerospike, with writes retried on timeouts |
| Distributed lock | `storage/aerospike_lock.py` | Aerospike records with a TTL |
| Merkle tree | `starkware_utils/commitment_tree/merkle_tree/*.py` | the fact store |
| Dump/load tools | `committee/dump_state`, `load_state`, `dump_trees` | storage, a worker pool |
| State objects | `starkware_utils/objects/starkex_state.py`, `services/perpetual/...` | leaf facts of the trees |

What is hard here, and why tests rarely reach it:

- **Failed writes.** Every storage write can time out after it was applied. The loop then aborts and redoes work that already took effect.
- **Lost answers.** A signature may be recorded by the gateway while its answer is lost.
- **Restarts.** The process can die between sending a signature and persisting `next_batch_id`.
- **Withheld data.** The operator may withhold data.
- **Special cases.** Three of them interact with all of the above:
  - the legacy-key migration;
  - the synthesis of an empty rollup tree for old infos;
  - the obsolete-order-root sentinel.

## Modules

### `Committee` (with `MCCommittee`)

This module models the batch validator loop together with the two parts it talks to: the gateway (the operator's batches and the set of claims it accepted) and the committee's storage keys.

**Data abstraction.** A Merkle root is the content of its tree: a function from leaf index to leaf. Hashes are assumed collision resistant, so equal roots mean equal trees. `MerkleTree.update` is `Apply`. `OBSOLETE_ORDER_TREE_ROOT`, a missing key (`NoInfo`) and a batch the operator has not created yet (`NotCreated`) are model values.

**State and code:**

| Variable | Code |
|---|---|
| `storage_batch_info` | key `new_committee_batch_info:<id>` |
| `storage_old_batch_info` | key `committee_batch_info:<id>` |
| `storage_next_batch_id` | key `committee_next_batch_id` |
| `pc`, `next_batch_id`, `state_update`, `prev_batch_info`, `availability_claim` | the locals of `run` and `validate_data_availability` between awaits |
| `stopped` | `Committee.stopped` |
| `gw_batches`, `gw_approved` | the gateway |

**Actions.** There is one action per segment of `run` between two awaits that can fail:

| Action | Code |
|---|---|
| `ComputeInitialBatchInfo` | `compute_initial_batch_info` |
| `LoadNextBatchId` | `get_int`, then `set_int(0)` |
| `ExitLoop` | `while not self.stopped` |
| `GetBatchData(complete)` | the gateway answers with all of the batch's modifications or a subset of them |
| `ReadPrevBatchInfo(outcome)` | `get_committee_batch_info_or_fail`, including the migration write |
| `ValidationFails` | a raised assertion of `validate_data_availability`, then the `except` branch of `run` |
| `ComputeAndStoreBatchInfo(outcome)` | the roots, the `set_value` of the batch info, the claim |
| `SendSignature(delivery)` | `send_signature` |
| `AdvanceNextBatchId(outcome)` | `next_batch_id += 1; set_int` |
| `Stop` | `stop` |
| `CrashRestart` | the process dies and `main` starts it again |
| `CreateBatch(b)` | the operator |

`CreateBatch` chooses the previous batch (aborted batches may be skipped) and the modifications. Where the cfg allows it, it also marks the declared order root as obsolete.

**Outcomes of external calls:**

- A storage write is `"ok"`, `"failed_written"` or `"failed_unwritten"`. `failed_written` is a timeout after the record was applied. `run_with_retry_on_timeouts` re-raises after its last attempt, whatever happened to the record.
- A signature is `"acked"`, `"unacked"` (recorded but the answer is lost) or `"lost"`.

**Configuration.** `CommitteeObjects`, `ValidateOrders` and `ValidateRollup` are CONSTANTS. The `ASSUME CommitteeConfigAccepts(...)` admits exactly the configurations `CommitteeConfig.load` accepts, including combinations of flags and objects that `validate_data_availability` later rejects (`ValidatedNamesFail`).

**Initial states.** There are two:

- an empty store;
- the store an older committee version left: batch 0 approved and kept under the legacy key, without a rollup tree, and `next_batch_id = 1`.

### `AerospikeStorage` (with `MCAerospikeStorage`)

This module models `setnx_value`, `set_value`, `get_value` and `del_value` of `storage/aerospike_storage_threadpool.py` as seen by concurrent callers. Each runs as `sync_set`, `sync_get` or `sync_del` under `run_with_retry_on_timeouts`.

- **State.** `records` is the server: one record per bucket. `AerospikeStorage` puts every key in its own bucket, and `remove` deletes the record. `AerospikeLayeredStorage` keeps the keys of a bucket as entries of one map record, and `map_remove_by_key` leaves the record in place. `call` is each caller's current call: its attempt number, status and result, and the history field `wrote` (an attempt of this setnx has put its value). `winners` is history: the setnx calls that returned True since the key was last deleted.
- **Actions.**
  - `Invoke` submits a call.
  - `SetAttempt(outcome)` and `DelAttempt(outcome)` are one attempt each. The outcome is `ok`, `timeout_applied` or `timeout_unapplied`, and the decorator's retry-or-give-up step (`AfterTimeout`) is part of the same action.
  - `GetAttempt(outcome)` is one read: it returns the stored value (None for an absent key) or times out. A read applies nothing, so its timeout is only `timeout_unapplied`, and after the last one the decorator re-raises.
  - `RecordExistsError` on a `POLICY_EXISTS_CREATE` write is checked on the whole record, which is what the server does.
- **Fairness.** It is weak fairness on each running call's attempts. The thread pool runs every submitted call, and every attempt ends by completing or timing out.

### `AerospikeLock` (with `MCAerospikeLock`)

This module models `storage/aerospike_lock.py`. A lock is a record created with `POLICY_EXISTS_CREATE` and a TTL.

- **Actions.**
  - `Lock`, then `Acquire` or `Busy`. `Busy` retries, and after `n_retries` attempts it raises `LockError`.
  - `AcquireTimeout(applied)`: the put raised `TimeoutError` after or before the server created the record.
  - `Extend` (touch), `Unlock` (remove) and `Tick`. A touch of a missing record raises out of the `async with` block, whose `__aexit__` then removes the (missing) record; `Extend` takes both in one step. The window between them opens only after the holder's record expired, which `HoldersOnTime` excludes and `lock_expiry` already shows to be unsafe.
- **Time.** Time advances in ticks of the TTL. `lease[c]` is the time a holder may rightly consider itself the holder.
- **`HoldersOnTime`.** This constant restricts `Tick` to the schedules in which every holder extends or releases before its TTL runs out. That is the usage the code assumes, and the `lock_expiry` run drops the assumption.
- **Fairness.** A client inside `lock()` is weakly fair on its attempts (`Acquire`, `Busy`, `AcquireTimeout`). The event loop resumes the coroutine, and every put completes or raises. Holders and new callers are users of the lock and get no fairness, so a holder may keep extending forever.

### `MerkleTree` (with `MCMerkleTree`)

This module models the Merkle tree of `starkware_utils/commitment_tree/merkle_tree`: `empty_tree`, `update`, `get_node`, `dump_tree_diff`, and the `dump_trees` entry points.

- **Hashes.** Hashes are injective terms: `LeafHash(v) = <<v>>` and `NodeHash(l, r) = <<l, r>>`.
- **State.** `facts` is the set of hashes written to the fact store. `trees` holds every tree a call has returned, with the leaves it was built from.
- **Update.** `Update(t, mods)` applies up to `MaxMods` leaf modifications to any earlier tree, which covers the non-linear history the committee creates. It writes the facts of the calculation nodes (`CalcFacts`).
  - The planning of `update_tree` lives outside `src/`. `Plan` and `PlanReadable` model it from its documentation.
- **Failures.** `UpdateFails` and `EmptyTreeFails` model a call that raises after writing any subset of its new facts.
- **Reference definitions.** Each operator is checked against a reference definition computed from the leaves alone: `RefRoot` and `RefDump`.

### `DumpLoadState` (with `MCDumpLoadState`)

This module models the backup tools `committee/dump_state` and `committee/load_state`. Each one fills an `asyncio.Queue` with one task per file and runs `n_processes` worker coroutines.

- **State.** `pool[t]` is a tool's queue, workers, unfinished-task count, whether a worker raised, and its phase. `archive` is the set of files `tar.add` wrote. `loaded` is the tree files whose loader completed. `next_batch_id_set` records whether the info load with `--set_next_batch_id` ran.
- **Outcomes.** A task's subprocess exits 0 (`ok`) or non-zero (`failed`), or the worker raises (`raised`).
- **dump_state.** It only prints a failed task.
- **load_state.**
  - It calls `exit()` on a failed task. That ends the process, but loaders already started keep running (`LoadOrphanFinishes`).
  - `LoadStart` fails when `info.json` is missing from the archive.
- **Joins.** `DumpJoin` and `LoadJoin` are the `queue.join()`, `cancel` and `await gather` sequence. Awaiting the gather re-raises the first exception of a worker.
- **Fairness.** It is weak fairness on the workers of both tools, on both joins and on the info load. The event loop runs every ready coroutine, and every subprocess ends. Starting `load_state` is the operator's choice and is not fair.

### `HttpRetryPolicy` and `GatewayContract` (with `MCHttpRetryPolicy`)

`HttpRetryPolicy` models `HttpRetryPolicy.send_http_request` (`starkware_utils/http_handler.py`) as `AvailabilityGatewayClient` uses it. The committee's `get_batch_data` (a GET) and `send_signature` (a POST carrying a claim) go one at a time to a gateway, and the gateway records the claims it is sent.

- **Attempts.** A call makes attempts `0 .. RETRY_COUNT - 1` in the `for` loop, then one final attempt. Every attempt is a new request in `net`. A request stays there until the gateway (or its proxy) handles it or the network loses it, even after its attempt timed out or its call ended.
- **Answers.** `Handle(r, applied, status, delivered)` is the gateway. A POST that is applied records its claim, and the answer `OK` is given only after the request was applied. The answer reaches the client only when `r` is the attempt still waiting and the answer is not lost.
- **Client steps.**
  - `Receive` returns on `success_code`. Any other status raises `BadHttpRequest`.
  - `Timeout` is `asyncio.TimeoutError`.
  - `ConnectionError` is any other exception.
  - All three go through `Fail`, which is the `except` branches: `retry_exception` decides between a retry and a re-raise, and on the final attempt every exception becomes `TooManyAttempts`.
- **`sends`.** A history variable counting the requests the current call sent.
- **Refinement.** `GatewayContract` is what the client promises the loop:
  - a call returns or raises;
  - a POST that returned normally was recorded;
  - the gateway records only claims that were sent (`pending`), possibly after the call that sent them raised.

  The refinement mapping sends a waiting call to `"running"` and `net` (plus the waiting POST) to `pending`. The property `ContractRefinement` checks it.
- **Relation to `Committee`.** `Committee` abstracts a send into the outcomes `acked`, `unacked` and `lost`. The contract shows the one thing that abstraction leaves out: a claim can be recorded after the call raised. Under full validation the retried batch carries the same claim, so a late record is the same as `unacked`. With the obsolete-order-root sentinel it is not; see the `committee_sentinel` finding.
- **Observation.** spec.md says transient 5xx errors are retried and a request that ultimately fails raises `TooManyAttempts`. The code differs in two ways:
  - Only 502, 503 and 504 are retried. A 500, or a connection error, is re-raised at once as `BadHttpRequest` or `ClientError`.
  - On the final attempt, even a non-retryable error becomes `TooManyAttempts`.

  The committee loop catches every exception, so this changes only which exception is logged.

### `StateObjects` (with `MCStateObjects`)

`StateObjects` models the leaf objects the committee hashes into the roots it signs, and the operations the exchange performs on them. The sources are `services/perpetual/public/business_logic/state_objects.py` and `starkware_utils/objects/starkex_state.py`. Nothing in the committee calls these operations; they are the code that produces the leaves.

- **Ranges.** Field ranges are the `RangeValidatedField`s of `fields.py`, each read as `lower <= v < upper`. The bounds of `constants.py` (2^63, 2^120, 2^32 ...) are scaled down in the cfg, and the `assert` of `calculate_message` (the packed message fits the field) is an `ASSUME` on them.
- **State.**
  - `positions`: perpetual `PositionState`s.
  - `funding`: the global `FundingIndicesState`, starting at `FundingIndicesState.empty()`.
  - `perp_orders`, `vaults`, `orders`: perpetual orders, StarkEx vaults and StarkEx orders.
  - `ledger`: history. Per position, the starting collateral, the exact funding owed in units of `1 / FIXED_POINT_UNIT`, and the number of applications.
- **Leaf facts.**
  - `calculate_message` and `PositionHash` follow `PositionAsset.calculate_message` and `PositionState._hash`: the sorted chain of asset messages, the public key, and the packed collateral and asset count.
  - `OrderHash` follows `OrderState._hash` (the bytes of the amount).
  - `hash_func` is a collision-free constructor.
  - `to_bytes` yields bytes, or `OverflowError` outside `0 .. 256^32 - 1`.
- **Actions.**
  - `SetFundingIndices` is the exchange publishing new indices, possibly missing an asset.
  - `apply_funding(p)` is `PositionState.apply_funding`, with `verify_asset_index_exists` as its guard: sum `-balance * funding_diff` over the assets, floor-divide by `FIXED_POINT_UNIT`, update the cached indices.
  - `PerpOrderAdd` is the perpetual `OrderState.add`.
  - `VaultAdd` is `VaultState.add` followed by `__post_init__` (`VaultState`, `VaultValid`).
  - `OrderAdd` is the StarkEx `OrderState.add`.
  - A `stark_assert` that raises is a step not taken.

## Runs

| Run | Expect | What it shows |
|---|---|---|
| `committee_safety` | pass | Under full validation, with failed writes, lost answers, withheld data, one restart and an upgraded store, the committee signs only what it stores, stores only correct roots, never rewrites a batch info, always finds the previous batch info, and eventually approves every batch unless stopped. |
| `committee_partial` | pass | With `validate_orders` and `validate_rollup` false, every approved claim still matches a stored batch info, and every recomputed root in it is correct. |
| `committee_sentinel` | violation | Under full validation, an obsolete order root is not compared, but the computed root is stored and signed. A batch retried after a lost answer is then signed with two different claims. |
| `storage_plain` | pass | With two callers and timeouts before or after a write is applied, at most one setnx wins a key between two deletes, a get answers exactly what its key holds when read (or raises, never a spurious None), and every call returns within the retry budget. |
| `storage_setnx_retry` | violation | A setnx whose put timed out after the server applied it is retried, meets its own record and returns `False` although it wrote (spec.md §4.1: true iff written). |
| `lock_on_time` | pass | With three clients, retries and timed-out creates, the lock is mutually exclusive while holders extend or release in time. Every `lock()` call ends with the lock or a `LockError`, even while another client holds the lock indefinitely. |
| `lock_expiry` | violation | A holder whose TTL ran out extends or removes the record another client created, and both consider themselves holders. |
| `merkle_tree` | pass | Over chains of up to four trees, with updates of any earlier tree and one failed call, `update` agrees with recomputation from the leaves, every historic tree stays readable, `dump_info` records the right subtree roots, and every dump writes exactly the non-empty leaves and the unpruned nodes. |
| `dump_load` | pass | A restore sets `committee_next_batch_id` only after every tree file was loaded, whatever subprocesses fail or raise in either tool. Each tool, once running, exits unless every one of its workers raised. |
| `http_retry` | pass | With lost, late and duplicated requests and answers, retried and non-retried errors and timeouts, `send_http_request` raises `TooManyAttempts` only after sending all `retry_count + 1` requests, always returns or raises, and implements `GatewayContract`: a signature reported as sent was recorded by the gateway. |
| `state_objects` | pass | Every valid asset message, and the fact of every reachable position, decodes by division and remainder to exactly the data it encodes. `apply_funding`, applied at any time against any published indices, never credits more than the exact funding and charges at most `FIXED_POINT_UNIT - 1` parts of a unit more per application. Order leaves are their amounts. |
| `dump_load_hang` | violation | When every dump worker raises with tasks still queued, `queue.join()` never returns and `dump_state` hangs. |

Each violation is explained under `findings` in `PROJECT.json`. Each property of a passing run has a mutant in `PROJECT.json`: a plausible bug in the mapped code, which TLC catches under the run's own cfg.

The configuration is a CONSTANT of `Committee`, constrained by `CommitteeConfigAccepts`: exactly what `CommitteeConfig.load` checks (a boolean `validate_orders`, an optional `validate_rollup`, a set of object names), and nothing more. A `rollup_vault` tree with `validate_rollup` left at `None` is accepted by `load` but fails the assertion at `committee.py:244` on every iteration. spec.md §9 documents this combination as illegal, so no run uses it.

## Bounds

- **Committee.**
  - Two batches (`MaxBatch = 2`).
  - One-leaf trees with two leaf values.
  - The modifications "none" and "set leaf 0 to 1".
  - At most one crash.

  Two batches are enough for three cases: a batch built on an aborted one, a batch built on a legacy info, and a crash between batches. One leaf with two values already tells a correct root from an incorrect one, and complete data from withheld data. A second crash only repeats the first one's effect on the persistent keys.
- **Storage.** Two callers, two keys, two values, `RETRY_COUNT = 2` and four calls. A retry needs two attempts, and a race needs two callers. Every key has its own bucket. `MCAerospikeStorage` also defines a shared bucket for the layered store, which no run uses (see Not modelled).
- **Lock.** Three clients. `lock_expiry` uses a TTL of 2 ticks, `n_retries = 2` and four `lock()` calls. A third client is what lets a stale holder's extend renew another client's record. `lock_on_time` uses a TTL of 3 ticks, `n_retries = 3` and six `lock()` calls, so every client can lock twice and waiters exhaust their retries while a holder extends. It checks liveness, so it uses no symmetry reduction.
- **Merkle tree.** Height 2, which gives four leaves and both a leaf level and an inner level below the root. There are two leaf values, up to two modifications per update, up to four trees and one failed call. Dumps are checked from every node index, and `dump_info` from every depth.
- **HTTP.** `retry_count = 2` (three attempts) and two calls, with claims `c1` and `c2`. Statuses: `OK`, one retried code (`BAD_GATEWAY`, standing for all of `retry_error_codes`) and one that is not retried. Two calls are enough for a request of the first call to be recorded during or after the second. Three attempts exercise the loop, the retry and the final attempt.
- **State objects.** Scaled ranges:
  - balances `-8 .. 7`;
  - funding indices `-1 .. 0`;
  - asset ids `0 .. 1`;
  - `N_ASSETS_UPPER_BOUND = 4`;
  - `FIXED_POINT_UNIT = 4`.

  One position starts with collateral 0 and any subset of the two assets, with balances `-1` or `3` and any cached index. The indices are published twice, and funding is applied at most twice. Balances `-1` and `3` against a unit of 4 give remainders of every size, and two assets give sums that round differently from their parts. Collateral stays within `-8 .. 7`, so the range validation of `dataclasses.replace` (not under `src/`) never decides a step. There is one vault, one StarkEx order and one perpetual order with amounts below 2. Vault changes come from stark key `0` or `2` with token `3` and diffs of `-1` or `1`; order fills and diffs of `-1` and `1` reach the negative-amount assertions as well as the capacity and range checks.
- **Dump/load.** Two workers and two order files, plus the vaults and info files. Two workers are the fewest for one worker to die while the other keeps going. `dump_load` checks liveness, so it uses no symmetry reduction.

## Fairness

- **Committee.** The loop never blocks, so the process is weakly fair. The successful outcomes of the gateway, storage and signature calls are strongly fair, because the loop retries the same batch forever. No single attempt guarantees success. Crashes, `stop()` and the operator are not fair.
- **Storage.** Attempts are weakly fair.
- **Lock.** A client inside `lock()` is weakly fair on its attempts; holders are not.
- **Dump/load.** The workers, the joins and the info load are weakly fair; starting `load_state` is not.
- **HTTP.** The client is weakly fair on reading an answer or timing out. `http_request_timeout` ends every attempt that gets no answer. The gateway and the network are not fair.
- **Deadlock checking.**
  - Committee and storage switch it off because `stop()` ends the loop and callers stop calling.
  - Merkle tree switches it off because its bounds end the sequence of calls.
  - Dump/load switches it off because both tools exit.
  - HTTP switches it off because the committee makes a bounded number of calls.
  - The lock runs check deadlock: `Tick` is always enabled.
  - `state_objects` checks deadlock: a vault can always take a deposit or a withdrawal.

## Not modelled

- **`update_tree`.** The planning of `update_tree`, the traversal driver and the fact cache are not under `src/`. `MerkleTree` models the plan from its documentation, and `Committee` uses the abstract `Apply`.
- **HTTP details.** Back-off durations (`timeout_gen`) and SSL setup are left out. The sleep between attempts is a single step, during which the network keeps acting. The `assert` on the `"signature accepted"` text is not modelled, because the gateway answers `OK` with that text (spec.md §6).
- **Pure conversions.** Hashing, signing, serialisation, CSV and JSON layout, and CLI argument parsing.
- **`custom_validation.is_valid`.** It always returns `True`.
- **`del_value` after timeouts.** `sync_del` returns its `fail_value` `False` after the last timeout, and `del_value` discards it. So a delete that timed out on every attempt returns normally with the key still present. No run checks this. It is listed as a hazard, because nothing in the repository calls `del_value`.
- **State-object valuation.** `total_value` and `asset_value` are not modelled. They change nothing, and their `FixedPoint` arithmetic is not under `src/`.
- **Configuration, schemas and error codes.** Of `committee_config.py`, only what `CommitteeConfig.load` accepts is modelled (`CommitteeConfigAccepts`, an ASSUME of `Committee`). `error_codes.py`, `availability.py` and the marshmallow field declarations are declarations and change no state. The models take the values they use as CONSTANTS.
- **Layered `setnx`.** In `AerospikeLayeredStorage.sync_set`, `POLICY_EXISTS_CREATE` applies to the bucket record. So `setnx_value` of an absent key fails once any other key of its bucket exists. TLC showed this, against a property that a setnx fails only on a present key, while `AerospikeStorage` was being built (the layered mode is still in the module). No run keeps it, because `setnx_value` has no caller in the repository, and it is listed as a hazard.
