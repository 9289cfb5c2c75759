# TLA+ models of STRN's distributed training coordination

This directory holds TLA+ models of the training coordination layer in
`src/new_models/ps/training_sgd.py` (parameter-server training) and
`src/new_models/all_reduce/training_sgd_allreduce.py` (ring all-reduce
training). It has TLC configurations that check them on small instances, and
TLAPS proofs of their main safety properties for every value of the
constants.

## 1. Inventory: the system's parts and how they interact

| Part | Code | What it does |
|---|---|---|
| ShardAssigner | `main()`, ps 719-739 and all-reduce 600-620 | Sorts the model's parameters by `numel`, largest first. Gives each in turn to the shard with the least load (`np.argmin`). Records each parameter's `(param_ps_idx, param_loc_idx)`. |
| AggregatorShard | `ParameterServer`, ps 161-313 | `ps_computing` runs under `sync_lock`. It adds the worker's gradient into `param.grad` and counts the contributor. It takes the current future, then checks the barrier: in sync mode, every worker has contributed; in async mode, every call passes. At the barrier it steps the optimizer, clears the gradient, resets the count, resolves the future with the parameters and swaps in a new future. It also has `set_sync_mode`, `get_step_num` and `get_ps_params`. |
| WorkerActor (PS) | `Worker`, ps 316-490 | `run_worker` computes a gradient. It starts one `run_ps_computing` thread per shard, each a blocking `rpc_sync` of `ps_computing`, and joins them. It copies the returned shard parameters into its model, then polls `get_stop_flag` on the tester. |
| RingExchanger | `Worker`, all-reduce 164-378 | `run_worker` runs a reduce-scatter of N-1 hand-offs, then an all-gather of N-1 hand-offs. Each hand-off puts a slice on the worker's own `aggr_msg_q` and takes one from its predecessor's queue through `get_gradient_slice`. The worker then applies the summed gradient and polls the stop flag. `get_model` lets the tester fetch the model. |
| TesterActor | `Tester`, ps 493-656 and all-reduce 381-537 | Every 180 s (PS) or 40 s (ring) it fetches the parameters, evaluates them and logs the step count. Its stop code is commented out, so it loops forever. |
| Coordinator | `main()`, ps 659-899 and all-reduce 540-750 | Every rank calls `init_rpc`, which is a rendezvous. The manager then creates every actor with `rpc.remote` and wires their references with `rpc_sync`. It launches `run_worker` and `test_model` with `rpc_async` and calls `torch.futures.wait_all`. The other ranks go straight to `rpc.shutdown()`. |
| Not modelled | `job_launcher.py`, `uploadf.py`, `new_models/*.py`, `Comparison-methods/.../ganglia.py` | ssh launch commands, file upload, network layers and a monitoring mock: I/O or data with no coordination state. |

How the parts interact:

1. The Coordinator runs the ShardAssigner once.
2. It builds the shards and workers from its result and wires them together.
3. In PS mode, each worker makes one `ps_computing` call per shard per iteration. The call blocks on that shard's round future.
4. In ring mode, worker i's `get_gradient_slice` call to worker i-1 blocks on the predecessor's queue.
5. Every worker polls the tester after every iteration.

## 2. Modules

| Module | Models | State (code variable) | Actions (code) |
|---|---|---|---|
| `ShardAssigner` | the partitioning loop | `numel`; `done` (loop index); `nums` = `ps_param_nums`; `lists` = `ps_param_lists`; `psIdx` = `param_ps_idx`; `locIdx` = `param_loc_idx` | `Place(k,s)` is one loop iteration, with `Rank` the stable descending sort and `IsArgMin` being `np.argmin`. `Partitioned` is the end of the loop. |
| `ParamServer` | shards and PS-mode workers | per worker: `wpc`, `iter` (`iter_count`), `thr`/`ftOf` (threads and the futures they wait on), `plist`, `model`; per shard: `syncMode`, `count` (`sync_worker_count`), `stepNum`, `grad` (`param.grad`), `params`, `fut` (the current future's number) | `Compute` is the start of an iteration and the thread starts. `PsComputing` is the whole handler. `Receive` is a thread's `rpc_sync` returning. `JoinApply` is the join and copy. `PollStop`, `SetSyncMode` and `Finished` model those steps of the code. |
| `RingAllReduce` | ring workers and the tester's fetches | `pc`, `ph` (phase), `ix` (loop index), `step`, `slices` (`grad_lists`), `applied`, `q` (`aggr_msg_q`), `moved` (model on the CPU), `tpc` | `ForwardBegin`/`ForwardEnd` are the loop head and forward/backward. `Put` and `Get` (with `get_gradient_slice` and `Combine`) are the two halves of a hand-off. `Update`, `PollStop`, `TesterFetch` (the tester's `get_model`) and `Finished` model those steps. |
| `Coordinator` | both `main()` launch sequences | `up` (ranks in `init_rpc`), `mpc` (manager's position), `obj` (each `rpc.remote` object), `wired`, `task` (futures), `down` (ranks in `rpc.shutdown`) | `Register`, `Rendezvous`, `Create`, `Construct`, `Wire`, `Launch`, `TaskFails`, `WaitAllRaises`, `Shutdown` |
| `DataSplit` | `main()`'s division of the training set (ps 777-784) and the length of `run_worker`'s loop (ps 412-424) | none: pure operators | `Share` is `int((L + n) / n)`. `PartLen` is `len_list[k]`. `Batches` is `len(DataLoader)` with or without `drop_last`. `LoaderIters` is epochs times batches. `MCParamServer` derives its short-partition `Iters` from them. |
| `LockstepRounds` | the abstract promise of synchronous training | `started[i]`, `finished[i]` (rounds begun and rounds applied) | `Start(i)` and `Finish(i)`: a worker may finish round k only once every worker has started it. |

`ParamServer` and `RingAllReduce` each instantiate `LockstepRounds` with
`INSTANCE ... WITH` and check `ImplementsLockstep == Lockstep!Spec`. The
refinement mapping is the following:

- `started` is the worker's iteration count: `iter` in PS mode, `step` in the ring.
- `finished` is that count minus one while the worker is in an iteration, and the count itself otherwise. An iteration is open from `Compute` up to `JoinApply` (PS), and from `ForwardBegin` up to `Update` (ring).

Asynchronous PS mode does not implement this specification, because there a
worker may run ahead. So `ImplementsLockstep` is checked in `ps_sync` and not
in `ps_switch`.

How the data is abstracted:

- A gradient is its identity `<<w, k>>`: worker w, iteration k. Parameters are the set of gradients applied to them.
- A ring slice's value is a vector that counts the contributions of each worker.
- The ShardAssigner's model is any sequence of up to `MaxParams` sizes in `1..MaxNumel`.
- Time, logging, devices and tensors are left out. The exception is the device move in `get_model`, kept as the flag `moved` because the ring tester race depends on it.

The proof modules `ParamServerProofs`, `ParamServerRoundProofs`, `RingAllReduceProofs`,
`RingAllReduceValueProofs`, `ShardAssignerProofs` and `CoordinatorProofs` each extend the module they prove
things about; section 4 describes them.

Each `MC*.tla` module only declares model values and small constant
definitions for its `.cfg` files.

## 3. Runs

| Run | Checks | Result | What it shows |
|---|---|---|---|
| `ps_sync` | TypeOK, ExactlyOnce, WorkerSeesOwnStep, SyncRoundComplete, AllWorkersFinish, ImplementsLockstep | pass (1535 states) | This is sync mode with the Tester constructed (`TesterUp = TRUE`). `main()` as written never constructs it (finding 2), so the liveness results here hold only once that call is fixed; the safety results carry over unchanged. Every gradient is applied exactly once. Each worker receives parameters that include its own gradient. A step happens only when all workers have contributed. Training ends. The workers implement `LockstepRounds`. |
| `ps_switch` | ExactlyOnce, WorkerSeesOwnStep, SyncRoundComplete | pass (308180 states) | `set_sync_mode` is called at arbitrary moments. Every gradient is still held exactly once, a worker still sees its own step, and the barrier still completes across switches. |
| `ps_stepnum` | StepNumCountsRounds | violation | `step_num` counts contributions, not rounds. |
| `ps_short_partition` | AllWorkersFinish | violation | `Iters` comes from `DataSplit`: 6 samples, 2 workers, batch size 2 and `drop_last` give `len_list = [4, 2]`. The worker with one batch fewer stalls sync training forever. The trace needs `get_stop_flag` to answer (`TesterUp = TRUE`), so in this code the stall is latent behind the Tester constructor failure. |
| `ps_no_tester` | AllWorkersFinish | violation | The tester constructor fails, so every worker dies at its first `get_stop_flag`. |
| `ring` | TypeOK, HandOffInOrder, AllReduceCorrect, QueueBound, ImplementsLockstep | pass (1704 states) | Every received slice is the one the protocol expects. Every applied gradient is the full sum. No queue holds more than N messages. The ring implements `LockstepRounds`. |
| `ring_live` | AllWorkersFinish | pass (1562 states) | Without the tester's device race, every ring worker finishes. Like every ring run, it takes `main()`'s launch bugs (allreduce 732 and 776-790) as fixed. |
| `ring_tester_race` | AllWorkersFinish | violation | `get_model` crashes the tested worker mid-step, and the ring stalls. |
| `shard` | TypeOK, SlotsAgree, Balanced, LPTBound | pass (7107 states) | The index dictionaries agree with the lists. Loads stay balanced. The result is within Graham's LPT bound. |
| `coord_ps` | TypeOK, RunsLaunched, EndsRaisedOthersInShutdown | pass (4895 states) | PS `main()` reaches its launch loop and starts every `run_worker`. It then always ends by raising out of `wait_all`, once a task has hit the unconstructed Tester, with every other rank left in `rpc.shutdown()`. |
| `coord_ring` | EndsRaisedOthersInShutdown | pass (207 states) | Ring `main()`, called with the arguments it declares, always ends by raising out of its wiring loop, with every other rank left in `rpc.shutdown()`. |
| `coord_ring_nolaunch` | RunsLaunched | violation | The ring `main()` calls a method its Worker lacks, so training never starts. This is latent behind the `__main__` arity bug (finding 3). |

Every property of a passing run has a mutant in `PROJECT.json`: a plausible
bug in the mapped code, such as a dropped guard, an off-by-one, the future
taken after the swap, a queue read without removal, or an unsorted
placement. TLC finds each of them violated.

### Bounds

- **ParamServer:** three workers and two shards, with two iterations each.
  - A sync round needs every worker. Three workers let two of them be in a round while the third is behind.
  - Two shards let one worker's threads interleave across shards.
  - Two iterations make a round's future swap matter to the next round.
- **Ring:** N = 3.
  - With N = 2, the reduce-scatter and all-gather have one hand-off each.
  - With N = 3, a worker can be one phase ahead of its successor. This is what gives the tight queue bound of N, found by TLC and reached for N = 3 and N = 4.
- **ShardAssigner:** every model of up to six parameters of size 1..3 on two shards. This includes ties, where the stable sort and the lowest-index `argmin` matter, and models where LPT is not optimal.
- **Coordinator:** two parameter servers and two workers. This is enough for the per-group loop ordering to matter.

### Fairness

The liveness runs assume weak fairness of every worker and shard action.

- Each worker is its own process.
- Each shard handler runs on an RPC thread. RPC threads are not exhausted: `async_execution` frees them, and ring `get_gradient_slice` calls take at most one thread per rank.
- `rpc_timeout=0`, so no call is ever abandoned.
- The tester's fetch gets no fairness. Its timing is wall-clock, and a fetch may or may not hit a given step.
- The Coordinator assumes weak fairness of its whole next-state relation, because every rank is a process of its own.

## 4. Proofs

Eight modules hold theorems, and all of them are checked with `tlapm`.

- **`ParamServerProofs`**
  - `TypeCorrect` proves `Spec => []TypeOK`.
  - `ExactlyOnceHolds` proves `Spec => []ExactlyOnce`.
  - ExactlyOnce is not inductive on its own. The proof uses `IInv == TypeOK /\ ThreadsIdleOutsideJoin /\ BusyHasIteration /\ ExactlyOnce`.
  - The added conjuncts say two things. A worker's shard threads are idle unless it is joining. A worker in an iteration has a gradient identity that is not yet sent.
  - Without them, a worker could in principle send the same identity twice.
  - There is one lemma per action, and each action proof has a step per conjunct it can disturb.
- **`ShardAssignerProofs`**
  - `ShardTypeCorrect`, `IInvHolds`, `SlotsAgreeHolds` and `BalancedHolds` are proved.
  - The inductive invariant adds `PlacedRanks`: parameter j is placed exactly when its rank is at most `done`. This is what makes the next parameter unplaced, so `Place` appends a fresh slot.
  - The lemmas cover:
    - rank injectivity, through the cardinality of nested sets;
    - that `[1..n -> S]` is a sequence of length n;
    - one step per action.
- **`CoordinatorProofs`**
  - `CoordTypeCorrect` proves `Spec => []TypeOK` for any sets of parameter servers and workers, in both variants. `TypeOK` is inductive on its own.
- **`LockstepRounds`**
  - The lemma `LockstepHolds` proves that the abstract specification keeps `finished[i] <= started[j]` for all workers i and j, with the strengthening `OneRoundOpen` (a worker has at most one round open). It is a lemma, not a result about the code. It is carried to the code by the two refinement theorems: `PsLockstep` in `ParamServerRoundProofs` and `RingLockstep` in `RingAllReduceProofs`.
- **`DataSplit`**
  - `LastPartShorter` holds for every dataset size L and every n > 1 workers. Every worker but the last gets exactly `n - L % n` more samples than the last, which is between 1 and n more.
  - So the split is never even, even when n divides L.
  - The proof goes through Python's floor-division identities (lemma `ShareIsQuotientPlusOne`), with the products split into separate steps for Z3.
- **`ParamServerRoundProofs`** (extends `ParamServerProofs`)
  - `WorkerSeesOwnStepHolds` proves `Spec => []WorkerSeesOwnStep` for any numbers of workers, shards and iterations, whether or not `set_sync_mode` is called.
  - The strengthening is `VInv == IInv /\ OwnPending /\ WorkerSeesOwnStep`. `OwnPending` says where a waiting thread's gradient is: in `param.grad` while its future is the current one, in the parameters once a later future exists. Without it a step of `ps_computing` could resolve a future whose gradient was never applied.
  - `PsImplementsLockstep` proves `Spec => ImplementsLockstep` under the hypothesis `SwitchModes = {}`. This is how `main()` runs: it never calls `set_sync_mode`.
  - The invariant `RInv` adds six facts to `IInv`:
    - every shard stays in mode 0;
    - optimizer step k of a shard applied round k of every worker;
    - a thread past `ps_computing` waits on the future of its own round;
    - no shard is behind a finished round;
    - a returned `rpc_sync` saw its round completed;
    - `param.grad` holds only the open round, and `sync_worker_count` is the cardinality of its senders.
  - The last fact is what makes the barrier (`count = ps_worker_num`) mean "every worker has sent". The proof goes through `FS_AddElement` and `FS_Subset` of `FiniteSetTheorems`.
  - The refinement has one lemma per kind of step. `Compute` maps to `Start`, the `JoinApply` that ends a round maps to `Finish`, and every other step is a stutter of `started`/`finished`.
  - `PsLockstep` proves `Spec => [](\A i, j : PsFinished[i] <= iter[j])` under `SwitchModes = {}`. No worker has copied back the parameters of a round another worker has not begun. It combines `PsImplementsLockstep` with the instantiated lemma `Lockstep!LockstepHolds` by PTL.
- **`RingAllReduceProofs`** (extends `RingAllReduce`)
  - `RingTypeCorrect`, `QueueBoundHolds`, `HandOffInOrderHolds`, `RingImplementsLockstep` and `RingLockstep` hold for every ring size N and every iteration counts.
  - The argument counts exchange items. Number the 2(N-1) exchange iterations of step s as `Pos(s, ph, ix)`.
    - `Puts(i)` is how many items worker i has put into its own `aggr_msg_q`.
    - `Gets(i)` is how many it has fetched from its predecessor's queue. Both are functions of `pc`, `step`, `ph` and `ix`.
  - The inductive invariant `RInv == TypeOK /\ InStep /\ QueueContents /\ PutsChain`:
    - `QueueContents`: the predecessor's queue holds exactly `Puts(Pred(i)) - Gets(i)` items. The k-th of them is the one of position `Gets(i) + k - 1`, and it carries the slice id the sender computed for it.
    - `PutsChain`: a worker has put at most d items more than the worker d places before it. It can only get ahead by fetching, and fetching needs the predecessor's puts.
    - `InStep` says a worker in the exchange is in a step of at least 1, on a ring of at least 2.
  - Why each theorem follows:
    - `QueueBound` follows from `Puts(i) <= Puts(i+1) + N - 1` and `Gets(i+1) >= Puts(i+1) - 1`.
    - `HandOffInOrder` follows because `Pos` is injective (`PosInjective`), together with the slice-id arithmetic of `send_slice_id`/`recv_slice_id`.
    - `RingLockstep` (`RingFinished[i] <= step[j]` for all i, j) follows from the refinement and `Lockstep!LockstepHolds`.
    - The refinement's `Finish` guard holds because a worker in `Update` has fetched `step * W` items. Its predecessors cannot have put them unless every worker has begun that step (`UpdateAfterAllStarted`).
  - Python's `%` on ids within one lap of the ring is handled by `ModVal`/`ModNear`, which replace `x % N` by `x`, `x + N` or `x - N`. The SMT solver cannot do general modular rewriting, so every id computation is split into these cases.
- **`RingAllReduceValueProofs`** (extends `RingAllReduceProofs`)
  - `AllReduceCorrectHolds` proves `Spec => []AllReduceCorrect` for every ring size N and every iteration counts. A worker that has run `optimizer.step` applied, in every slice, every worker's gradient exactly once.
  - A slice value counts each worker's contributions. Write `Dist(c, s) == (c - s) % N` and `Upto(i, d)` for the slice holding the gradients of worker i and the d workers before it, once each.
  - The inductive invariant is `VInv == RInv /\ SliceValues /\ QueueValues`.
    - `SliceValues` gives `grad_lists` of worker i at each loop position (`SliceAt`). In reduce-scatter iteration k, slice s holds `Upto(i, Dist(i, s))` when that distance is at most k, and i's own gradient otherwise. In all-gather iteration k, the slices with `Dist(i + 1, s) <= k` are fully reduced. After the loops every slice is reduced, and so is the applied gradient.
    - `QueueValues` says every queued item carries the slice of the iteration it was put in (`SentVal`).
  - `RInv` is needed because a worker's `get` must take the item of its own iteration. `HandOffInOrder`'s argument gives exactly that. Without `QueueValues` the value received could not be known. Without `SliceValues` the value sent could not be known.
  - The key lemma is `AddPred`: adding the own gradient to `Upto(Pred(i), k)` gives `Upto(i, k + 1)`. The slice ids reduce to distances through `IdDists`. `RecvIdAt` is at distance k + 1 from i in reduce-scatter, and that is the only slice the addition changes.
  - Each action has its own lemma. `ForwardEnd` starts the loops with the own gradient (`StartSlice`). `Put` and `Get` change the queues and slices. `Update` sets the applied gradient. The other steps change at most `pc` (`PcOnlyValues`, `QuietValues`).
  - TLC checked `VInv` as an invariant for N = 1 to 4 before the proof was written.
- **Assumptions:** the proofs rest only on the constant assumptions `ConstAssumption` (ParamServer), `ShardAssumption` (ShardAssigner) and `CoordAssumption` (Coordinator). TLC also evaluates all three on every run.

What is only model-checked:

- **Liveness.** `AllWorkersFinish`, `SyncRoundComplete`, `RunsLaunched` and `EndsRaisedOthersInShutdown` need ENABLED and fairness reasoning, which tlapm does not do.
- **`LPTBound`.** It is stated over `SumFunctionOnSet` (a recursive operator of the community modules) and a minimum over all assignments. The provers cannot do induction over data.
- **The PS refinement with mode switches.** This is not a gap in the proof: asynchronous mode does not refine lockstep, so `PsImplementsLockstep` states the hypothesis `SwitchModes = {}` that `main()` satisfies.

## 5. Findings

- `training_sgd.py:274` increments `step_num` once per contribution, not once per round as the spec says.
- `training_sgd.py:850` constructs the Tester with 15 arguments for 12 parameters. With the arity fixed, `__init__` would still raise at line 527: `LoggerConstructor` takes `logger_name` and `file_name`, not `job_name` and `file_path`, and has no `.logger` attribute.
- `training_sgd_allreduce.py:776-790`: `__main__` calls `main` with 12 arguments, but `main` declares 13 (`test_wrk_id` is missing). Every rank raises TypeError before `init_rpc`. The models take `main` as called with the arguments it declares, so that the code behind the call can be examined. No run shows this bug; it was found by reading the source.
- `training_sgd_allreduce.py:732` calls `set_ps_worker_rrefs_and_tester_rref`, but the ring Worker has only `set_wrk_rrefs_and_tester_rref`. This is latent behind the previous finding.
- `training_sgd_allreduce.py:244` (`get_model`) moves the model while `run_worker` computes outside `model_lock`.
- Both data splits give the last worker fewer batches, which stalls sync PS training (run `ps_short_partition`). In the ring the same early exit leaves the successors blocked in `get_gradient_slice`; it is listed as a hazard, not given a run of its own.

Both testers loop forever. So `wait_all` in either `main()` can only end by
raising. When it does, the manager exits without `rpc.shutdown`. `EndsRaisedOthersInShutdown`
checks that this is how both launch sequences end.

## 6. Not modelled

- **The PS tester's evaluation loop** (`Tester.test_model`, ps 538-656). The PS Tester's constructor always raises (finding 2), so this loop never runs. Even if it did, it reads `self.ps_num` and `self.ps_rrefs`, which that Tester never sets. A model of the loop would describe code that cannot execute. Its failing constructor and `get_stop_flag` are modelled.
- **The ring tester's evaluation** (all-reduce 441-537). Only its first `get_model` call and its death at `self.ps_rrefs` have effects on the other actors, and both are modelled.
- **What a raised manager leaves behind** (ps 881). After `wait_all` raises, the other ranks wait in `rpc.shutdown()` on torch's graceful-shutdown protocol, which is not part of this code.
- **Model construction, dataset loading and logging.** These are pure data or I/O.

## 7. Plan for later work

1. Done: the ring's `AllReduceCorrect` is proved for every N (`RingAllReduceValueProofs`).
2. Strengthen the abstract specification so that each round also applies the sum of all workers' gradients once. Both implementations would then be checked against the aggregated value.
