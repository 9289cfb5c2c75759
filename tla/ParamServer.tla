---------------------------- MODULE ParamServer ----------------------------
(***************************************************************************)
(* Parameter-server training (src/new_models/ps/training_sgd.py).          *)
(*                                                                         *)
(* Shards: one ParameterServer per shard p.  Its RPC handler ps_computing  *)
(* runs wholly under sync_lock: it accumulates the worker's gradient into  *)
(* param.grad, counts the contributor, takes the current future ft, and,   *)
(* when the barrier condition holds, steps the optimizer, clears the       *)
(* gradient, resets the counter, resolves ft and swaps in a fresh future.  *)
(* It returns ft (async_execution), so the caller's rpc_sync blocks until  *)
(* ft is resolved.                                                         *)
(*                                                                         *)
(* Workers: run_worker computes a gradient per iteration, starts one       *)
(* thread per shard (run_ps_computing), joins them, copies the returned    *)
(* shard parameters into its model and polls the tester's stop flag.      *)
(*                                                                         *)
(* Data is abstracted to identities: the gradient worker w produces in its *)
(* k-th iteration is <<w, k>>; a shard's parameters are the set of         *)
(* gradients the optimizer has applied to them; param.grad is the set      *)
(* accumulated since the last step ({} stands for None).  Future number f  *)
(* of shard p is the one created after f optimizer steps, so it is         *)
(* resolved exactly when fut[p] > f.                                       *)
(***************************************************************************)
EXTENDS Naturals, FiniteSets

CONSTANTS
  Workers,      \* worker ids 0..worker_num-1 (model values)
  Shards,       \* ps ids 0..ps_num-1 (model values)
  Iters,        \* Iters[w]: iterations worker w's loops run (epochs x batches)
  SwitchModes,  \* modes a caller may pass to set_sync_mode ({} : never called)
  TesterUp      \* whether the tester actor was constructed, so get_stop_flag answers

ASSUME ConstAssumption ==
  /\ Workers # {} /\ IsFiniteSet(Workers)
  /\ Shards # {}
  /\ Iters \in [Workers -> Nat]
  /\ SwitchModes \subseteq {0, 1}
  /\ TesterUp \in BOOLEAN

\* worker_num: the barrier size of a synchronous round.
WorkerNum == Cardinality(Workers)

\* The gradient identities.
Contrib == Workers \X Nat

VARIABLES
  \* --- Worker state ---
  wpc,       \* wpc[w]: where run_worker is
  iter,      \* iter[w]: iter_count, the iterations started
  thr,       \* thr[w][p]: state of w's run_ps_computing thread for shard p
  ftOf,      \* ftOf[w][p]: the future that thread's rpc_sync waits on
  plist,     \* plist[w][p]: param_lists[p], the shard parameters w received
  model,     \* model[w][p]: w's model parameters of shard p
  \* --- ParameterServer state ---
  syncMode,  \* syncMode[p]: self.sync_mode
  count,     \* count[p]: self.sync_worker_count
  stepNum,   \* stepNum[p]: self.step_num
  grad,      \* grad[p]: param.grad of the shard's parameters
  params,    \* params[p]: self.ps_params
  fut        \* fut[p]: number of the current self.ps_comp_future

workerVars == <<wpc, iter, thr, ftOf, plist, model>>
psVars == <<syncMode, count, stepNum, grad, params, fut>>
vars == <<workerVars, psVars>>

WorkerPc == {"compute", "join", "poll", "done", "crashed"}
ThreadState == {"idle", "calling", "waiting", "got"}

TypeOK ==
  /\ wpc \in [Workers -> WorkerPc]
  /\ iter \in [Workers -> Nat]
  /\ thr \in [Workers -> [Shards -> ThreadState]]
  /\ ftOf \in [Workers -> [Shards -> Nat]]
  /\ plist \in [Workers -> [Shards -> SUBSET Contrib]]
  /\ model \in [Workers -> [Shards -> SUBSET Contrib]]
  /\ syncMode \in [Shards -> {0, 1}]
  /\ count \in [Shards -> Nat]
  /\ stepNum \in [Shards -> Nat]
  /\ grad \in [Shards -> SUBSET Contrib]
  /\ params \in [Shards -> SUBSET Contrib]
  /\ fut \in [Shards -> Nat]

-----------------------------------------------------------------------------
\* Worker.__init__: no iteration run; every copy of the parameters is the
\* same initial model, the empty set of applied gradients.
WorkerInit ==
  /\ wpc = [w \in Workers |-> "compute"]
  /\ iter = [w \in Workers |-> 0]
  /\ thr = [w \in Workers |-> [p \in Shards |-> "idle"]]
  /\ ftOf = [w \in Workers |-> [p \in Shards |-> 0]]
  /\ plist = [w \in Workers |-> [p \in Shards |-> {}]]
  /\ model = [w \in Workers |-> [p \in Shards |-> {}]]

\* ParameterServer.__init__: a fresh future, sync_mode 0, sync_worker_count
\* and step_num 0, param.grad None.
PsInit ==
  /\ syncMode = [p \in Shards |-> 0]
  /\ count = [p \in Shards |-> 0]
  /\ stepNum = [p \in Shards |-> 0]
  /\ grad = [p \in Shards |-> {}]
  /\ params = [p \in Shards |-> {}]
  /\ fut = [p \in Shards |-> 0]

\* main has built every parameter server and worker before training starts.
Init == WorkerInit /\ PsInit

-----------------------------------------------------------------------------
(* run_worker, one loop body up to the fan-out: take the next batch, compute *)
(* the gradient, write it into grad_lists, start one thread per shard.       *)
Compute(w) ==
  /\ wpc[w] = "compute"
  /\ iter[w] < Iters[w]
  /\ iter' = [iter EXCEPT ![w] = @ + 1]
  /\ thr' = [thr EXCEPT ![w] = [p \in Shards |-> "calling"]]
  /\ wpc' = [wpc EXCEPT ![w] = "join"]
  /\ UNCHANGED <<ftOf, plist, model, psVars>>

\* Mutant: the barrier releases one contributor early.
TriggerOffByOne(p, cnt) == syncMode[p] = 1 \/ cnt >= WorkerNum - 1

\* The barrier condition of ps_computing once cnt workers have contributed.
Trigger(p, cnt) == syncMode[p] = 1 \/ cnt >= WorkerNum

(* ParameterServer.ps_computing for worker w's gradient, atomic under       *)
(* sync_lock: step_num += 1, accumulate into param.grad, count the          *)
(* contributor, ft = the current future; on the barrier condition step the  *)
(* optimizer, set param.grad back to None, reset the counter, resolve ft    *)
(* and create the next future.  The caller keeps ft: handed is its number,  *)
(* accum the accumulated gradient and left param.grad after a step.         *)
PsCompute(w, p, handed, accum, left) ==
  LET cnt == count[p] + 1 IN
  /\ thr[w][p] = "calling"
  /\ stepNum' = [stepNum EXCEPT ![p] = @ + 1]
  /\ ftOf' = [ftOf EXCEPT ![w][p] = handed]
  /\ thr' = [thr EXCEPT ![w][p] = "waiting"]
  /\ \/ /\ ~Trigger(p, cnt)
        /\ grad' = [grad EXCEPT ![p] = accum]
        /\ count' = [count EXCEPT ![p] = cnt]
        /\ UNCHANGED <<params, fut>>
     \/ /\ Trigger(p, cnt)
        /\ params' = [params EXCEPT ![p] = @ \cup accum]
        /\ grad' = [grad EXCEPT ![p] = left]
        /\ count' = [count EXCEPT ![p] = 0]
        /\ fut' = [fut EXCEPT ![p] = @ + 1]
  /\ UNCHANGED <<wpc, iter, plist, model, syncMode>>

\* param.grad after w's gradient is added (None counts as zero).
Accumulated(w, p) == grad[p] \cup {<<w, iter[w]>>}

\* Mutant: hands back the future of the previous round.
PsComputingPrevFuture(w, p) ==
  PsCompute(w, p, fut[p] - 1, Accumulated(w, p), {})

\* Mutant: the loop setting param.grad = None after the step is missing.
PsComputingKeepGrad(w, p) ==
  PsCompute(w, p, fut[p], Accumulated(w, p), Accumulated(w, p))

\* Mutant: ft is read after self.ps_comp_future has been replaced.
PsComputingLateFuture(w, p) ==
  PsCompute(w, p, IF Trigger(p, count[p] + 1) THEN fut[p] + 1 ELSE fut[p],
            Accumulated(w, p), {})

\* ps_computing as the code has it.
PsComputing(w, p) ==
  PsCompute(w, p, fut[p], Accumulated(w, p), {})

\* Mutant: run_ps_computing does not wait for the future to be resolved.
ReceiveEarly(w, p) ==
  /\ thr[w][p] = "waiting"
  /\ plist' = [plist EXCEPT ![w][p] = params[p]]
  /\ thr' = [thr EXCEPT ![w][p] = "got"]
  /\ UNCHANGED <<wpc, iter, ftOf, model, psVars>>

(* run_ps_computing after ps_computing: rpc_sync returns once the future is *)
(* resolved; the reply carries self.ps_params, a reference to the live      *)
(* parameters, serialised when the reply is sent.  It is stored into        *)
(* param_lists[ps_id].                                                      *)
Receive(w, p) ==
  /\ thr[w][p] = "waiting"
  /\ ftOf[w][p] < fut[p]
  /\ plist' = [plist EXCEPT ![w][p] = params[p]]
  /\ thr' = [thr EXCEPT ![w][p] = "got"]
  /\ UNCHANGED <<wpc, iter, ftOf, model, psVars>>

(* run_worker after the fan-out: join every thread, then copy each          *)
(* parameter from param_lists into the model.                               *)
JoinApply(w) ==
  /\ wpc[w] = "join"
  /\ \A p \in Shards : thr[w][p] = "got"
  /\ model' = [model EXCEPT ![w] = plist[w]]
  /\ thr' = [thr EXCEPT ![w] = [p \in Shards |-> "idle"]]
  /\ wpc' = [wpc EXCEPT ![w] = "poll"]
  /\ UNCHANGED <<iter, ftOf, plist, psVars>>

(* run_worker, end of the loop body: get_stop_flag from the tester.  The    *)
(* tester never sets the flag (its stop code is commented out), so the      *)
(* loops go on until the batches of every epoch are used up.  If the        *)
(* tester was never constructed the call raises and run_worker dies.       *)
PollStop(w) ==
  /\ wpc[w] = "poll"
  /\ wpc' = [wpc EXCEPT ![w] =
               IF ~TesterUp THEN "crashed"
               ELSE IF iter[w] < Iters[w] THEN "compute" ELSE "done"]
  /\ UNCHANGED <<iter, thr, ftOf, plist, model, psVars>>

\* ParameterServer.set_sync_mode: a plain write, outside sync_lock.
SetSyncMode(p, m) ==
  /\ syncMode' = [syncMode EXCEPT ![p] = m]
  /\ UNCHANGED <<workerVars, count, stepNum, grad, params, fut>>

\* main: the manager waits for every worker; nothing runs afterwards.
Finished ==
  /\ \A w \in Workers : wpc[w] \in {"done", "crashed"}
  /\ UNCHANGED vars

Next ==
  \/ \E w \in Workers : Compute(w) \/ JoinApply(w) \/ PollStop(w)
  \/ \E w \in Workers, p \in Shards : PsComputing(w, p) \/ Receive(w, p)
  \/ \E p \in Shards, m \in SwitchModes : SetSyncMode(p, m)
  \/ Finished

\* Every worker process, its threads and the shards' RPC handlers keep
\* running while they can; set_sync_mode is an external call, not fair.
Fairness ==
  /\ \A w \in Workers : WF_vars(Compute(w)) /\ WF_vars(JoinApply(w)) /\ WF_vars(PollStop(w))
  /\ \A w \in Workers, p \in Shards : WF_vars(PsComputing(w, p)) /\ WF_vars(Receive(w, p))

Spec == Init /\ [][Next]_vars /\ Fairness

-----------------------------------------------------------------------------
(***************************************************************************)
(* Properties.                                                             *)
(***************************************************************************)

\* Gradient <<w, k>> has reached shard p: worker w has started iteration k,
\* and, if k is its current one, its thread's call to p is no longer on the way.
Sent(w, k, p) ==
  /\ k \in 1..iter[w]
  /\ k < iter[w] \/ thr[w][p] # "calling"

(* Every gradient a worker sends to a shard is applied by the optimizer     *)
(* exactly once: it is either still accumulated in param.grad or already   *)
(* in the parameters, never both; nothing is there that was not sent, and  *)
(* nothing sent is lost when ps_computing clears param.grad and swaps the  *)
(* future.                                                                 *)
ExactlyOnce ==
  \A p \in Shards :
    /\ grad[p] \cap params[p] = {}
    /\ \A c \in grad[p] \cup params[p] : Sent(c[1], c[2], p)
    /\ \A w \in Workers : \A k \in 1..iter[w] :
         Sent(w, k, p) => <<w, k>> \in grad[p] \cup params[p]

(* A worker never receives a stale snapshot: once its rpc_sync to a shard  *)
(* returns, and after it copies the parameters into its model, they        *)
(* already include the gradient it has just sent (the future it waited on  *)
(* was the one created before its own contribution could trigger a step).  *)
WorkerSeesOwnStep ==
  \A w \in Workers, p \in Shards :
    /\ thr[w][p] = "got" => <<w, iter[w]>> \in plist[w][p]
    /\ wpc[w] = "poll" => <<w, iter[w]>> \in model[w][p]

\* The gradients one optimizer step of shard p applies.
Applied(p) == params'[p] \ params[p]

(* In synchronous mode (sync_mode 0) an optimizer step of a shard applies  *)
(* exactly worker_num gradients, one from each worker: the barrier waits   *)
(* for every worker and no worker is counted twice in a round.            *)
SyncRoundComplete ==
  [][\A p \in Shards :
       (fut'[p] # fut[p] /\ syncMode[p] = 0) =>
         /\ Cardinality(Applied(p)) = WorkerNum
         /\ {c[1] : c \in Applied(p)} = Workers]_vars

(* step_num counts completed aggregation rounds (spec 3: incremented once  *)
(* per round, read by the tester as the training step).                    *)
StepNumCountsRounds ==
  \A p \in Shards : stepNum[p] = fut[p]

(* Training ends: every worker eventually runs all its iterations and       *)
(* leaves run_worker normally, so the manager's wait_all returns.          *)
AllWorkersFinish ==
  <>(\A w \in Workers : wpc[w] = "done")

(* Refinement mapping to LockstepRounds: a worker has started iter_count    *)
(* rounds and finished them all but the one it is joining.                  *)
PsFinished == [w \in Workers |-> IF wpc[w] = "join" THEN iter[w] - 1 ELSE iter[w]]

Lockstep == INSTANCE LockstepRounds WITH Procs <- Workers, started <- iter, finished <- PsFinished

(* Synchronous parameter-server training implements lockstep rounds: no     *)
(* worker copies the parameters of round k back (JoinApply) before every    *)
(* worker has sent its round-k gradient to every shard, so no worker ever   *)
(* gets a round ahead of another.  It rests on the barrier of ps_computing  *)
(* on every shard and on the threads' rpc_sync waiting for the right future. *)
ImplementsLockstep == Lockstep!Spec

=============================================================================
