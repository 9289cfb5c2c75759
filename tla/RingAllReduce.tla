--------------------------- MODULE RingAllReduce ---------------------------
(***************************************************************************)
(* Ring allreduce training (src/new_models/all_reduce/                     *)
(* training_sgd_allreduce.py), Worker.run_worker and the RPCs it uses.     *)
(*                                                                         *)
(* Worker i (ring id i of 0..N-1) splits its gradient into N slices        *)
(* (grad_lists).  In each of N-1 reduce-scatter iterations it puts one     *)
(* slice into its own queue aggr_msg_q and fetches, with a blocking        *)
(* get_gradient_slice RPC, the next item of its predecessor's queue,       *)
(* adding it into one of its slices; N-1 all-gather iterations do the same *)
(* but overwrite the slice.  It then applies the gradient under            *)
(* model_lock and polls the tester's stop flag.                            *)
(*                                                                         *)
(* A slice's value is abstracted to the number of times each worker's      *)
(* gradient of the current step is summed into it, so the correct result   *)
(* of the allreduce is the vector of all ones.  Every queued item carries  *)
(* the step, phase and index it was sent in and the slice id, so that a    *)
(* slice delivered to the wrong iteration can be seen.                     *)
(***************************************************************************)
EXTENDS Integers, Sequences

CONSTANTS
  N,           \* wrk_num: the number of workers on the ring
  Iters,       \* Iters[i]: iterations worker i's loops run (epochs x batches)
  TestWrk,     \* test_wrk_id: the worker the tester fetches the model from
  MovesModel   \* get_model moves the model to the CPU and back (every model but "transformer")

ASSUME ConstAssumption ==
  /\ N \in Nat \ {0}
  /\ Iters \in [0..N-1 -> Nat]
  /\ TestWrk \in 0..N-1
  /\ MovesModel \in BOOLEAN

Ring == 0..N-1

\* pre_wrk_rref: the worker whose queue worker i reads.
Pred(i) == (i - 1) % N

\* A slice value: how often each worker's gradient is summed into it.
SliceVal == [Ring -> Nat]

\* The gradient of worker i before the exchange, in any slice.
Own(i) == [j \in Ring |-> IF j = i THEN 1 ELSE 0]

\* The fully reduced slice: every worker's gradient exactly once.
Reduced == [j \in Ring |-> 1]

\* Pointwise sum: grad_list_to_add[i] += recv_grad_slice[i].
AddSlice(a, b) == [j \in Ring |-> a[j] + b[j]]

Msg == [st : Nat, ph : {"rs", "ag"}, ix : Nat, sid : Ring, val : SliceVal]

VARIABLES
  pc,       \* pc[i]: where run_worker of worker i is
  ph,       \* ph[i]: the exchange loop being run, reduce-scatter or all-gather
  ix,       \* ix[i]: idx of that loop
  step,     \* step[i]: step_num (= iter_count)
  slices,   \* slices[i][s]: grad_lists[s] of worker i
  applied,  \* applied[i][s]: the gradient of slice s last applied by optimizer.step
  q,        \* q[i]: aggr_msg_q of worker i
  moved,    \* moved[i]: the tester moved i's model while its forward pass ran
  tpc       \* Tester.test_model: "run" before its first fetch, then "dead"

vars == <<pc, ph, ix, step, slices, applied, q, moved, tpc>>

TypeOK ==
  /\ pc \in [Ring -> {"compute", "fwd", "put", "get", "update", "poll", "done", "crashed"}]
  /\ ph \in [Ring -> {"rs", "ag"}]
  /\ ix \in [Ring -> {0} \cup 0..N-2]
  /\ step \in [Ring -> Nat]
  /\ slices \in [Ring -> [Ring -> SliceVal]]
  /\ applied \in [Ring -> [Ring -> SliceVal]]
  /\ q \in [Ring -> Seq(Msg)]
  /\ moved \in [Ring -> BOOLEAN]
  /\ tpc \in {"run", "dead"}

\* Mutant: the all-gather sends the slice of the reduce-scatter formula.
SendIdNoShift(i) == (i - ix[i]) % N

\* send_slice_id of the current exchange iteration.
SendId(i) == IF ph[i] = "rs" THEN (i - ix[i]) % N ELSE (i + 1 - ix[i]) % N

\* Mutant: the slice received is taken as the successor's.
RecvIdWrongWay(i) == (SendId(i) + 1) % N

\* recv_slice_id of the current exchange iteration.
RecvId(i) == (SendId(i) - 1) % N

\* Mutant: the exchange loops run range(ring_wrk_num) times.
LastIdxOffByOne == N - 1

\* The last idx of range(self.ring_wrk_num - 1).
LastIdx == N - 2

-----------------------------------------------------------------------------
\* Worker.__init__: empty queue, step_num 0, the same initial model everywhere.
Init ==
  /\ pc = [i \in Ring |-> "compute"]
  /\ ph = [i \in Ring |-> "rs"]
  /\ ix = [i \in Ring |-> 0]
  /\ step = [i \in Ring |-> 0]
  /\ slices = [i \in Ring |-> [s \in Ring |-> [j \in Ring |-> 0]]]
  /\ applied = [i \in Ring |-> [s \in Ring |-> [j \in Ring |-> 0]]]
  /\ q = [i \in Ring |-> <<>>]
  /\ moved = [i \in Ring |-> FALSE]
  /\ tpc = "run"

(* run_worker, next batch: step_num += 1, zero_grad and the forward pass    *)
(* start (outside model_lock).                                              *)
ForwardBegin(i) ==
  /\ pc[i] = "compute"
  /\ step[i] < Iters[i]
  /\ step' = [step EXCEPT ![i] = @ + 1]
  /\ pc' = [pc EXCEPT ![i] = "fwd"]
  /\ UNCHANGED <<ph, ix, slices, applied, q, moved, tpc>>

\* Mutant: the worker fetches its predecessor's slice before sending its own.
ForwardEndRecvFirst(i) ==
  /\ pc[i] = "fwd"
  /\ ~moved[i]
  /\ slices' = [slices EXCEPT ![i] = [s \in Ring |-> Own(i)]]
  /\ ph' = [ph EXCEPT ![i] = "rs"]
  /\ ix' = [ix EXCEPT ![i] = 0]
  /\ pc' = [pc EXCEPT ![i] = IF N = 1 THEN "update" ELSE "get"]
  /\ UNCHANGED <<step, applied, q, moved, tpc>>

(* The forward and backward passes end; grad_lists is filled from the      *)
(* gradients under model_lock and the exchange loops start (they are       *)
(* empty when N = 1).  If the tester moved the model to the CPU meanwhile, *)
(* the pass may have mixed devices and raised, and run_worker dies; it may *)
(* also have finished, depending on the layers already run.                *)
ForwardEnd(i) ==
  /\ pc[i] = "fwd"
  /\ \/ /\ moved[i]
        /\ pc' = [pc EXCEPT ![i] = "crashed"]
        /\ UNCHANGED <<ph, ix, slices, moved>>
     \/ /\ slices' = [slices EXCEPT ![i] = [s \in Ring |-> Own(i)]]
        /\ ph' = [ph EXCEPT ![i] = "rs"]
        /\ ix' = [ix EXCEPT ![i] = 0]
        /\ pc' = [pc EXCEPT ![i] = IF N = 1 THEN "update" ELSE "put"]
        /\ moved' = [moved EXCEPT ![i] = FALSE]
  /\ UNCHANGED <<step, applied, q, tpc>>

\* An exchange iteration, first half: aggr_msg_q.put(grad_lists[send_slice_id]).
Put(i) ==
  /\ pc[i] = "put"
  /\ q' = [q EXCEPT ![i] = Append(@, [st |-> step[i], ph |-> ph[i], ix |-> ix[i],
                                      sid |-> SendId(i),
                                      val |-> slices[i][SendId(i)]])]
  /\ pc' = [pc EXCEPT ![i] = "get"]
  /\ UNCHANGED <<ph, ix, step, slices, applied, moved, tpc>>

\* What an exchange iteration does with the slice it received.
Combine(i, v) == IF ph[i] = "rs" THEN AddSlice(slices[i][RecvId(i)], v) ELSE v

\* Mutant: get_gradient_slice reads the head of the queue without removing it.
GetPeek(i) ==
  /\ pc[i] = "get"
  /\ q[Pred(i)] # <<>>
  /\ slices' = [slices EXCEPT ![i][RecvId(i)] = Combine(i, Head(q[Pred(i)]).val)]
  /\ \/ /\ ix[i] < LastIdx
        /\ ix' = [ix EXCEPT ![i] = @ + 1]
        /\ pc' = [pc EXCEPT ![i] = "put"]
        /\ UNCHANGED ph
     \/ /\ ix[i] = LastIdx
        /\ ph[i] = "rs"
        /\ ph' = [ph EXCEPT ![i] = "ag"]
        /\ ix' = [ix EXCEPT ![i] = 0]
        /\ pc' = [pc EXCEPT ![i] = "put"]
     \/ /\ ix[i] = LastIdx
        /\ ph[i] = "ag"
        /\ pc' = [pc EXCEPT ![i] = "update"]
        /\ UNCHANGED <<ph, ix>>
  /\ UNCHANGED <<q, step, applied, moved, tpc>>

(* Second half: pre_wrk_rref.rpc_sync().get_gradient_slice() blocks in the   *)
(* predecessor's aggr_msg_q.get() until an item is there; the slice is added *)
(* into (reduce-scatter) or stored as (all-gather) grad_lists[recv_slice_id] *)
(* and the loop moves on.                                                    *)
Get(i) ==
  /\ pc[i] = "get"
  /\ q[Pred(i)] # <<>>
  /\ q' = [q EXCEPT ![Pred(i)] = Tail(@)]
  /\ slices' = [slices EXCEPT ![i][RecvId(i)] = Combine(i, Head(q[Pred(i)]).val)]
  /\ \/ /\ ix[i] < LastIdx
        /\ ix' = [ix EXCEPT ![i] = @ + 1]
        /\ pc' = [pc EXCEPT ![i] = "put"]
        /\ UNCHANGED ph
     \/ /\ ix[i] = LastIdx
        /\ ph[i] = "rs"
        /\ ph' = [ph EXCEPT ![i] = "ag"]
        /\ ix' = [ix EXCEPT ![i] = 0]
        /\ pc' = [pc EXCEPT ![i] = "put"]
     \/ /\ ix[i] = LastIdx
        /\ ph[i] = "ag"
        /\ pc' = [pc EXCEPT ![i] = "update"]
        /\ UNCHANGED <<ph, ix>>
  /\ UNCHANGED <<step, applied, moved, tpc>>

\* Under model_lock: param.grad = the exchanged slices; optimizer.step().
Update(i) ==
  /\ pc[i] = "update"
  /\ applied' = [applied EXCEPT ![i] = slices[i]]
  /\ pc' = [pc EXCEPT ![i] = "poll"]
  /\ UNCHANGED <<ph, ix, step, slices, q, moved, tpc>>

(* get_stop_flag: the tester never sets the flag, so the loops run until the *)
(* batches of every epoch are used up.                                       *)
PollStop(i) ==
  /\ pc[i] = "poll"
  /\ pc' = [pc EXCEPT ![i] = IF step[i] < Iters[i] THEN "compute" ELSE "done"]
  /\ UNCHANGED <<ph, ix, step, slices, applied, q, moved, tpc>>

(* Tester.test_model, first evaluation: get_model on worker TestWrk runs     *)
(* under model_lock and (but for "transformer") moves the worker's model to  *)
(* the CPU and back.  Evaluation then calls self.ps_rrefs[0], an attribute   *)
(* the all-reduce Tester does not have, and test_model dies.                 *)
TesterFetch ==
  /\ tpc = "run"
  /\ pc[TestWrk] # "update"
  /\ moved' = [moved EXCEPT ![TestWrk] = @ \/ (MovesModel /\ pc[TestWrk] = "fwd")]
  /\ tpc' = "dead"
  /\ UNCHANGED <<pc, ph, ix, step, slices, applied, q>>

\* main: the manager waits for the workers; nothing runs afterwards.
Finished ==
  /\ \A i \in Ring : pc[i] \in {"done", "crashed"}
  /\ UNCHANGED vars

Next ==
  \/ \E i \in Ring :
       ForwardBegin(i) \/ ForwardEnd(i) \/ Put(i) \/ Get(i) \/ Update(i) \/ PollStop(i)
  \/ TesterFetch
  \/ Finished

\* Every worker process keeps running while it can.  The tester's fetch is
\* timer-driven (every 40 s) and not assumed to happen.
Fairness ==
  \A i \in Ring :
    /\ WF_vars(ForwardBegin(i)) /\ WF_vars(ForwardEnd(i)) /\ WF_vars(Put(i))
    /\ WF_vars(Get(i)) /\ WF_vars(Update(i)) /\ WF_vars(PollStop(i))

Spec == Init /\ [][Next]_vars /\ Fairness

-----------------------------------------------------------------------------
(* The FIFO hand-off of aggr_msg_q: whenever worker i waits in               *)
(* get_gradient_slice and its predecessor's queue is not empty, the item it  *)
(* will receive was sent in the same step, loop and idx as i is in, and is   *)
(* the slice recv_slice_id i will add it to.  Nothing pairs the two workers' *)
(* iterations but the order of the queue.                                    *)
HandOffInOrder ==
  \A i \in Ring :
    (pc[i] = "get" /\ q[Pred(i)] # <<>>) =>
      LET m == Head(q[Pred(i)]) IN
        /\ m.st = step[i]
        /\ m.ph = ph[i]
        /\ m.ix = ix[i]
        /\ m.sid = RecvId(i)

(* The allreduce is correct: the gradient each worker applies in            *)
(* optimizer.step holds, in every slice, every worker's gradient of that     *)
(* step exactly once.                                                        *)
AllReduceCorrect ==
  \A i \in Ring : pc[i] \in {"poll", "done"} => applied[i] = [s \in Ring |-> Reduced]

(* aggr_msg_q is an unbounded queue.Queue, but it never holds more than N   *)
(* items: a worker can run ahead of its successor only by the items the      *)
(* successor has still to fetch, and it is itself held back by its           *)
(* predecessor.                                                              *)
QueueBound == \A i \in Ring : Len(q[i]) <= N

(* Every worker runs all its iterations: no worker blocks for ever in        *)
(* get_gradient_slice and none dies.                                         *)
AllWorkersFinish == <>(\A i \in Ring : pc[i] = "done")

(* Refinement mapping to LockstepRounds: a worker has finished every round  *)
(* it started except the one it is in between forward and optimizer.step    *)
(* (or died in).                                                            *)
RingFinished ==
  [i \in Ring |-> IF pc[i] \in {"fwd", "put", "get", "update", "crashed"}
                  THEN step[i] - 1 ELSE step[i]]

Lockstep == INSTANCE LockstepRounds WITH Procs <- Ring, started <- step, finished <- RingFinished

(* The ring all-reduce implements lockstep rounds: a worker reaches         *)
(* optimizer.step of round k only after every worker has put its round-k    *)
(* slices on its queue, although nothing but the queues' order pairs the    *)
(* rounds of neighbours.                                                    *)
ImplementsLockstep == Lockstep!Spec

=============================================================================
