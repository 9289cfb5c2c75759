------------------------- MODULE ParamServerProofs -------------------------
(***************************************************************************)
(* Proofs about ParamServer that hold for every number of workers, shards  *)
(* and iterations.                                                         *)
(***************************************************************************)
EXTENDS ParamServer, TLAPS

-----------------------------------------------------------------------------
(* The strengthening of ExactlyOnce.  A worker's threads are idle except    *)
(* between the fan-out and the join, and a thread that is busy belongs to   *)
(* an iteration that has started.                                           *)
ThreadsIdleOutsideJoin ==
  \A w \in Workers : wpc[w] # "join" => \A p \in Shards : thr[w][p] = "idle"

BusyHasIteration ==
  \A w \in Workers, p \in Shards : thr[w][p] # "idle" => iter[w] >= 1

IInv == TypeOK /\ ThreadsIdleOutsideJoin /\ BusyHasIteration /\ ExactlyOnce

-----------------------------------------------------------------------------
(* Type correctness: every variable of the workers and the parameter       *)
(* servers keeps its type under every handler of training_sgd.py.          *)
LEMMA TypeStep == TypeOK /\ [Next]_vars => TypeOK'
  <2> SUFFICES ASSUME TypeOK, [Next]_vars PROVE TypeOK'
    OBVIOUS
  <2>1. ASSUME NEW w \in Workers, Compute(w) PROVE TypeOK'
    BY <2>1 DEF Compute, TypeOK, psVars, WorkerPc, ThreadState
  <2>2. ASSUME NEW w \in Workers, JoinApply(w) PROVE TypeOK'
    BY <2>2 DEF JoinApply, TypeOK, psVars, WorkerPc, ThreadState
  <2>3. ASSUME NEW w \in Workers, PollStop(w) PROVE TypeOK'
    BY <2>3 DEF PollStop, TypeOK, psVars, WorkerPc
  <2>4. ASSUME NEW w \in Workers, NEW p \in Shards, PsComputing(w, p) PROVE TypeOK'
    <3>1. Accumulated(w, p) \in SUBSET Contrib
      BY DEF Accumulated, TypeOK, Contrib
    <3>2. /\ stepNum' \in [Shards -> Nat]
          /\ ftOf' \in [Workers -> [Shards -> Nat]]
          /\ thr' \in [Workers -> [Shards -> ThreadState]]
      BY <2>4 DEF PsComputing, PsCompute, TypeOK, ThreadState
    <3>3. /\ grad' \in [Shards -> SUBSET Contrib]
          /\ count' \in [Shards -> Nat]
          /\ params' \in [Shards -> SUBSET Contrib]
          /\ fut' \in [Shards -> Nat]
      <4> DEFINE cnt == count[p] + 1
      <4>1. CASE ~Trigger(p, cnt)
        <5>1. /\ grad' = [grad EXCEPT ![p] = Accumulated(w, p)]
              /\ count' = [count EXCEPT ![p] = cnt]
              /\ UNCHANGED <<params, fut>>
          BY <2>4, <4>1 DEF PsComputing, PsCompute
        <5>2. QED
          BY <5>1, <3>1 DEF TypeOK
      <4>2. CASE Trigger(p, cnt)
        <5>1. /\ params' = [params EXCEPT ![p] = @ \cup Accumulated(w, p)]
              /\ grad' = [grad EXCEPT ![p] = {}]
              /\ count' = [count EXCEPT ![p] = 0]
              /\ fut' = [fut EXCEPT ![p] = @ + 1]
          BY <2>4, <4>2 DEF PsComputing, PsCompute
        <5>2. QED
          BY <5>1, <3>1 DEF TypeOK
      <4>3. QED
        BY <4>1, <4>2
    <3>4. UNCHANGED <<wpc, iter, plist, model, syncMode>>
      BY <2>4 DEF PsComputing, PsCompute
    <3>5. QED
      BY <3>2, <3>3, <3>4 DEF TypeOK
  <2>5. ASSUME NEW w \in Workers, NEW p \in Shards, Receive(w, p) PROVE TypeOK'
    BY <2>5 DEF Receive, TypeOK, psVars, ThreadState
  <2>6. ASSUME NEW p \in Shards, NEW m \in SwitchModes, SetSyncMode(p, m) PROVE TypeOK'
    BY <2>6, ConstAssumption DEF SetSyncMode, TypeOK, workerVars
  <2>7. CASE Finished
    BY <2>7 DEF Finished, TypeOK, vars, workerVars, psVars
  <2>8. CASE UNCHANGED vars
    BY <2>8 DEF TypeOK, vars, workerVars, psVars
  <2>9. QED
    BY <2>1, <2>2, <2>3, <2>4, <2>5, <2>6, <2>7, <2>8 DEF Next

THEOREM TypeCorrect == Spec => []TypeOK
<1>1. Init => TypeOK
  BY DEF Init, WorkerInit, PsInit, TypeOK, WorkerPc, ThreadState
<1>2. QED
  BY <1>1, TypeStep, PTL DEF Spec

-----------------------------------------------------------------------------
(* The steps that preserve the strengthening, one lemma per action.         *)

\* A step that leaves the iterations, the gradients and the parameters alone
\* and moves no thread into or out of "calling" keeps ExactlyOnce.
LEMMA ExactlyOnceFrame ==
  ASSUME TypeOK, ExactlyOnce,
         thr' \in [Workers -> [Shards -> ThreadState]],
         UNCHANGED <<iter, grad, params>>,
         \A v \in Workers, q \in Shards :
           (thr'[v][q] = "calling") <=> (thr[v][q] = "calling")
  PROVE  ExactlyOnce'
<1>1. \A v \in Workers, k \in Nat, q \in Shards : Sent(v, k, q)' <=> Sent(v, k, q)
  BY DEF Sent
<1>2. QED
  BY <1>1 DEF ExactlyOnce, TypeOK, Contrib

LEMMA ComputeStep ==
  ASSUME IInv, NEW w \in Workers, Compute(w)
  PROVE  (ThreadsIdleOutsideJoin /\ BusyHasIteration /\ ExactlyOnce)'
<1> USE DEF IInv, TypeOK
<1>1. ThreadsIdleOutsideJoin'
  BY DEF Compute, ThreadsIdleOutsideJoin
<1>2. BusyHasIteration'
  BY DEF Compute, BusyHasIteration
<1>3. ASSUME NEW q \in Shards PROVE ExactlyOnce!(q)'
  <2>1. UNCHANGED <<grad[q], params[q]>>
    BY DEF Compute, psVars
  <2>2. ASSUME NEW c \in grad[q] \cup params[q] PROVE Sent(c[1], c[2], q)'
    <3>1. Sent(c[1], c[2], q)
      BY DEF ExactlyOnce
    <3>2. c[1] \in Workers /\ c[2] \in Nat
      BY DEF Contrib
    <3>3. QED
      BY <2>1, <3>1, <3>2 DEF Compute, Sent
  <2>3. ASSUME NEW v \in Workers, NEW k \in 1..iter'[v], Sent(v, k, q)'
        PROVE <<v, k>> \in grad'[q] \cup params'[q]
    <3>1. Sent(v, k, q)
      <4>1. CASE v = w
        <5>1. iter'[w] = iter[w] + 1 /\ thr'[w][q] = "calling"
          BY DEF Compute
        <5>2. k < iter'[w]
          BY <2>3, <4>1, <5>1 DEF Sent
        <5>3. thr[w][q] = "idle"
          BY DEF Compute, ThreadsIdleOutsideJoin
        <5>4. k \in 1..iter[w]
          BY <5>1, <5>2
        <5>5. QED
          BY <4>1, <5>3, <5>4 DEF Sent
      <4>2. CASE v # w
        BY <2>3, <4>2 DEF Compute, Sent
      <4>3. QED
        BY <4>1, <4>2
    <3>2. k \in 1..iter[v]
      BY <3>1 DEF Sent
    <3>3. QED
      BY <2>1, <3>1, <3>2 DEF ExactlyOnce
  <2>4. QED
    BY <2>1, <2>2, <2>3 DEF ExactlyOnce
<1>4. QED
  BY <1>1, <1>2, <1>3 DEF ExactlyOnce

LEMMA PsComputingStep ==
  ASSUME IInv, NEW w \in Workers, NEW p \in Shards, PsComputing(w, p)
  PROVE  (ThreadsIdleOutsideJoin /\ BusyHasIteration /\ ExactlyOnce)'
<1>0. TypeOK /\ ThreadsIdleOutsideJoin /\ BusyHasIteration /\ ExactlyOnce
  BY DEF IInv
<1> DEFINE g == <<w, iter[w]>>
           cnt == count[p] + 1
<1>1. /\ thr[w][p] = "calling"
      /\ thr' = [thr EXCEPT ![w][p] = "waiting"]
      /\ UNCHANGED <<wpc, iter>>
  BY DEF PsComputing, PsCompute
<1>2. wpc[w] = "join" /\ iter[w] >= 1 /\ iter[w] \in Nat
  BY <1>0, <1>1 DEF ThreadsIdleOutsideJoin, BusyHasIteration, TypeOK
<1>3. ThreadsIdleOutsideJoin'
  BY <1>0, <1>1, <1>2 DEF ThreadsIdleOutsideJoin, TypeOK
<1>4. BusyHasIteration'
  BY <1>0, <1>1, <1>2 DEF BusyHasIteration, TypeOK
<1>5. \A v \in Workers, k \in Nat, q \in Shards :
        Sent(v, k, q)' <=> (Sent(v, k, q) \/ (v = w /\ k = iter[w] /\ q = p))
  <2> TAKE v \in Workers, k \in Nat, q \in Shards
  <2>1. CASE v = w /\ q = p
    <3>1. thr'[v][q] = "waiting"
      BY <1>0, <1>1, <2>1 DEF TypeOK
    <3>2. iter'[v] = iter[v] /\ thr[v][q] = "calling" /\ iter[v] \in Nat /\ iter[v] >= 1
      BY <1>1, <1>2, <2>1
    <3>3. Sent(v, k, q)' <=> k \in 1..iter[v]
      BY <3>1, <3>2 DEF Sent
    <3>4. Sent(v, k, q) <=> k \in 1..iter[v] /\ k < iter[v]
      BY <3>2 DEF Sent
    <3>5. QED
      BY <3>2, <3>3, <3>4, <2>1
  <2>2. CASE ~(v = w /\ q = p)
    <3>1. thr'[v][q] = thr[v][q]
      BY <1>0, <1>1, <2>2 DEF TypeOK
    <3>2. QED
      BY <1>1, <2>2, <3>1 DEF Sent
  <2>3. QED
    BY <2>1, <2>2
<1>6. g \notin grad[p] \cup params[p]
  <2>1. ~Sent(w, iter[w], p)
    BY <1>1 DEF Sent
  <2>2. QED
    BY <1>0, <2>1 DEF ExactlyOnce
<1>7. ASSUME NEW q \in Shards, q # p PROVE ExactlyOnce!(q)'
  <2>1. grad'[q] = grad[q] /\ params'[q] = params[q]
    BY <1>0, <1>7 DEF PsComputing, PsCompute, TypeOK
  <2>2. ASSUME NEW c \in grad[q] \cup params[q] PROVE Sent(c[1], c[2], q)'
    <3>1. c[1] \in Workers /\ c[2] \in Nat
      BY <1>0 DEF TypeOK, Contrib
    <3>2. QED
      BY <1>0, <1>5, <1>7, <2>1, <3>1 DEF ExactlyOnce
  <2>3. ASSUME NEW v \in Workers, NEW k \in 1..iter'[v], Sent(v, k, q)'
        PROVE <<v, k>> \in grad'[q] \cup params'[q]
    <3>1. k \in Nat
      BY <1>1, <1>0 DEF TypeOK
    <3>2. Sent(v, k, q)
      BY <1>5, <1>7, <2>3, <3>1
    <3>3. k \in 1..iter[v]
      BY <3>2 DEF Sent
    <3>4. QED
      BY <1>0, <2>1, <3>2, <3>3 DEF ExactlyOnce
  <2>4. grad[q] \cap params[q] = {}
    BY <1>0 DEF ExactlyOnce
  <2>5. QED
    BY <2>1, <2>2, <2>3, <2>4
<1>8. ExactlyOnce!(p)'
  <2>1. /\ grad'[p] \cap params'[p] = {}
        /\ grad'[p] \cup params'[p] = grad[p] \cup params[p] \cup {g}
    <3>1. CASE ~Trigger(p, cnt)
      <4>1. grad' = [grad EXCEPT ![p] = grad[p] \cup {g}] /\ params' = params
        BY <3>1 DEF PsComputing, PsCompute, Accumulated
      <4>2. grad'[p] = grad[p] \cup {g} /\ params'[p] = params[p]
        BY <1>0, <4>1 DEF TypeOK
      <4>3. grad[p] \cap params[p] = {}
        BY <1>0 DEF ExactlyOnce
      <4>4. QED
        BY <4>2, <4>3, <1>6, Zenon
    <3>2. CASE Trigger(p, cnt)
      <4>1. /\ params' = [params EXCEPT ![p] = params[p] \cup (grad[p] \cup {g})]
            /\ grad' = [grad EXCEPT ![p] = {}]
        BY <3>2 DEF PsComputing, PsCompute, Accumulated
      <4>2. params'[p] = params[p] \cup (grad[p] \cup {g}) /\ grad'[p] = {}
        BY <1>0, <4>1 DEF TypeOK
      <4>3. QED
        BY <4>2, Zenon
    <3>3. QED
      BY <3>1, <3>2
  <2>2. ASSUME NEW c \in grad'[p] \cup params'[p] PROVE Sent(c[1], c[2], p)'
    <3>1. CASE c = g
      BY <3>1, <1>2, <1>5
    <3>2. CASE c # g
      <4>1. c \in grad[p] \cup params[p]
        BY <2>1, <3>2
      <4>2. c[1] \in Workers /\ c[2] \in Nat
        BY <1>0, <4>1 DEF TypeOK, Contrib
      <4>3. QED
        BY <1>0, <4>1, <4>2, <1>5 DEF ExactlyOnce
    <3>3. QED
      BY <3>1, <3>2
  <2>3. ASSUME NEW v \in Workers, NEW k \in 1..iter'[v], Sent(v, k, p)'
        PROVE <<v, k>> \in grad'[p] \cup params'[p]
    <3>1. CASE v = w /\ k = iter[w]
      BY <3>1, <2>1
    <3>2. CASE ~(v = w /\ k = iter[w])
      <4>1. k \in Nat
        BY <1>0, <1>1 DEF TypeOK
      <4>2. Sent(v, k, p)
        BY <3>2, <2>3, <1>5, <4>1
      <4>3. k \in 1..iter[v]
        BY <4>2 DEF Sent
      <4>4. QED
        BY <1>0, <4>2, <4>3, <2>1 DEF ExactlyOnce
    <3>3. QED
      BY <3>1, <3>2
  <2>4. QED
    BY <2>1, <2>2, <2>3 DEF ExactlyOnce
<1>9. QED
  BY <1>3, <1>4, <1>7, <1>8 DEF ExactlyOnce

LEMMA ReceiveStep ==
  ASSUME IInv, NEW w \in Workers, NEW p \in Shards, Receive(w, p)
  PROVE  (ThreadsIdleOutsideJoin /\ BusyHasIteration /\ ExactlyOnce)'
<1>0. TypeOK /\ ThreadsIdleOutsideJoin /\ BusyHasIteration /\ ExactlyOnce
  BY DEF IInv
<1>1. /\ thr[w][p] = "waiting"
      /\ thr' = [thr EXCEPT ![w][p] = "got"]
      /\ UNCHANGED <<wpc, iter, grad, params>>
  BY DEF Receive, psVars
<1>2. wpc[w] = "join"
  BY <1>0, <1>1 DEF ThreadsIdleOutsideJoin
<1>3. thr' \in [Workers -> [Shards -> ThreadState]]
  BY <1>0, <1>1 DEF TypeOK, ThreadState
<1>4. \A v \in Workers, q \in Shards :
        /\ (thr'[v][q] = "calling") <=> (thr[v][q] = "calling")
        /\ (thr'[v][q] # "idle") <=> (thr[v][q] # "idle")
  BY <1>0, <1>1 DEF TypeOK
<1>5. QED
  BY <1>0, <1>1, <1>2, <1>3, <1>4, ExactlyOnceFrame
     DEF ThreadsIdleOutsideJoin, BusyHasIteration

LEMMA JoinApplyStep ==
  ASSUME IInv, NEW w \in Workers, JoinApply(w)
  PROVE  (ThreadsIdleOutsideJoin /\ BusyHasIteration /\ ExactlyOnce)'
<1>0. TypeOK /\ ThreadsIdleOutsideJoin /\ BusyHasIteration /\ ExactlyOnce
  BY DEF IInv
<1>1. /\ \A p \in Shards : thr[w][p] = "got"
      /\ thr' = [thr EXCEPT ![w] = [p \in Shards |-> "idle"]]
      /\ wpc' = [wpc EXCEPT ![w] = "poll"]
      /\ UNCHANGED <<iter, grad, params>>
  BY DEF JoinApply, psVars
<1>2. thr' \in [Workers -> [Shards -> ThreadState]]
  BY <1>0, <1>1 DEF TypeOK, ThreadState
<1>3. \A v \in Workers, q \in Shards :
        (thr'[v][q] = "calling") <=> (thr[v][q] = "calling")
  BY <1>0, <1>1 DEF TypeOK
<1>4. ThreadsIdleOutsideJoin' /\ BusyHasIteration'
  BY <1>0, <1>1 DEF ThreadsIdleOutsideJoin, BusyHasIteration, TypeOK
<1>5. QED
  BY <1>0, <1>1, <1>2, <1>3, <1>4, ExactlyOnceFrame

LEMMA PollStopStep ==
  ASSUME IInv, NEW w \in Workers, PollStop(w)
  PROVE  (ThreadsIdleOutsideJoin /\ BusyHasIteration /\ ExactlyOnce)'
<1>0. TypeOK /\ ThreadsIdleOutsideJoin /\ BusyHasIteration /\ ExactlyOnce
  BY DEF IInv
<1>1. /\ wpc[w] = "poll"
      /\ wpc'[w] # "join"
      /\ \A v \in Workers : v # w => wpc'[v] = wpc[v]
      /\ UNCHANGED <<iter, thr, grad, params>>
  BY <1>0 DEF PollStop, psVars, TypeOK
<1>2. ThreadsIdleOutsideJoin' /\ BusyHasIteration'
  BY <1>0, <1>1 DEF ThreadsIdleOutsideJoin, BusyHasIteration
<1>3. QED
  BY <1>0, <1>1, <1>2, ExactlyOnceFrame DEF TypeOK

\* set_sync_mode, the end of training and stuttering touch no worker.
LEMMA QuietStep ==
  ASSUME IInv,
         \/ \E p \in Shards, m \in SwitchModes : SetSyncMode(p, m)
         \/ Finished
         \/ UNCHANGED vars
  PROVE  (ThreadsIdleOutsideJoin /\ BusyHasIteration /\ ExactlyOnce)'
<1>0. TypeOK /\ ThreadsIdleOutsideJoin /\ BusyHasIteration /\ ExactlyOnce
  BY DEF IInv
<1>1. UNCHANGED <<wpc, iter, thr, grad, params>>
  BY DEF SetSyncMode, Finished, vars, workerVars, psVars
<1>2. QED
  BY <1>0, <1>1, ExactlyOnceFrame
     DEF ThreadsIdleOutsideJoin, BusyHasIteration, TypeOK

(* Every handler of training_sgd.py keeps the strengthening.                *)
LEMMA IInvStep == IInv /\ [Next]_vars => IInv'
<1> SUFFICES ASSUME IInv, [Next]_vars PROVE IInv'
  OBVIOUS
<1>1. TypeOK'
  BY TypeStep DEF IInv
<1>2. (ThreadsIdleOutsideJoin /\ BusyHasIteration /\ ExactlyOnce)'
  <2>1. CASE \E w \in Workers : Compute(w)
    BY <2>1, ComputeStep
  <2>2. CASE \E w \in Workers : JoinApply(w)
    BY <2>2, JoinApplyStep
  <2>3. CASE \E w \in Workers : PollStop(w)
    BY <2>3, PollStopStep
  <2>4. CASE \E w \in Workers, p \in Shards : PsComputing(w, p)
    BY <2>4, PsComputingStep
  <2>5. CASE \E w \in Workers, p \in Shards : Receive(w, p)
    BY <2>5, ReceiveStep
  <2>6. CASE \/ \E p \in Shards, m \in SwitchModes : SetSyncMode(p, m)
             \/ Finished
             \/ UNCHANGED vars
    BY <2>6, QuietStep
  <2>7. QED
    BY <2>1, <2>2, <2>3, <2>4, <2>5, <2>6 DEF Next
<1>3. QED
  BY <1>1, <1>2 DEF IInv

(* Before the first iteration the strengthening holds.                     *)
LEMMA InitIInv == Init => IInv
BY DEF Init, WorkerInit, PsInit, IInv, TypeOK, WorkerPc, ThreadState, ThreadsIdleOutsideJoin,
       BusyHasIteration, ExactlyOnce, Sent

-----------------------------------------------------------------------------
(* No gradient is lost or applied twice: in every reachable state, each     *)
(* gradient a worker has sent to a shard is in exactly one of param.grad    *)
(* and the parameters (ps_computing, training_sgd.py:276-311).              *)
THEOREM ExactlyOnceHolds == Spec => []ExactlyOnce
<1>1. IInv => ExactlyOnce
  BY DEF IInv
<1>2. QED
  BY InitIInv, IInvStep, <1>1, PTL DEF Spec

=============================================================================
