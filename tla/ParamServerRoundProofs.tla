----------------------- MODULE ParamServerRoundProofs -----------------------
(***************************************************************************)
(* Proofs about the rounds of ParamServer: what a worker receives when its *)
(* rpc_sync to a shard returns.  They build on the strengthening IInv of    *)
(* ParamServerProofs and hold for every number of workers, shards and       *)
(* iterations, and whether or not set_sync_mode is called.                  *)
(***************************************************************************)
EXTENDS ParamServerProofs, FiniteSetTheorems

(* A thread waiting on shard p's future number f (ftOf) has a gradient that *)
(* has reached the shard: while f is still the current future the gradient *)
(* is in param.grad, and once f has been resolved (a later future exists)   *)
(* the optimizer step that resolved it has applied the gradient.            *)
OwnPending ==
  \A w \in Workers, p \in Shards : thr[w][p] = "waiting" =>
    /\ ftOf[w][p] <= fut[p]
    /\ ftOf[w][p] = fut[p] => <<w, iter[w]>> \in grad[p]
    /\ ftOf[w][p] < fut[p] => <<w, iter[w]>> \in params[p]

\* The inductive strengthening of WorkerSeesOwnStep.
VInv == IInv /\ OwnPending /\ WorkerSeesOwnStep

-----------------------------------------------------------------------------
(* The steps that keep OwnPending and WorkerSeesOwnStep, one per action.    *)

LEMMA ComputeKeepsView ==
  ASSUME VInv, NEW w \in Workers, Compute(w)
  PROVE  (OwnPending /\ WorkerSeesOwnStep)'
<1>1. /\ thr' = [thr EXCEPT ![w] = [p \in Shards |-> "calling"]]
      /\ wpc' = [wpc EXCEPT ![w] = "join"]
      /\ iter' = [iter EXCEPT ![w] = @ + 1]
      /\ UNCHANGED <<ftOf, plist, model, grad, params, fut>>
  BY DEF Compute, psVars
<1>2. QED
  BY <1>1 DEF VInv, IInv, TypeOK, OwnPending, WorkerSeesOwnStep

LEMMA PsComputingKeepsView ==
  ASSUME VInv, NEW w \in Workers, NEW p \in Shards, PsComputing(w, p)
  PROVE  (OwnPending /\ WorkerSeesOwnStep)'
<1>0. TypeOK /\ OwnPending /\ WorkerSeesOwnStep
  BY DEF VInv, IInv
<1> DEFINE g == <<w, iter[w]>>
           cnt == count[p] + 1
<1>1. /\ thr[w][p] = "calling"
      /\ thr' = [thr EXCEPT ![w][p] = "waiting"]
      /\ ftOf' = [ftOf EXCEPT ![w][p] = fut[p]]
      /\ UNCHANGED <<wpc, iter, plist, model>>
  BY DEF PsComputing, PsCompute
<1>2. WorkerSeesOwnStep'
  BY <1>0, <1>1 DEF WorkerSeesOwnStep, TypeOK
<1>3. ASSUME NEW v \in Workers, NEW q \in Shards, thr'[v][q] = "waiting",
             ~(v = w /\ q = p)
      PROVE  /\ thr[v][q] = "waiting"
             /\ ftOf'[v][q] = ftOf[v][q]
  BY <1>0, <1>1, <1>3 DEF TypeOK
<1>4. CASE ~Trigger(p, cnt)
  <2>1. /\ grad' = [grad EXCEPT ![p] = grad[p] \cup {g}]
        /\ UNCHANGED <<params, fut>>
    BY <1>4 DEF PsComputing, PsCompute, Accumulated
  <2>2. OwnPending'
    BY <1>0, <1>1, <1>3, <2>1 DEF OwnPending, TypeOK
  <2>3. QED
    BY <1>2, <2>2
<1>5. CASE Trigger(p, cnt)
  <2>1. /\ params' = [params EXCEPT ![p] = params[p] \cup (grad[p] \cup {g})]
        /\ grad' = [grad EXCEPT ![p] = {}]
        /\ fut' = [fut EXCEPT ![p] = @ + 1]
    BY <1>5 DEF PsComputing, PsCompute, Accumulated
  <2>2. ASSUME NEW v \in Workers, NEW q \in Shards, thr'[v][q] = "waiting"
        PROVE  OwnPending!(v, q)'
    <3>1. CASE v = w /\ q = p
      BY <1>0, <1>1, <2>1, <3>1 DEF TypeOK
    <3>2. CASE ~(v = w /\ q = p) /\ q = p
      <4>1. thr[v][p] = "waiting" /\ ftOf'[v][p] = ftOf[v][p]
        BY <1>3, <2>2, <3>2
      <4>2. /\ ftOf[v][p] <= fut[p]
            /\ ftOf[v][p] = fut[p] => <<v, iter[v]>> \in grad[p]
            /\ ftOf[v][p] < fut[p] => <<v, iter[v]>> \in params[p]
        BY <1>0, <4>1 DEF OwnPending
      <4>3. /\ fut'[p] = fut[p] + 1 /\ fut[p] \in Nat /\ ftOf[v][p] \in Nat
            /\ params'[p] = params[p] \cup (grad[p] \cup {g})
            /\ iter'[v] = iter[v]
        BY <1>0, <1>1, <2>1 DEF TypeOK
      <4>4. /\ ftOf'[v][p] <= fut'[p]
            /\ ftOf'[v][p] # fut'[p]
            /\ <<v, iter'[v]>> \in params'[p]
        BY <4>1, <4>2, <4>3
      <4>5. QED
        BY <3>2, <4>4
    <3>3. CASE q # p
      <4>1. thr[v][q] = "waiting" /\ ftOf'[v][q] = ftOf[v][q]
        BY <1>3, <2>2, <3>3
      <4>2. QED
        BY <1>0, <1>1, <2>1, <3>3, <4>1 DEF OwnPending, TypeOK
    <3>4. QED
      BY <3>1, <3>2, <3>3
  <2>3. QED
    BY <1>2, <2>2 DEF OwnPending
<1>6. QED
  BY <1>4, <1>5

LEMMA ReceiveKeepsView ==
  ASSUME VInv, NEW w \in Workers, NEW p \in Shards, Receive(w, p)
  PROVE  (OwnPending /\ WorkerSeesOwnStep)'
<1>0. TypeOK /\ OwnPending /\ WorkerSeesOwnStep
  BY DEF VInv, IInv
<1>1. /\ thr[w][p] = "waiting"
      /\ ftOf[w][p] < fut[p]
      /\ plist' = [plist EXCEPT ![w][p] = params[p]]
      /\ thr' = [thr EXCEPT ![w][p] = "got"]
      /\ UNCHANGED <<wpc, iter, ftOf, model, grad, params, fut>>
  BY DEF Receive, psVars
<1>2. <<w, iter[w]>> \in params[p]
  BY <1>0, <1>1 DEF OwnPending
<1>3. QED
  BY <1>0, <1>1, <1>2 DEF OwnPending, WorkerSeesOwnStep, TypeOK

LEMMA JoinApplyKeepsView ==
  ASSUME VInv, NEW w \in Workers, JoinApply(w)
  PROVE  (OwnPending /\ WorkerSeesOwnStep)'
<1>0. TypeOK /\ OwnPending /\ WorkerSeesOwnStep
  BY DEF VInv, IInv
<1>1. /\ \A p \in Shards : thr[w][p] = "got"
      /\ model' = [model EXCEPT ![w] = plist[w]]
      /\ thr' = [thr EXCEPT ![w] = [p \in Shards |-> "idle"]]
      /\ wpc' = [wpc EXCEPT ![w] = "poll"]
      /\ UNCHANGED <<iter, ftOf, plist, grad, params, fut>>
  BY DEF JoinApply, psVars
<1>2. \A p \in Shards : <<w, iter[w]>> \in plist[w][p]
  BY <1>0, <1>1 DEF WorkerSeesOwnStep
<1>3. QED
  BY <1>0, <1>1, <1>2 DEF OwnPending, WorkerSeesOwnStep, TypeOK

LEMMA PollStopKeepsView ==
  ASSUME VInv, NEW w \in Workers, PollStop(w)
  PROVE  (OwnPending /\ WorkerSeesOwnStep)'
<1>0. TypeOK /\ ThreadsIdleOutsideJoin /\ OwnPending /\ WorkerSeesOwnStep
  BY DEF VInv, IInv
<1>1. /\ wpc[w] = "poll"
      /\ wpc'[w] # "poll"
      /\ \A v \in Workers : v # w => wpc'[v] = wpc[v]
      /\ UNCHANGED <<iter, thr, ftOf, plist, model, grad, params, fut>>
  BY <1>0 DEF PollStop, psVars, TypeOK
<1>2. \A p \in Shards : thr[w][p] = "idle"
  BY <1>0, <1>1 DEF ThreadsIdleOutsideJoin
<1>3. QED
  BY <1>0, <1>1, <1>2 DEF OwnPending, WorkerSeesOwnStep

LEMMA QuietKeepsView ==
  ASSUME VInv,
         \/ \E p \in Shards, m \in SwitchModes : SetSyncMode(p, m)
         \/ Finished
         \/ UNCHANGED vars
  PROVE  (OwnPending /\ WorkerSeesOwnStep)'
<1>1. UNCHANGED <<wpc, iter, thr, ftOf, plist, model, grad, params, fut>>
  BY DEF SetSyncMode, Finished, vars, workerVars, psVars
<1>2. QED
  BY <1>1 DEF VInv, OwnPending, WorkerSeesOwnStep

(* Every handler of training_sgd.py keeps VInv.                             *)
LEMMA VInvStep == VInv /\ [Next]_vars => VInv'
<1> SUFFICES ASSUME VInv, [Next]_vars PROVE VInv'
  OBVIOUS
<1>1. IInv'
  BY IInvStep DEF VInv
<1>2. (OwnPending /\ WorkerSeesOwnStep)'
  <2>1. CASE \E w \in Workers : Compute(w)
    BY <2>1, ComputeKeepsView
  <2>2. CASE \E w \in Workers : JoinApply(w)
    BY <2>2, JoinApplyKeepsView
  <2>3. CASE \E w \in Workers : PollStop(w)
    BY <2>3, PollStopKeepsView
  <2>4. CASE \E w \in Workers, p \in Shards : PsComputing(w, p)
    BY <2>4, PsComputingKeepsView
  <2>5. CASE \E w \in Workers, p \in Shards : Receive(w, p)
    BY <2>5, ReceiveKeepsView
  <2>6. CASE \/ \E p \in Shards, m \in SwitchModes : SetSyncMode(p, m)
             \/ Finished
             \/ UNCHANGED vars
    BY <2>6, QuietKeepsView
  <2>7. QED
    BY <2>1, <2>2, <2>3, <2>4, <2>5, <2>6 DEF Next
<1>3. QED
  BY <1>1, <1>2 DEF VInv

(* Before the first iteration no thread waits and no copy is held.          *)
LEMMA InitVInv == Init => VInv
BY InitIInv DEF Init, WorkerInit, VInv, OwnPending, WorkerSeesOwnStep

-----------------------------------------------------------------------------
(***************************************************************************)
(* Synchronous training implements LockstepRounds.  main never calls       *)
(* set_sync_mode (SwitchModes = {}), so every shard stays in sync_mode 0.  *)
(* The refinement rests on what a shard's rounds look like then.           *)
(***************************************************************************)

\* Every shard is in synchronous mode.
SyncOnly == \A p \in Shards : syncMode[p] = 0

\* Shard p has run fut[p] optimizer steps; step k applied round k of every worker.
RoundsApplied ==
  \A p \in Shards, j \in Workers : \A k \in 1 .. fut[p] : <<j, k>> \in params[p]

\* A thread past ps_computing waits on the future of its worker's round.
FutureOfRound ==
  \A w \in Workers, p \in Shards :
    thr[w][p] \in {"waiting", "got"} => ftOf[w][p] = iter[w] - 1

\* No worker has finished a round that some shard has not completed.
ShardsCaughtUp == \A w \in Workers, p \in Shards : fut[p] >= PsFinished[w]

\* A thread whose rpc_sync has returned saw its round completed.
GotResolved ==
  \A w \in Workers, p \in Shards : thr[w][p] = "got" => fut[p] >= iter[w]

\* The workers whose gradient of shard p's open round is in param.grad.
Pending(p) == {j \in Workers : <<j, fut[p] + 1>> \in grad[p]}

\* param.grad holds only the open round, and sync_worker_count counts it.
PendingRound ==
  \A p \in Shards :
    /\ grad[p] \subseteq Workers \X {fut[p] + 1}
    /\ count[p] = Cardinality(Pending(p))

\* What a shard's synchronous rounds look like.
RoundConj == /\ SyncOnly /\ RoundsApplied /\ FutureOfRound
             /\ ShardsCaughtUp /\ GotResolved /\ PendingRound

\* The inductive invariant of the refinement.
RInv == /\ IInv /\ SyncOnly /\ RoundsApplied /\ FutureOfRound
        /\ ShardsCaughtUp /\ GotResolved /\ PendingRound

(* Before the first iteration no round has begun.                           *)
LEMMA InitRInv == Init => RInv
<1> SUFFICES ASSUME Init PROVE RInv
  OBVIOUS
<1>1. IInv
  BY InitIInv
<1>2. \A p \in Shards : Pending(p) = {}
  BY DEF Init, PsInit, Pending
<1>3. PendingRound
  BY <1>2, FS_EmptySet DEF Init, PsInit, PendingRound
<1>4. SyncOnly /\ RoundsApplied /\ GotResolved
  BY DEF Init, WorkerInit, PsInit, SyncOnly, RoundsApplied, GotResolved
<1>5. FutureOfRound /\ ShardsCaughtUp
  BY DEF Init, WorkerInit, PsInit, FutureOfRound, ShardsCaughtUp, PsFinished
<1>6. QED
  BY <1>1, <1>3, <1>4, <1>5 DEF RInv

\* A worker's thread that is about to call ps_computing has not yet reached
\* the shard, so the shard is in the worker's round.
LEMMA CallingIsOpenRound ==
  ASSUME RInv, NEW w \in Workers, NEW p \in Shards, thr[w][p] = "calling"
  PROVE  /\ iter[w] \in Nat \ {0}
         /\ fut[p] = iter[w] - 1
         /\ <<w, iter[w]>> \notin grad[p] \cup params[p]
<1>0. TypeOK /\ ThreadsIdleOutsideJoin /\ BusyHasIteration /\ ExactlyOnce
      /\ RoundsApplied /\ ShardsCaughtUp
  BY DEF RInv, IInv
<1>1. wpc[w] = "join" /\ iter[w] \in Nat \ {0} /\ fut[p] \in Nat
  BY <1>0 DEF ThreadsIdleOutsideJoin, BusyHasIteration, TypeOK
<1>2. ~Sent(w, iter[w], p)
  BY DEF Sent
<1>3. <<w, iter[w]>> \notin grad[p] \cup params[p]
  BY <1>0, <1>1, <1>2 DEF ExactlyOnce
<1>4. fut[p] >= iter[w] - 1
  BY <1>0, <1>1 DEF ShardsCaughtUp, PsFinished
<1>5. ~(fut[p] >= iter[w])
  BY <1>0, <1>1, <1>3 DEF RoundsApplied
<1>6. QED
  BY <1>1, <1>3, <1>4, <1>5

\* A step that changes neither wpc nor iter leaves the refinement mapping alone.
LEMMA PsFinishedFrame ==
  ASSUME UNCHANGED <<wpc, iter>> PROVE PsFinished' = PsFinished
BY DEF PsFinished

LEMMA ComputeKeepsRounds ==
  ASSUME RInv, NEW w \in Workers, Compute(w)
  PROVE  RoundConj'
<1>0. TypeOK /\ RoundConj
  BY DEF RInv, IInv, RoundConj
<1>1. /\ wpc[w] = "compute"
      /\ thr' = [thr EXCEPT ![w] = [p \in Shards |-> "calling"]]
      /\ wpc' = [wpc EXCEPT ![w] = "join"]
      /\ iter' = [iter EXCEPT ![w] = @ + 1]
      /\ UNCHANGED <<ftOf, psVars>>
  BY DEF Compute
<1>2. PsFinished' = PsFinished
  BY <1>0, <1>1 DEF PsFinished, TypeOK
<1>3. UNCHANGED <<syncMode, count, grad, params, fut>>
  BY <1>1 DEF psVars
<1>4. (SyncOnly /\ RoundsApplied /\ PendingRound)'
  BY <1>0, <1>3 DEF RoundConj, SyncOnly, RoundsApplied, PendingRound, Pending
<1>5. ShardsCaughtUp'
  BY <1>0, <1>2, <1>3 DEF RoundConj, ShardsCaughtUp
<1>6. (FutureOfRound /\ GotResolved)'
  BY <1>0, <1>1, <1>3 DEF RoundConj, FutureOfRound, GotResolved, TypeOK
<1>7. QED
  BY <1>4, <1>5, <1>6 DEF RoundConj

LEMMA PsComputingKeepsRounds ==
  ASSUME RInv, NEW w \in Workers, NEW p \in Shards, PsComputing(w, p)
  PROVE  RoundConj'
<1>0. TypeOK /\ RoundConj /\ ConstAssumption
  BY ConstAssumption DEF RInv, IInv, RoundConj
<1> DEFINE g == <<w, iter[w]>>
           cnt == count[p] + 1
<1>1. /\ thr[w][p] = "calling"
      /\ thr' = [thr EXCEPT ![w][p] = "waiting"]
      /\ ftOf' = [ftOf EXCEPT ![w][p] = fut[p]]
      /\ UNCHANGED <<wpc, iter, syncMode>>
  BY DEF PsComputing, PsCompute
<1>2. /\ iter[w] \in Nat \ {0}
      /\ fut[p] = iter[w] - 1
      /\ g \notin grad[p] \cup params[p]
  BY <1>1, CallingIsOpenRound
<1>3. /\ iter[w] = fut[p] + 1
      /\ g = <<w, fut[p] + 1>>
      /\ w \notin Pending(p)
      /\ Pending(p) \subseteq Workers
  <2>1. fut[p] \in Nat
    BY <1>0 DEF TypeOK
  <2>2. iter[w] = fut[p] + 1
    BY <1>2, <2>1
  <2>3. QED
    BY <1>2, <2>2 DEF Pending
<1>4. /\ IsFiniteSet(Pending(p))
      /\ Cardinality(Pending(p) \cup {w}) = count[p] + 1
  <2>1. IsFiniteSet(Workers)
    BY ConstAssumption
  <2>2. IsFiniteSet(Pending(p))
    BY <1>3, <2>1, FS_Subset
  <2>3. Cardinality(Pending(p) \cup {w}) = Cardinality(Pending(p)) + 1
    BY <1>3, <2>2, FS_AddElement
  <2>4. count[p] = Cardinality(Pending(p))
    BY <1>0 DEF RoundConj, PendingRound
  <2>5. QED
    BY <2>2, <2>3, <2>4
<1>5. PsFinished' = PsFinished
  BY <1>1, PsFinishedFrame
<1>6. SyncOnly'
  BY <1>0, <1>1 DEF RoundConj, SyncOnly
<1>7. (FutureOfRound /\ GotResolved /\ ShardsCaughtUp)'
  <2>1. /\ fut' \in [Shards -> Nat]
        /\ \A q \in Shards : fut[q] <= fut'[q]
    <3>1. CASE ~Trigger(p, cnt)
      BY <1>0, <3>1 DEF PsComputing, PsCompute, TypeOK
    <3>2. CASE Trigger(p, cnt)
      <4>1. fut' = [fut EXCEPT ![p] = @ + 1]
        BY <3>2 DEF PsComputing, PsCompute
      <4>2. QED
        BY <1>0, <4>1 DEF TypeOK
    <3>3. QED
      BY <3>1, <3>2
  <2>2. FutureOfRound'
    BY <1>0, <1>1, <1>2 DEF RoundConj, FutureOfRound, TypeOK
  <2>3. GotResolved'
    BY <1>0, <1>1, <2>1 DEF RoundConj, GotResolved, TypeOK
  <2>4. ShardsCaughtUp'
    <3> SUFFICES ASSUME NEW v \in Workers, NEW q \in Shards
                 PROVE  fut'[q] >= PsFinished'[v]
      BY DEF ShardsCaughtUp
    <3>1. fut[q] >= PsFinished[v] /\ PsFinished[v] \in Int /\ fut[q] \in Nat
      BY <1>0 DEF RoundConj, ShardsCaughtUp, PsFinished, TypeOK
    <3>2. QED
      BY <1>5, <2>1, <3>1
  <2>5. QED
    BY <2>2, <2>3, <2>4
<1>8. CASE ~Trigger(p, cnt)
  <2>1. /\ grad' = [grad EXCEPT ![p] = grad[p] \cup {g}]
        /\ count' = [count EXCEPT ![p] = cnt]
        /\ UNCHANGED <<params, fut>>
    BY <1>8 DEF PsComputing, PsCompute, Accumulated
  <2>2. Pending(p)' = Pending(p) \cup {w}
    <3>1. grad'[p] = grad[p] \cup {<<w, fut[p] + 1>>} /\ fut'[p] = fut[p]
      BY <1>0, <1>3, <2>1 DEF TypeOK
    <3>2. QED
      BY <3>1 DEF Pending
  <2>3. PendingRound'
    <3> SUFFICES ASSUME NEW q \in Shards
                 PROVE  /\ grad'[q] \subseteq Workers \X {fut'[q] + 1}
                        /\ count'[q] = Cardinality(Pending(q)')
      BY DEF PendingRound
    <3>1. CASE q = p
      <4>1. grad'[p] = grad[p] \cup {g} /\ count'[p] = count[p] + 1 /\ fut'[p] = fut[p]
        BY <1>0, <2>1 DEF TypeOK
      <4>2. grad[p] \subseteq Workers \X {fut[p] + 1}
        BY <1>0 DEF RoundConj, PendingRound
      <4>3. grad'[p] \subseteq Workers \X {fut'[p] + 1}
        BY <1>3, <4>1, <4>2
      <4>4. count'[p] = Cardinality(Pending(p)')
        BY <1>4, <2>2, <4>1
      <4>5. QED
        BY <3>1, <4>3, <4>4
    <3>2. CASE q # p
      <4>1. grad'[q] = grad[q] /\ count'[q] = count[q] /\ fut'[q] = fut[q]
        BY <1>0, <2>1, <3>2 DEF TypeOK
      <4>2. Pending(q)' = Pending(q)
        BY <4>1 DEF Pending
      <4>3. QED
        BY <1>0, <4>1, <4>2 DEF RoundConj, PendingRound
    <3>3. QED
      BY <3>1, <3>2
  <2>4. RoundsApplied'
    BY <1>0, <2>1 DEF RoundConj, RoundsApplied
  <2>5. QED
    BY <1>6, <1>7, <2>3, <2>4 DEF RoundConj
<1>9. CASE Trigger(p, cnt)
  <2>1. /\ params' = [params EXCEPT ![p] = params[p] \cup (grad[p] \cup {g})]
        /\ grad' = [grad EXCEPT ![p] = {}]
        /\ count' = [count EXCEPT ![p] = 0]
        /\ fut' = [fut EXCEPT ![p] = @ + 1]
    BY <1>9 DEF PsComputing, PsCompute, Accumulated
  <2>2. cnt >= WorkerNum
    BY <1>0, <1>9 DEF Trigger, RoundConj, SyncOnly
  <2>3. Pending(p) \cup {w} = Workers
    <3>1. Pending(p) \cup {w} \subseteq Workers /\ IsFiniteSet(Workers)
      BY <1>3, ConstAssumption
    <3>2. /\ Cardinality(Pending(p) \cup {w}) <= Cardinality(Workers)
          /\ Cardinality(Workers) = Cardinality(Pending(p) \cup {w})
             => Workers = Pending(p) \cup {w}
      BY <3>1, FS_Subset
    <3>3. Cardinality(Workers) \in Nat
      BY <3>1, FS_CardinalityType
    <3>4. Cardinality(Workers) = Cardinality(Pending(p) \cup {w})
      BY <1>0, <1>4, <2>2, <3>2, <3>3 DEF WorkerNum, TypeOK
    <3>5. QED
      BY <3>2, <3>4
  <2>4. \A j \in Workers : <<j, fut[p] + 1>> \in grad[p] \cup {g}
    BY <1>3, <2>3 DEF Pending
  <2>5. RoundsApplied'
    <3> SUFFICES ASSUME NEW q \in Shards, NEW j \in Workers, NEW k \in 1 .. fut'[q]
                 PROVE  <<j, k>> \in params'[q]
      BY DEF RoundsApplied
    <3>1. CASE q = p
      <4>1. params'[p] = params[p] \cup (grad[p] \cup {g}) /\ fut'[p] = fut[p] + 1
            /\ fut[p] \in Nat
        BY <1>0, <2>1 DEF TypeOK
      <4>2. CASE k <= fut[p]
        BY <1>0, <3>1, <4>1, <4>2 DEF RoundConj, RoundsApplied
      <4>3. CASE k = fut[p] + 1
        BY <2>4, <3>1, <4>1, <4>3
      <4>4. QED
        BY <3>1, <4>1, <4>2, <4>3
    <3>2. CASE q # p
      BY <1>0, <2>1, <3>2 DEF RoundConj, RoundsApplied, TypeOK
    <3>3. QED
      BY <3>1, <3>2
  <2>6. PendingRound'
    <3> SUFFICES ASSUME NEW q \in Shards
                 PROVE  /\ grad'[q] \subseteq Workers \X {fut'[q] + 1}
                        /\ count'[q] = Cardinality(Pending(q)')
      BY DEF PendingRound
    <3>1. CASE q = p
      <4>1. grad'[p] = {} /\ count'[p] = 0
        BY <1>0, <2>1 DEF TypeOK
      <4>2. Pending(p)' = {}
        BY <3>1, <4>1 DEF Pending
      <4>3. QED
        BY <3>1, <4>1, <4>2, FS_EmptySet
    <3>2. CASE q # p
      <4>1. grad'[q] = grad[q] /\ count'[q] = count[q] /\ fut'[q] = fut[q]
        BY <1>0, <2>1, <3>2 DEF TypeOK
      <4>2. Pending(q)' = Pending(q)
        BY <4>1 DEF Pending
      <4>3. QED
        BY <1>0, <4>1, <4>2 DEF RoundConj, PendingRound
    <3>3. QED
      BY <3>1, <3>2
  <2>7. QED
    BY <1>6, <1>7, <2>5, <2>6 DEF RoundConj
<1>10. QED
  BY <1>8, <1>9

LEMMA ReceiveKeepsRounds ==
  ASSUME RInv, NEW w \in Workers, NEW p \in Shards, Receive(w, p)
  PROVE  RoundConj'
<1>0. TypeOK /\ RoundConj
  BY DEF RInv, IInv, RoundConj
<1>1. /\ thr[w][p] = "waiting"
      /\ ftOf[w][p] < fut[p]
      /\ thr' = [thr EXCEPT ![w][p] = "got"]
      /\ UNCHANGED <<wpc, iter, ftOf, psVars>>
  BY DEF Receive
<1>2. UNCHANGED <<syncMode, count, grad, params, fut>> /\ PsFinished' = PsFinished
  BY <1>1, PsFinishedFrame DEF psVars
<1>3. (SyncOnly /\ RoundsApplied /\ PendingRound /\ ShardsCaughtUp)'
  BY <1>0, <1>2 DEF RoundConj, SyncOnly, RoundsApplied, PendingRound, Pending, ShardsCaughtUp
<1>4. fut[p] >= iter[w]
  BY <1>0, <1>1 DEF RoundConj, FutureOfRound, TypeOK
<1>5. (FutureOfRound /\ GotResolved)'
  BY <1>0, <1>1, <1>2, <1>4 DEF RoundConj, FutureOfRound, GotResolved, TypeOK
<1>6. QED
  BY <1>3, <1>5 DEF RoundConj

LEMMA JoinApplyKeepsRounds ==
  ASSUME RInv, NEW w \in Workers, JoinApply(w)
  PROVE  RoundConj'
<1>0. TypeOK /\ RoundConj
  BY DEF RInv, IInv, RoundConj
<1>1. /\ wpc[w] = "join"
      /\ \A p \in Shards : thr[w][p] = "got"
      /\ thr' = [thr EXCEPT ![w] = [p \in Shards |-> "idle"]]
      /\ wpc' = [wpc EXCEPT ![w] = "poll"]
      /\ UNCHANGED <<iter, ftOf, psVars>>
  BY DEF JoinApply
<1>2. UNCHANGED <<syncMode, count, grad, params, fut>>
  BY <1>1 DEF psVars
<1>3. (SyncOnly /\ RoundsApplied /\ PendingRound)'
  BY <1>0, <1>2 DEF RoundConj, SyncOnly, RoundsApplied, PendingRound, Pending
<1>4. \A p \in Shards : fut[p] >= iter[w]
  BY <1>0, <1>1 DEF RoundConj, GotResolved
<1>5. ShardsCaughtUp'
  BY <1>0, <1>1, <1>2, <1>4 DEF RoundConj, ShardsCaughtUp, PsFinished, TypeOK
<1>6. (FutureOfRound /\ GotResolved)'
  BY <1>0, <1>1, <1>2 DEF RoundConj, FutureOfRound, GotResolved, TypeOK
<1>7. QED
  BY <1>3, <1>5, <1>6 DEF RoundConj

LEMMA PollStopKeepsRounds ==
  ASSUME RInv, NEW w \in Workers, PollStop(w)
  PROVE  RoundConj'
<1>0. TypeOK /\ RoundConj
  BY DEF RInv, IInv, RoundConj
<1>1. /\ wpc[w] = "poll"
      /\ wpc'[w] # "join"
      /\ \A v \in Workers : v # w => wpc'[v] = wpc[v]
      /\ UNCHANGED <<iter, thr, ftOf, psVars>>
  BY <1>0 DEF PollStop, TypeOK
<1>2. PsFinished' = PsFinished
  BY <1>0, <1>1 DEF PsFinished, TypeOK
<1>3. QED
  BY <1>0, <1>1, <1>2
     DEF psVars, RoundConj, SyncOnly, RoundsApplied, PendingRound, Pending, ShardsCaughtUp,
         FutureOfRound, GotResolved

\* The end of training and stuttering touch nothing.
LEMMA QuietKeepsRounds ==
  ASSUME RInv, Finished \/ UNCHANGED vars
  PROVE  RoundConj'
<1>1. UNCHANGED vars
  BY DEF Finished
<1>2. UNCHANGED <<wpc, iter, thr, ftOf, syncMode, count, grad, params, fut>>
  BY <1>1 DEF vars, workerVars, psVars
<1>3. PsFinished' = PsFinished
  BY <1>2, PsFinishedFrame
<1>4. QED
  BY <1>2, <1>3
     DEF RInv, RoundConj, SyncOnly, RoundsApplied, PendingRound, Pending, ShardsCaughtUp,
         FutureOfRound, GotResolved

(* Without set_sync_mode, every handler keeps RInv.                         *)
LEMMA RInvStep ==
  ASSUME SwitchModes = {}
  PROVE  RInv /\ [Next]_vars => RInv'
<1> SUFFICES ASSUME RInv, [Next]_vars PROVE RInv'
  OBVIOUS
<1>1. IInv'
  BY IInvStep DEF RInv
<1>2. RoundConj'
  <2>1. CASE \E w \in Workers : Compute(w)
    BY <2>1, ComputeKeepsRounds
  <2>2. CASE \E w \in Workers : JoinApply(w)
    BY <2>2, JoinApplyKeepsRounds
  <2>3. CASE \E w \in Workers : PollStop(w)
    BY <2>3, PollStopKeepsRounds
  <2>4. CASE \E w \in Workers, p \in Shards : PsComputing(w, p)
    BY <2>4, PsComputingKeepsRounds
  <2>5. CASE \E w \in Workers, p \in Shards : Receive(w, p)
    BY <2>5, ReceiveKeepsRounds
  <2>6. CASE Finished \/ UNCHANGED vars
    BY <2>6, QuietKeepsRounds
  <2>7. QED
    BY <2>1, <2>2, <2>3, <2>4, <2>5, <2>6 DEF Next
<1>3. QED
  BY <1>1, <1>2 DEF RInv, RoundConj

-----------------------------------------------------------------------------
(* A worker never receives a stale snapshot: when run_ps_computing's        *)
(* rpc_sync returns, and after run_worker copies param_lists into the model, *)
(* the shard's parameters already include the gradient the worker has just   *)
(* sent, in both modes and across calls of set_sync_mode.  It rests on       *)
(* ps_computing taking ft before the future swap (training_sgd.py:283, 311). *)
THEOREM WorkerSeesOwnStepHolds == Spec => []WorkerSeesOwnStep
<1>1. VInv => WorkerSeesOwnStep
  BY DEF VInv
<1>2. QED
  BY InitVInv, VInvStep, <1>1, PTL DEF Spec
-----------------------------------------------------------------------------
(***************************************************************************)
(* The refinement of LockstepRounds.  Under the mapping                    *)
(*   started <- iter,  finished <- PsFinished                              *)
(* run_worker's fan-out (Compute) is a Start of the worker, its join and   *)
(* copy of param_lists (JoinApply) a Finish, and every other handler a     *)
(* stutter.                                                                *)
(***************************************************************************)

(* Computing the next gradient starts the worker's next round.             *)
LEMMA ComputeIsStart ==
  ASSUME RInv, NEW w \in Workers, Compute(w)
  PROVE  Lockstep!Start(w)
<1>0. TypeOK
  BY DEF RInv, IInv
<1>1. /\ wpc[w] = "compute"
      /\ iter[w] < Iters[w]
      /\ wpc' = [wpc EXCEPT ![w] = "join"]
      /\ iter' = [iter EXCEPT ![w] = @ + 1]
  BY DEF Compute
<1>2. PsFinished[w] = iter[w]
  BY <1>1 DEF PsFinished
<1>3. PsFinished' = PsFinished
  BY <1>0, <1>1 DEF PsFinished, TypeOK
<1>4. QED
  BY <1>1, <1>2, <1>3 DEF Lockstep!Start

(* Joining the threads of round iter[w] and copying param_lists into the   *)
(* model finishes the round, and every worker has started it: shard p has  *)
(* completed round iter[w] (the got thread saw the future resolved), so    *)
(* its parameters hold every worker's gradient of that round.              *)
LEMMA JoinApplyIsFinish ==
  ASSUME RInv, NEW w \in Workers, JoinApply(w)
  PROVE  Lockstep!Finish(w)
<1>0. TypeOK /\ BusyHasIteration /\ ExactlyOnce /\ RoundsApplied /\ GotResolved
  BY DEF RInv, IInv
<1>1. /\ wpc[w] = "join"
      /\ \A p \in Shards : thr[w][p] = "got"
      /\ wpc' = [wpc EXCEPT ![w] = "poll"]
      /\ iter' = iter
  BY DEF JoinApply
<1>2. PICK p \in Shards : TRUE
  BY ConstAssumption
<1>3. iter[w] \in Nat \ {0} /\ fut[p] >= iter[w]
  <2>1. thr[w][p] = "got"
    BY <1>1, <1>2
  <2>2. iter[w] >= 1 /\ iter[w] \in Nat
    BY <1>0, <2>1 DEF BusyHasIteration, TypeOK
  <2>3. fut[p] >= iter[w]
    BY <1>0, <2>1 DEF GotResolved
  <2>4. QED
    BY <2>2, <2>3
<1>4. PsFinished[w] = iter[w] - 1 /\ PsFinished[w] < iter[w]
  BY <1>1, <1>3 DEF PsFinished
<1>5. ASSUME NEW j \in Workers PROVE iter[j] > PsFinished[w]
  <2>1. <<j, iter[w]>> \in params[p]
    BY <1>0, <1>3 DEF RoundsApplied
  <2>2. Sent(j, iter[w], p)
    BY <1>0, <2>1 DEF ExactlyOnce
  <2>3. iter[w] \in 1 .. iter[j] /\ iter[j] \in Nat
    BY <1>0, <2>2 DEF Sent, TypeOK
  <2>4. QED
    BY <1>3, <1>4, <2>3
<1>6. PsFinished' = [PsFinished EXCEPT ![w] = @ + 1]
  <2>1. wpc'[w] = "poll" /\ \A v \in Workers \ {w} : wpc'[v] = wpc[v]
    BY <1>0, <1>1 DEF TypeOK
  <2>2. PsFinished'[w] = PsFinished[w] + 1
    BY <1>1, <1>3, <1>4, <2>1 DEF PsFinished
  <2>3. \A v \in Workers \ {w} : PsFinished'[v] = PsFinished[v]
    BY <1>1, <2>1 DEF PsFinished
  <2>4. QED
    BY <2>2, <2>3 DEF PsFinished
<1>7. QED
  BY <1>1, <1>4, <1>5, <1>6 DEF Lockstep!Finish

(* Every other step leaves both iter and PsFinished alone.                 *)
LEMMA OtherIsStutter ==
  ASSUME TypeOK, \/ \E w \in Workers : PollStop(w)
                 \/ \E w \in Workers, p \in Shards : PsComputing(w, p) \/ Receive(w, p)
                 \/ Finished \/ UNCHANGED vars
  PROVE  UNCHANGED <<iter, PsFinished>>
<1>1. CASE \E w \in Workers : PollStop(w)
  <2>1. PICK w \in Workers : PollStop(w)
    BY <1>1
  <2>2. wpc[w] = "poll" /\ wpc'[w] # "join" /\ iter' = iter
        /\ \A v \in Workers \ {w} : wpc'[v] = wpc[v]
    BY <2>1 DEF PollStop, TypeOK
  <2>3. QED
    BY <2>2 DEF PsFinished
<1>2. CASE \E w \in Workers, p \in Shards : PsComputing(w, p) \/ Receive(w, p)
  <2>1. UNCHANGED <<wpc, iter>>
    BY <1>2 DEF PsComputing, PsCompute, Receive
  <2>2. QED
    BY <2>1, PsFinishedFrame
<1>3. CASE Finished \/ UNCHANGED vars
  <2>1. UNCHANGED <<wpc, iter>>
    BY <1>3 DEF Finished, vars, workerVars
  <2>2. QED
    BY <2>1, PsFinishedFrame
<1>4. QED
  BY <1>1, <1>2, <1>3

(* Synchronous parameter-server training, as main() runs it (it never      *)
(* calls set_sync_mode, so every shard stays in sync_mode 0), implements    *)
(* lockstep rounds for every number of workers, shards and iterations: no  *)
(* worker applies the parameters of round k before every worker has sent   *)
(* its round-k gradient.  It rests on the barrier count of ps_computing    *)
(* (training_sgd.py:250-313) and on run_ps_computing waiting on the future *)
(* of its own round.                                                       *)
THEOREM PsImplementsLockstep ==
  ASSUME SwitchModes = {}
  PROVE  Spec => ImplementsLockstep
<1>1. Init => Lockstep!Init
  BY DEF Init, WorkerInit, Lockstep!Init, PsFinished
<1>2. RInv /\ [Next]_vars => [Lockstep!Next]_Lockstep!vars
  <2> SUFFICES ASSUME RInv, [Next]_vars PROVE [Lockstep!Next]_Lockstep!vars
    OBVIOUS
  <2>0. TypeOK
    BY DEF RInv, IInv
  <2>1. CASE \E w \in Workers : Compute(w)
    BY <2>1, ComputeIsStart DEF Lockstep!Next
  <2>2. CASE \E w \in Workers : JoinApply(w)
    BY <2>2, JoinApplyIsFinish DEF Lockstep!Next
  <2>3. CASE \/ \E w \in Workers : PollStop(w)
             \/ \E w \in Workers, p \in Shards : PsComputing(w, p) \/ Receive(w, p)
             \/ Finished \/ UNCHANGED vars
    BY <2>0, <2>3, OtherIsStutter DEF Lockstep!vars
  <2>4. QED
    BY <2>1, <2>2, <2>3 DEF Next
<1>3. QED
  BY InitRInv, RInvStep, <1>1, <1>2, PTL DEF Spec, ImplementsLockstep, Lockstep!Spec

(* Synchronous parameter-server training, as main() runs it, keeps every    *)
(* worker within one round of every other: no worker has copied back the    *)
(* shard parameters of a round (JoinApply) that another worker has not yet  *)
(* begun with iter_count += 1, for any workers, shards and iterations.      *)
(* The lockstep of the abstract rounds carries over through the refinement. *)
THEOREM PsLockstep ==
  ASSUME SwitchModes = {}
  PROVE  Spec => [](\A i, j \in Workers : PsFinished[i] <= iter[j])
<1>1. Spec => []Lockstep!Lockstep
  BY PsImplementsLockstep, Lockstep!LockstepHolds, PTL DEF ImplementsLockstep
<1>2. Lockstep!Lockstep <=> \A i, j \in Workers : PsFinished[i] <= iter[j]
  BY DEF Lockstep!Lockstep
<1>3. QED
  BY <1>1, <1>2, PTL
=============================================================================
