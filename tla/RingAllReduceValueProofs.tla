--------------------- MODULE RingAllReduceValueProofs ---------------------
(***************************************************************************)
(* The ring allreduce of training_sgd_allreduce.py computes the right      *)
(* gradient, for every ring size and every number of iterations.           *)
(*                                                                         *)
(* The argument follows the slices through the two exchange loops of       *)
(* Worker.run_worker.  Write Dist(c, s) for (c - s) % N.  In reduce-       *)
(* scatter iteration idx = k, grad_lists[s] of worker i holds the          *)
(* gradients of workers i - d .. i, with d = Dist(i, s), if d <= k, and i's *)
(* own gradient otherwise; the slice it puts on aggr_msg_q is the one with  *)
(* d = k, and the one it receives from Pred(i) has its own gradient added   *)
(* and becomes the one with d = k + 1.  After N - 1 iterations the slice    *)
(* (i + 1) % N holds every gradient.  In all-gather iteration k the slices  *)
(* with Dist(i + 1, s) <= k are fully reduced, and the one received is the  *)
(* next.  The hand-off lemma of RingAllReduceProofs says each received item *)
(* was put in the same iteration, so the queued values line up.             *)
(***************************************************************************)
EXTENDS RingAllReduceProofs

\* How many places worker c is after worker s on the ring.
Dist(c, s) == (c - s) % N

\* The gradients of worker i and of the d workers before it, once each.
Upto(i, d) == [j \in Ring |-> IF Dist(i, j) <= d THEN 1 ELSE 0]

\* recv_slice_id of worker j in iteration (p, k).
RecvIdAt(j, p, k) == (SendIdAt(j, p, k) - 1) % N

\* grad_lists[s] of worker i in iteration (p, k) of the exchange loops.
SliceAt(i, p, k, s) ==
  IF p = "rs" THEN Upto(i, IF Dist(i, s) <= k THEN Dist(i, s) ELSE 0)
  ELSE IF Dist(i + 1, s) <= k THEN Reduced ELSE Upto(i, Dist(i, s))

\* The slice worker i puts on aggr_msg_q in iteration (p, k).
SentVal(i, p, k) == IF p = "rs" THEN Upto(i, k) ELSE Reduced

\* The slices of worker i in its exchange loops and after them.
SliceOK(i) ==
  /\ pc[i] \in {"put", "get"} => slices[i] = [s \in Ring |-> SliceAt(i, ph[i], ix[i], s)]
  /\ pc[i] \in {"update", "poll", "done"} => slices[i] = [s \in Ring |-> Reduced]
  /\ pc[i] \in {"poll", "done"} => applied[i] = [s \in Ring |-> Reduced]

\* Every item on aggr_msg_q of worker i holds the slice of its iteration.
QueueOK(i) ==
  \A n \in 1 .. Len(q[i]) : q[i][n].val = SentVal(i, q[i][n].ph, q[i][n].ix)

SliceValues == \A i \in Ring : SliceOK(i)

QueueValues == \A i \in Ring : QueueOK(i)

\* The inductive invariant behind AllReduceCorrect.
VInv == RInv /\ SliceValues /\ QueueValues

-----------------------------------------------------------------------------
(* Distances on the ring.                                                   *)

\* The ring has at least one worker.
LEMMA NType == N \in Nat \ {0}
BY ConstAssumption

\* The distance of two workers, or of a worker's successor and a worker.
LEMMA DistVal ==
  ASSUME NEW c \in 0 .. N, NEW s \in Ring
  PROVE  Dist(c, s) = IF c - s < 0 THEN c - s + N ELSE IF c - s < N THEN c - s ELSE c - s - N
<1>1. c - s \in Int /\ -N <= c - s /\ c - s < 2 * N
  BY NType DEF Ring
<1>2. QED
  BY <1>1, ModVal DEF Dist

LEMMA DistInRing ==
  ASSUME NEW c \in 0 .. N, NEW s \in Ring
  PROVE  Dist(c, s) \in Ring
BY DistVal, NType DEF Ring

\* A worker is at a given distance from only one slice id.
LEMMA DistInjective ==
  ASSUME NEW c \in 0 .. N, NEW s \in Ring, NEW r \in Ring, Dist(c, s) = Dist(c, r)
  PROVE  s = r
<1>1. Dist(c, s) = IF c - s < 0 THEN c - s + N ELSE IF c - s < N THEN c - s ELSE c - s - N
  BY DistVal
<1>2. Dist(c, r) = IF c - r < 0 THEN c - r + N ELSE IF c - r < N THEN c - r ELSE c - r - N
  BY DistVal
<1>3. QED
  BY <1>1, <1>2, NType DEF Ring, Dist

\* The slice sent in iteration k is k places before the sender.
LEMMA SendBack ==
  ASSUME NEW x \in 0 .. N, NEW k \in 0 .. N - 1
  PROVE  (x - ((x - k) % N)) % N = k
<1> DEFINE y == x - k
<1>1. y \in Int /\ -N <= y /\ y < 2 * N
  BY NType
<1>2. y % N = IF y < 0 THEN y + N ELSE IF y < N THEN y ELSE y - N
  BY <1>1, ModNear, NType
<1> DEFINE z == x - (y % N)
<1>3. z \in Int /\ -N <= z /\ z < 2 * N
  BY <1>2, NType
<1>4. z % N = IF z < 0 THEN z + N ELSE IF z < N THEN z ELSE z - N
  BY <1>3, ModNear, NType
<1>5. QED
  BY <1>2, <1>4, NType

\* The slice received in iteration k is k + 1 places before the receiver.
LEMMA RecvBack ==
  ASSUME NEW x \in 0 .. N, NEW k \in 0 .. N - 2
  PROVE  (x - ((((x - k) % N) - 1) % N)) % N = k + 1
<1> DEFINE y == x - k
<1>1. y \in Int /\ -N <= y /\ y < 2 * N
  BY NType
<1>2. y % N = IF y < 0 THEN y + N ELSE IF y < N THEN y ELSE y - N
  BY <1>1, ModNear, NType
<1> DEFINE u == (y % N) - 1
<1>3. u \in Int /\ -N <= u /\ u < 2 * N
  BY <1>2, NType
<1>4. u % N = IF u < 0 THEN u + N ELSE IF u < N THEN u ELSE u - N
  BY <1>3, ModNear, NType
<1> DEFINE z == x - (u % N)
<1>5. z \in Int /\ -N <= z /\ z < 2 * N
  BY <1>2, <1>4, NType
<1>6. z % N = IF z < 0 THEN z + N ELSE IF z < N THEN z ELSE z - N
  BY <1>5, ModNear, NType
<1>7. QED
  BY <1>2, <1>4, <1>6, NType

\* How far the slices of iteration (p, k) are from the worker, or from its
\* successor in the all-gather loop.
LEMMA IdDists ==
  ASSUME NEW i \in Ring, NEW k \in 0 .. N - 2
  PROVE  /\ SendIdAt(i, "rs", k) \in Ring /\ Dist(i, SendIdAt(i, "rs", k)) = k
         /\ SendIdAt(i, "ag", k) \in Ring /\ Dist(i + 1, SendIdAt(i, "ag", k)) = k
         /\ RecvIdAt(i, "rs", k) \in Ring /\ Dist(i, RecvIdAt(i, "rs", k)) = k + 1
         /\ RecvIdAt(i, "ag", k) \in Ring /\ Dist(i + 1, RecvIdAt(i, "ag", k)) = k + 1
<1>1. i \in 0 .. N /\ i + 1 \in 0 .. N /\ k \in 0 .. N - 1 /\ i \in Int /\ k \in Int
  BY NType DEF Ring
<1>2. (i - ((i - k) % N)) % N = k
  BY <1>1, SendBack
<1> DEFINE j == i + 1
<1>3. j \in 0 .. N
  BY <1>1
<1>4. (j - ((j - k) % N)) % N = k
  BY <1>1, <1>3, SendBack
<1>5. (i - ((((i - k) % N) - 1) % N)) % N = k + 1
  BY <1>1, RecvBack
<1>6. (j - ((((j - k) % N) - 1) % N)) % N = k + 1
  BY <1>1, <1>3, RecvBack
<1>7. /\ (i - k) % N \in Ring /\ (j - k) % N \in Ring
      /\ (((i - k) % N) - 1) % N \in Ring /\ (((j - k) % N) - 1) % N \in Ring
  BY <1>1, NType DEF Ring
<1>8. i + 1 - k = j - k
  BY <1>1
<1>9. QED
  BY <1>2, <1>4, <1>5, <1>6, <1>7, <1>8 DEF SendIdAt, RecvIdAt, Dist

\* One place further round the ring.
LEMMA DistSucc ==
  ASSUME NEW i \in Ring, NEW s \in Ring
  PROVE  Dist(i + 1, s) = IF Dist(i, s) = N - 1 THEN 0 ELSE Dist(i, s) + 1
<1> DEFINE j == i + 1
<1>1. i \in 0 .. N /\ j \in 0 .. N
  BY NType DEF Ring
<1>2. Dist(i, s) = IF i - s < 0 THEN i - s + N ELSE IF i - s < N THEN i - s ELSE i - s - N
  BY <1>1, DistVal
<1>3. Dist(j, s) = IF j - s < 0 THEN j - s + N ELSE IF j - s < N THEN j - s ELSE j - s - N
  BY <1>1, DistVal
<1>4. QED
  BY <1>2, <1>3, NType DEF Ring, Dist

-----------------------------------------------------------------------------
(* Slice values.                                                            *)

\* A worker is at distance 0 only from itself: no other gradient is added.
LEMMA UptoZero ==
  ASSUME NEW i \in Ring
  PROVE  Upto(i, 0) = Own(i)
<1>1. ASSUME NEW j \in Ring PROVE (Dist(i, j) <= 0) <=> (j = i)
  <2>1. i \in 0 .. N
    BY NType DEF Ring
  <2>2. Dist(i, j) = IF i - j < 0 THEN i - j + N ELSE IF i - j < N THEN i - j ELSE i - j - N
    BY <2>1, DistVal
  <2>3. QED
    BY <2>2, NType DEF Ring, Dist
<1>2. QED
  BY <1>1 DEF Upto, Own

\* Every worker is at most N - 1 places away: all gradients are added.
LEMMA UptoFull ==
  ASSUME NEW i \in Ring
  PROVE  Upto(i, N - 1) = Reduced
<1>1. ASSUME NEW j \in Ring PROVE Dist(i, j) <= N - 1
  <2>1. i \in 0 .. N
    BY NType DEF Ring
  <2>2. Dist(i, j) \in Ring
    BY <2>1, DistInRing
  <2>3. QED
    BY <2>2, NType DEF Ring
<1>2. QED
  BY <1>1 DEF Upto, Reduced

\* On a ring of one, a worker's own gradient is already the sum.
LEMMA OwnAlone ==
  ASSUME N = 1, NEW i \in Ring
  PROVE  Own(i) = Reduced
BY DEF Own, Reduced, Ring

(* grad_list_to_add[i] += recv_grad_slice[i] in reduce-scatter iteration k: *)
(* the predecessor's gradients of Pred(i) - k .. Pred(i) and i's own make   *)
(* those of i - (k + 1) .. i.                                               *)
LEMMA AddPred ==
  ASSUME N > 1, NEW i \in Ring, NEW k \in 0 .. N - 2
  PROVE  AddSlice(Own(i), Upto(Pred(i), k)) = Upto(i, k + 1)
<1> DEFINE P == Pred(i)
<1>0. P = IF i = 0 THEN N - 1 ELSE i - 1
  BY PredIs
<1>1. P = (IF i = 0 THEN N - 1 ELSE i - 1) /\ P \in Ring
  BY <1>0, NType DEF Ring
<1>2. ASSUME NEW j \in Ring
      PROVE  (IF j = i THEN 1 ELSE 0) + (IF Dist(P, j) <= k THEN 1 ELSE 0)
             = IF Dist(i, j) <= k + 1 THEN 1 ELSE 0
  <2>1. i \in 0 .. N /\ P \in 0 .. N
    BY <1>1, NType DEF Ring
  <2>2. Dist(i, j) = IF i - j < 0 THEN i - j + N ELSE IF i - j < N THEN i - j ELSE i - j - N
    BY <2>1, DistVal
  <2>3. Dist(P, j) = IF P - j < 0 THEN P - j + N ELSE IF P - j < N THEN P - j ELSE P - j - N
    BY <2>1, DistVal
  <2>4. QED
    BY <1>1, <2>2, <2>3, NType DEF Ring, Dist
<1>3. QED
  BY <1>2 DEF AddSlice, Upto, Own


\* ForwardEnd: every slice starts as the worker's own gradient.
LEMMA StartSlice ==
  ASSUME NEW i \in Ring, NEW s \in Ring
  PROVE  SliceAt(i, "rs", 0, s) = Own(i)
<1>1. i \in 0 .. N
  BY NType DEF Ring
<1>2. Dist(i, s) \in Ring
  BY <1>1, DistInRing
<1>3. (IF Dist(i, s) <= 0 THEN Dist(i, s) ELSE 0) = 0
  BY <1>2, NType DEF Ring, Dist
<1>4. QED
  BY <1>3, UptoZero, Zenon DEF SliceAt

\* aggr_msg_q.put(grad_lists[send_slice_id]) puts the slice of its iteration.
LEMMA SentSlice ==
  ASSUME NEW i \in Ring, NEW k \in 0 .. N - 2, NEW p \in {"rs", "ag"}
  PROVE  SliceAt(i, p, k, SendIdAt(i, p, k)) = SentVal(i, p, k)
<1>1. k <= k /\ "ag" # "rs"
  BY NType
<1>2. CASE p = "rs"
  <2>1. Dist(i, SendIdAt(i, "rs", k)) = k
    BY IdDists
  <2>2. QED
    BY <1>1, <1>2, <2>1, Zenon DEF SliceAt, SentVal
<1>3. CASE p = "ag"
  <2>1. Dist(i + 1, SendIdAt(i, "ag", k)) = k
    BY IdDists
  <2>2. QED
    BY <1>1, <1>3, <2>1, Zenon DEF SliceAt, SentVal
<1>4. QED
  BY <1>2, <1>3

\* The slice a reduce-scatter iteration receives into still holds only the
\* worker's own gradient.
LEMMA RsRecvOwn ==
  ASSUME NEW i \in Ring, NEW k \in 0 .. N - 2
  PROVE  SliceAt(i, "rs", k, RecvIdAt(i, "rs", k)) = Own(i)
<1>1. Dist(i, RecvIdAt(i, "rs", k)) = k + 1
  BY IdDists
<1>2. (IF Dist(i, RecvIdAt(i, "rs", k)) <= k THEN Dist(i, RecvIdAt(i, "rs", k)) ELSE 0) = 0
  BY <1>1, NType
<1>3. QED
  BY <1>2, UptoZero, Zenon DEF SliceAt

\* A reduce-scatter iteration that is not the last: the received slice is
\* the one k + 1 places back, and no other slice changes.
LEMMA RsStepAt ==
  ASSUME NEW i \in Ring, NEW k \in 0 .. N - 3, NEW s \in Ring
  PROVE  (IF s = RecvIdAt(i, "rs", k) THEN Upto(i, k + 1) ELSE SliceAt(i, "rs", k, s))
         = SliceAt(i, "rs", k + 1, s)
<1> DEFINE r == RecvIdAt(i, "rs", k)
<1>0. k \in 0 .. N - 2 /\ i \in 0 .. N
  BY NType DEF Ring
<1>1. r \in Ring /\ Dist(i, r) = k + 1
  BY <1>0, IdDists
<1>2. CASE s = r
  <2>1. (IF Dist(i, r) <= k + 1 THEN Dist(i, r) ELSE 0) = k + 1
    BY <1>1, NType
  <2>2. QED
    BY <1>2, <2>1, Zenon DEF SliceAt
<1>3. CASE s # r
  <2>1. Dist(i, s) # Dist(i, r)
    BY <1>0, <1>1, <1>3, DistInjective, Zenon
  <2>2. Dist(i, s) \in Ring
    BY <1>0, DistInRing
  <2>3. (IF Dist(i, s) <= k THEN Dist(i, s) ELSE 0) = (IF Dist(i, s) <= k + 1 THEN Dist(i, s) ELSE 0)
    BY <1>1, <2>1, <2>2, NType DEF Ring, Dist
  <2>4. QED
    BY <1>3, <2>3, Zenon DEF SliceAt
<1>4. QED
  BY <1>2, <1>3

\* The last reduce-scatter iteration: the received slice, (i + 1) % N, now
\* holds every gradient, and the all-gather loop starts.
LEMMA RsLastAt ==
  ASSUME NEW i \in Ring, NEW k \in 0 .. N - 2, k = N - 2, NEW s \in Ring
  PROVE  (IF s = RecvIdAt(i, "rs", k) THEN Upto(i, k + 1) ELSE SliceAt(i, "rs", k, s))
         = SliceAt(i, "ag", 0, s)
<1> DEFINE r == RecvIdAt(i, "rs", k)
<1>0. i \in 0 .. N /\ k + 1 = N - 1 /\ "ag" # "rs"
  BY NType DEF Ring
<1>1. r \in Ring /\ Dist(i, r) = k + 1
  BY <1>0, IdDists
<1>2. CASE s = r
  <2>1. Dist(i + 1, r) = 0
    <3>1. Dist(i + 1, r) = IF Dist(i, r) = N - 1 THEN 0 ELSE Dist(i, r) + 1
      BY <1>1, DistSucc
    <3>2. QED
      BY <1>0, <1>1, <3>1
  <2>2. Upto(i, k + 1) = Reduced
    BY <1>0, UptoFull
  <2>3. 0 <= 0
    OBVIOUS
  <2>4. QED
    BY <1>0, <1>2, <2>1, <2>2, <2>3, Zenon DEF SliceAt
<1>3. CASE s # r
  <2>1. Dist(i, s) # Dist(i, r)
    BY <1>0, <1>1, <1>3, DistInjective, Zenon
  <2>2. Dist(i, s) \in Ring
    BY <1>0, DistInRing
  <2>3. Dist(i + 1, s) = IF Dist(i, s) = N - 1 THEN 0 ELSE Dist(i, s) + 1
    BY DistSucc
  <2>4. ~(Dist(i + 1, s) <= 0) /\ Dist(i, s) <= k
    BY <1>0, <1>1, <2>1, <2>2, <2>3, NType DEF Ring, Dist
  <2>5. QED
    BY <1>0, <1>3, <2>4, Zenon DEF SliceAt
<1>4. QED
  BY <1>2, <1>3

\* An all-gather iteration that is not the last: one more slice is reduced.
LEMMA AgStepAt ==
  ASSUME NEW i \in Ring, NEW k \in 0 .. N - 3, NEW s \in Ring
  PROVE  (IF s = RecvIdAt(i, "ag", k) THEN Reduced ELSE SliceAt(i, "ag", k, s))
         = SliceAt(i, "ag", k + 1, s)
<1> DEFINE r == RecvIdAt(i, "ag", k)  j == i + 1
<1>0. k \in 0 .. N - 2 /\ j \in 0 .. N /\ "ag" # "rs"
  BY NType DEF Ring
<1>1. r \in Ring /\ Dist(j, r) = k + 1
  BY <1>0, IdDists
<1>2. CASE s = r
  <2>1. Dist(j, r) <= k + 1
    BY <1>1, NType
  <2>2. QED
    BY <1>0, <1>2, <2>1, Zenon DEF SliceAt
<1>3. CASE s # r
  <2>1. Dist(j, s) # Dist(j, r)
    BY <1>0, <1>1, <1>3, DistInjective, Zenon
  <2>2. Dist(j, s) \in Ring
    BY <1>0, DistInRing
  <2>3. (Dist(j, s) <= k) <=> (Dist(j, s) <= k + 1)
    BY <1>1, <2>1, <2>2, NType DEF Ring, Dist
  <2>4. QED
    BY <1>0, <1>3, <2>3, Zenon DEF SliceAt
<1>4. QED
  BY <1>2, <1>3

\* The last all-gather iteration: every slice is reduced.
LEMMA AgLastAt ==
  ASSUME NEW i \in Ring, NEW k \in 0 .. N - 2, k = N - 2, NEW s \in Ring
  PROVE  (IF s = RecvIdAt(i, "ag", k) THEN Reduced ELSE SliceAt(i, "ag", k, s)) = Reduced
<1> DEFINE r == RecvIdAt(i, "ag", k)  j == i + 1
<1>0. j \in 0 .. N /\ "ag" # "rs"
  BY NType DEF Ring
<1>1. r \in Ring /\ Dist(j, r) = k + 1
  BY <1>0, IdDists
<1>2. CASE s # r
  <2>1. Dist(j, s) # Dist(j, r)
    BY <1>0, <1>1, <1>2, DistInjective, Zenon
  <2>2. Dist(j, s) \in Ring
    BY <1>0, DistInRing
  <2>3. Dist(j, s) <= k
    BY <1>1, <2>1, <2>2, NType DEF Ring, Dist
  <2>4. QED
    BY <1>0, <1>2, <2>3, Zenon DEF SliceAt
<1>3. QED
  BY <1>2

-----------------------------------------------------------------------------
(* The steps of the workers and of the tester.                             *)

\* A worker's slices are its own: a step of another worker leaves them be.
LEMMA SliceFrame ==
  ASSUME NEW j \in Ring, SliceOK(j),
         pc'[j] = pc[j], ph'[j] = ph[j], ix'[j] = ix[j],
         slices'[j] = slices[j], applied'[j] = applied[j]
  PROVE  SliceOK(j)'
BY DEF SliceOK

LEMMA QueueFrame ==
  ASSUME NEW j \in Ring, QueueOK(j), q'[j] = q[j]
  PROVE  QueueOK(j)'
BY DEF QueueOK

\* A step that changes no slice, no queue and no loop position.
LEMMA QuietValues ==
  ASSUME SliceValues, QueueValues, UNCHANGED <<pc, ph, ix, slices, applied, q>>
  PROVE  SliceValues' /\ QueueValues'
BY DEF SliceValues, SliceOK, QueueValues, QueueOK

\* A step of worker i that changes only its pc, to a place where SliceOK(i)
\* holds; the other workers' slices and every queue stay as they were.
LEMMA PcOnlyValues ==
  ASSUME TypeOK, SliceValues, QueueValues, NEW i \in Ring, NEW v, SliceOK(i)',
         pc' = [pc EXCEPT ![i] = v], UNCHANGED <<ph, ix, slices, applied, q>>
  PROVE  SliceValues' /\ QueueValues'
<1>1. ASSUME NEW j \in Ring, j # i PROVE SliceOK(j)'
  <2>1. pc'[j] = pc[j]
    BY <1>1 DEF TypeOK
  <2>2. QED
    BY <1>1, <2>1, SliceFrame DEF SliceValues
<1>2. QED
  BY <1>1, QuietValues DEF SliceValues, QueueValues, QueueOK

LEMMA ForwardBeginValues ==
  ASSUME TypeOK, SliceValues, QueueValues, NEW i \in Ring, ForwardBegin(i)
  PROVE  SliceValues' /\ QueueValues'
<1>1. pc' = [pc EXCEPT ![i] = "fwd"] /\ UNCHANGED <<ph, ix, slices, applied, q>>
  BY DEF ForwardBegin
<1>2. SliceOK(i)'
  BY <1>1 DEF SliceOK, TypeOK
<1>3. pc' = [pc EXCEPT ![i] = "fwd"]
  BY <1>1
<1>4. UNCHANGED <<ph, ix, slices, applied, q>>
  BY <1>1
<1>5. QED
  BY <1>2, <1>3, <1>4, PcOnlyValues, Zenon

LEMMA UpdateValues ==
  ASSUME TypeOK, SliceValues, QueueValues, NEW i \in Ring, Update(i)
  PROVE  SliceValues' /\ QueueValues'
<1>1. /\ pc[i] = "update" /\ pc' = [pc EXCEPT ![i] = "poll"]
      /\ applied' = [applied EXCEPT ![i] = slices[i]]
      /\ UNCHANGED <<ph, ix, slices, q>>
  BY DEF Update
<1>2. SliceOK(i)
  BY DEF SliceValues
<1>3. slices[i] = [s \in Ring |-> Reduced]
  BY <1>1, <1>2 DEF SliceOK
<1>4. SliceOK(i)'
  BY <1>1, <1>3 DEF SliceOK, TypeOK
<1>5. ASSUME NEW j \in Ring, j # i PROVE SliceOK(j)'
  <2>1. pc'[j] = pc[j] /\ applied'[j] = applied[j]
    BY <1>1, <1>5 DEF TypeOK
  <2>2. QED
    BY <1>1, <2>1, SliceFrame DEF SliceValues
<1>6. QED
  BY <1>1, <1>4, <1>5 DEF SliceValues, QueueValues, QueueOK

LEMMA PollStopValues ==
  ASSUME TypeOK, SliceValues, QueueValues, NEW i \in Ring, PollStop(i)
  PROVE  SliceValues' /\ QueueValues'
<1>1. /\ pc[i] = "poll"
      /\ pc' = [pc EXCEPT ![i] = IF step[i] < Iters[i] THEN "compute" ELSE "done"]
      /\ UNCHANGED <<ph, ix, slices, applied, q>>
  BY DEF PollStop
<1>2. SliceOK(i)
  BY DEF SliceValues
<1>3. slices[i] = [s \in Ring |-> Reduced] /\ applied[i] = [s \in Ring |-> Reduced]
  BY <1>1, <1>2 DEF SliceOK
<1>4. pc'[i] \in {"compute", "done"}
  BY <1>1 DEF TypeOK
<1>5. SliceOK(i)'
  BY <1>1, <1>3, <1>4 DEF SliceOK
<1>6. pc' = [pc EXCEPT ![i] = IF step[i] < Iters[i] THEN "compute" ELSE "done"]
  BY <1>1
<1>7. UNCHANGED <<ph, ix, slices, applied, q>>
  BY <1>1
<1>8. QED
  BY <1>5, <1>6, <1>7, PcOnlyValues, Zenon

LEMMA ForwardEndValues ==
  ASSUME TypeOK, SliceValues, QueueValues, NEW i \in Ring, ForwardEnd(i)
  PROVE  SliceValues' /\ QueueValues'
<1>0. pc[i] = "fwd" /\ UNCHANGED <<applied, q>>
  BY DEF ForwardEnd
<1>1. CASE moved[i] /\ pc' = [pc EXCEPT ![i] = "crashed"] /\ UNCHANGED <<ph, ix, slices, moved>>
  <2>1. SliceOK(i)'
    BY <1>1 DEF SliceOK, TypeOK
  <2>2. pc' = [pc EXCEPT ![i] = "crashed"]
    BY <1>1
  <2>3. UNCHANGED <<ph, ix, slices, applied, q>>
    BY <1>0, <1>1
  <2>4. QED
    BY <2>1, <2>2, <2>3, PcOnlyValues, Zenon
<1>2. CASE /\ slices' = [slices EXCEPT ![i] = [s \in Ring |-> Own(i)]]
           /\ ph' = [ph EXCEPT ![i] = "rs"]
           /\ ix' = [ix EXCEPT ![i] = 0]
           /\ pc' = [pc EXCEPT ![i] = IF N = 1 THEN "update" ELSE "put"]
  <2>1. /\ slices'[i] = [s \in Ring |-> Own(i)] /\ ph'[i] = "rs" /\ ix'[i] = 0
        /\ pc'[i] = IF N = 1 THEN "update" ELSE "put"
    BY <1>2 DEF TypeOK
  <2>2. SliceOK(i)'
    <3>1. CASE N = 1
      <4>1. [s \in Ring |-> Own(i)] = [s \in Ring |-> Reduced]
        BY <3>1, OwnAlone
      <4>2. QED
        BY <2>1, <3>1, <4>1 DEF SliceOK
    <3>2. CASE N # 1
      <4>1. [s \in Ring |-> Own(i)] = [s \in Ring |-> SliceAt(i, "rs", 0, s)]
        BY StartSlice
      <4>2. QED
        BY <2>1, <3>2, <4>1 DEF SliceOK
    <3>3. QED
      BY <3>1, <3>2
  <2>3. ASSUME NEW j \in Ring, j # i PROVE SliceOK(j)'
    <3>1. pc'[j] = pc[j] /\ ph'[j] = ph[j] /\ ix'[j] = ix[j] /\ slices'[j] = slices[j]
      BY <1>2, <2>3 DEF TypeOK
    <3>2. QED
      BY <1>0, <3>1, SliceFrame DEF SliceValues
  <2>4. QED
    BY <1>0, <2>2, <2>3 DEF SliceValues, QueueValues, QueueOK
<1>3. QED
  BY <1>1, <1>2 DEF ForwardEnd

LEMMA PutValues ==
  ASSUME RInv, SliceValues, QueueValues, NEW i \in Ring, Put(i)
  PROVE  SliceValues' /\ QueueValues'
<1>0. TypeOK /\ InStep
  BY DEF RInv
<1> DEFINE msg == [st |-> step[i], ph |-> ph[i], ix |-> ix[i], sid |-> SendId(i),
                   val |-> slices[i][SendId(i)]]
<1>1. /\ pc[i] = "put" /\ pc' = [pc EXCEPT ![i] = "get"]
      /\ q' = [q EXCEPT ![i] = Append(q[i], msg)]
      /\ UNCHANGED <<ph, ix, slices, applied>>
  BY DEF Put
<1>2. ix[i] \in 0 .. N - 2 /\ ph[i] \in {"rs", "ag"} /\ q[i] \in Seq(Msg)
  BY <1>0, <1>1, InStepAt, TypeAt
<1>3. SliceOK(i)
  BY DEF SliceValues
<1>4. slices[i] = [s \in Ring |-> SliceAt(i, ph[i], ix[i], s)]
  BY <1>1, <1>3 DEF SliceOK
<1>5. SendId(i) = SendIdAt(i, ph[i], ix[i]) /\ SendId(i) \in Ring
  BY <1>0, IdsInRing DEF SendId, SendIdAt
<1>6. msg.val = SentVal(i, msg.ph, msg.ix)
  <2>1. slices[i][SendId(i)] = SliceAt(i, ph[i], ix[i], SendIdAt(i, ph[i], ix[i]))
    BY <1>4, <1>5
  <2>2. QED
    BY <1>2, <2>1, SentSlice
<1>7. SliceOK(i)'
  <2>1. pc'[i] = "get"
    BY <1>0, <1>1 DEF TypeOK
  <2>2. QED
    BY <1>1, <1>4, <2>1 DEF SliceOK
<1>8. ASSUME NEW j \in Ring, j # i PROVE SliceOK(j)'
  <2>1. pc'[j] = pc[j]
    BY <1>1, <1>8 DEF TypeOK
  <2>2. QED
    BY <1>1, <2>1, SliceFrame DEF SliceValues
<1>9. QueueOK(i)'
  <2> SUFFICES ASSUME NEW n \in 1 .. Len(q'[i])
               PROVE  q'[i][n].val = SentVal(i, q'[i][n].ph, q'[i][n].ix)
    BY DEF QueueOK
  <2>1. q'[i] = Append(q[i], msg)
    BY <1>0, <1>1 DEF TypeOK
  <2>2. CASE n \in 1 .. Len(q[i])
    <3>1. q'[i][n] = q[i][n]
      BY <1>2, <2>1, <2>2
    <3>2. QED
      BY <2>2, <3>1 DEF QueueValues, QueueOK
  <2>3. CASE n = Len(q[i]) + 1
    <3>1. q'[i][n] = msg
      BY <1>2, <2>1, <2>3
    <3>2. QED
      BY <1>6, <3>1
  <2>4. QED
    BY <1>2, <2>1, <2>2, <2>3
<1>10. ASSUME NEW j \in Ring, j # i PROVE QueueOK(j)'
  <2>1. q'[j] = q[j]
    BY <1>0, <1>1, <1>10 DEF TypeOK
  <2>2. QED
    BY <2>1, QueueFrame DEF QueueValues
<1>11. QED
  BY <1>7, <1>8, <1>9, <1>10 DEF SliceValues, QueueValues

LEMMA TesterValues ==
  ASSUME SliceValues, QueueValues, TesterFetch
  PROVE  SliceValues' /\ QueueValues'
<1>1. UNCHANGED <<pc, ph, ix, slices, applied, q>>
  BY DEF TesterFetch
<1>2. QED
  BY <1>1, QuietValues

(* get_gradient_slice: the head of Pred(i)'s queue was put in i's current  *)
(* iteration, so adding it (reduce-scatter) or storing it (all-gather)      *)
(* moves grad_lists to the values of the next iteration.                    *)
LEMMA GetValues ==
  ASSUME RInv, SliceValues, QueueValues, NEW i \in Ring, Get(i)
  PROVE  SliceValues' /\ QueueValues'
<1>0. TypeOK /\ InStep /\ HandOffInOrder
  BY HandOffFromRInv DEF RInv
<1> DEFINE P == Pred(i)  r == RecvId(i)  m == Head(q[P])  k == ix[i]  p == ph[i]
           V == Combine(i, m.val)
<1>1. /\ pc[i] = "get" /\ q[P] # <<>>
      /\ q' = [q EXCEPT ![P] = Tail(q[P])]
      /\ slices' = [slices EXCEPT ![i][r] = V]
      /\ UNCHANGED applied
  BY DEF Get
<1>2. /\ N > 1 /\ k \in 0 .. N - 2 /\ p \in {"rs", "ag"}
      /\ P \in Ring /\ r \in Ring /\ q[P] \in Seq(Msg) /\ slices[i] \in [Ring -> SliceVal]
  <2>1. P \in Ring /\ r \in Ring
    BY <1>0, IdsInRing
  <2>2. QED
    BY <1>0, <1>1, <2>1, InStepAt, TypeAt
<1>3. m.ph = p /\ m.ix = k
  BY <1>0, <1>1 DEF HandOffInOrder
<1>4. m.val = SentVal(P, p, k)
  <2>1. 1 \in 1 .. Len(q[P]) /\ m = q[P][1]
    BY <1>1, <1>2
  <2>2. QueueOK(P)
    BY <1>2 DEF QueueValues
  <2>3. QED
    BY <1>3, <2>1, <2>2 DEF QueueOK
<1>5. r = RecvIdAt(i, p, k)
  BY DEF RecvId, RecvIdAt, SendId, SendIdAt
<1>6. slices[i] = [s \in Ring |-> SliceAt(i, p, k, s)]
  <2>1. SliceOK(i)
    BY DEF SliceValues
  <2>2. QED
    BY <1>1, <2>1 DEF SliceOK
<1>7. V = IF p = "rs" THEN Upto(i, k + 1) ELSE Reduced
  <2>1. CASE p = "rs"
    <3>1. slices[i][r] = Own(i)
      <4>1. slices[i][r] = SliceAt(i, "rs", k, RecvIdAt(i, "rs", k))
        BY <1>2, <1>5, <1>6, <2>1
      <4>2. QED
        BY <1>2, <4>1, RsRecvOwn
    <3>2. m.val = Upto(P, k)
      BY <1>4, <2>1 DEF SentVal
    <3>3. V = AddSlice(Own(i), Upto(P, k))
      BY <2>1, <3>1, <3>2 DEF Combine
    <3>4. QED
      BY <1>2, <2>1, <3>3, AddPred
  <2>2. CASE p = "ag"
    BY <1>4, <2>2 DEF Combine, SentVal
  <2>3. QED
    BY <1>2, <2>1, <2>2
<1>8. /\ slices'[i] = [slices[i] EXCEPT ![r] = V]
      /\ \A j \in Ring \ {i} : slices'[j] = slices[j]
  BY <1>0, <1>1 DEF TypeOK
<1>9. slices'[i] \in [Ring -> SliceVal]
  <2>1. TypeOK'
    BY <1>0, TypeStep DEF Next
  <2>2. QED
    BY <2>1 DEF TypeOK
<1>10. ASSUME NEW s \in Ring PROVE slices'[i][s] = IF s = r THEN V ELSE SliceAt(i, p, k, s)
  BY <1>2, <1>6, <1>8
<1>11. SliceOK(i)'
  <2>1. CASE k < LastIdx
    <3>0. k # LastIdx /\ k \in 0 .. N - 3
      BY <1>2, <2>1, NType DEF LastIdx
    <3>1. ix' = [ix EXCEPT ![i] = @ + 1] /\ pc' = [pc EXCEPT ![i] = "put"] /\ UNCHANGED ph
      BY <2>1, <3>0 DEF Get
    <3>2. ASSUME NEW s \in Ring PROVE slices'[i][s] = SliceAt(i, p, k + 1, s)
      <4>1. CASE p = "rs"
        <5>1. slices'[i][s] = IF s = RecvIdAt(i, "rs", k) THEN Upto(i, k + 1) ELSE SliceAt(i, "rs", k, s)
          BY <1>5, <1>7, <1>10, <4>1
        <5>2. QED
          BY <3>0, <4>1, <5>1, RsStepAt
      <4>2. CASE p = "ag"
        <5>1. slices'[i][s] = IF s = RecvIdAt(i, "ag", k) THEN Reduced ELSE SliceAt(i, "ag", k, s)
          BY <1>5, <1>7, <1>10, <4>2
        <5>2. QED
          BY <3>0, <4>2, <5>1, AgStepAt
      <4>3. QED
        BY <1>2, <4>1, <4>2
    <3>3. slices'[i] = [s \in Ring |-> SliceAt(i, p, k + 1, s)]
      BY <1>9, <3>2, Zenon
    <3>4. pc'[i] = "put" /\ ph'[i] = p /\ ix'[i] = k + 1
      BY <1>0, <3>1 DEF TypeOK
    <3>5. QED
      BY <3>3, <3>4 DEF SliceOK
  <2>2. CASE k = LastIdx /\ p = "rs"
    <3>0. ~(k < LastIdx) /\ k = N - 2 /\ p # "ag"
      BY <1>2, <2>2 DEF LastIdx
    <3>1. ph' = [ph EXCEPT ![i] = "ag"] /\ ix' = [ix EXCEPT ![i] = 0] /\ pc' = [pc EXCEPT ![i] = "put"]
      BY <2>2, <3>0 DEF Get
    <3>2. ASSUME NEW s \in Ring PROVE slices'[i][s] = SliceAt(i, "ag", 0, s)
      <4>1. slices'[i][s] = IF s = RecvIdAt(i, "rs", k) THEN Upto(i, k + 1) ELSE SliceAt(i, "rs", k, s)
        BY <1>5, <1>7, <1>10, <2>2
      <4>2. QED
        BY <1>2, <3>0, <4>1, RsLastAt
    <3>3. slices'[i] = [s \in Ring |-> SliceAt(i, "ag", 0, s)]
      BY <1>9, <3>2, Zenon
    <3>4. pc'[i] = "put" /\ ph'[i] = "ag" /\ ix'[i] = 0
      BY <1>0, <3>1 DEF TypeOK
    <3>5. QED
      BY <3>3, <3>4 DEF SliceOK
  <2>3. CASE k = LastIdx /\ p = "ag"
    <3>0. ~(k < LastIdx) /\ k = N - 2 /\ p # "rs"
      BY <1>2, <2>3 DEF LastIdx
    <3>1. pc' = [pc EXCEPT ![i] = "update"]
      BY <2>3, <3>0 DEF Get
    <3>2. ASSUME NEW s \in Ring PROVE slices'[i][s] = Reduced
      <4>1. slices'[i][s] = IF s = RecvIdAt(i, "ag", k) THEN Reduced ELSE SliceAt(i, "ag", k, s)
        BY <1>5, <1>7, <1>10, <2>3, <3>0
      <4>2. QED
        BY <1>2, <3>0, <4>1, AgLastAt
    <3>3. slices'[i] = [s \in Ring |-> Reduced]
      BY <1>9, <3>2, Zenon
    <3>4. pc'[i] = "update"
      BY <1>0, <3>1 DEF TypeOK
    <3>5. QED
      BY <3>3, <3>4 DEF SliceOK
  <2>4. QED
    BY <1>2, <2>1, <2>2, <2>3, NType DEF LastIdx
<1>12. ASSUME NEW j \in Ring, j # i PROVE SliceOK(j)'
  <2>1. pc'[j] = pc[j] /\ ph'[j] = ph[j] /\ ix'[j] = ix[j]
    BY <1>0, <1>12 DEF Get, TypeOK
  <2>2. QED
    BY <1>1, <1>8, <1>12, <2>1, SliceFrame DEF SliceValues
<1>13. QueueOK(P)'
  <2> SUFFICES ASSUME NEW n \in 1 .. Len(q'[P])
               PROVE  q'[P][n].val = SentVal(P, q'[P][n].ph, q'[P][n].ix)
    BY DEF QueueOK
  <2>1. q'[P] = Tail(q[P])
    BY <1>0, <1>1, <1>2 DEF TypeOK
  <2>2. /\ Len(Tail(q[P])) = Len(q[P]) - 1 /\ Len(q[P]) \in Nat
        /\ \A x \in 1 .. Len(Tail(q[P])) : Tail(q[P])[x] = q[P][x + 1]
    <3>1. Tail(q[P]) \in Seq(Msg) /\ Len(Tail(q[P])) = Len(q[P]) - 1
          /\ \A x \in 1 .. Len(Tail(q[P])) : Tail(q[P])[x] = q[P][x + 1]
      BY <1>1, <1>2, HeadTailProperties, Zenon
    <3>2. QED
      BY <1>2, <3>1
  <2>3. n + 1 \in 1 .. Len(q[P]) /\ q'[P][n] = q[P][n + 1]
    BY <2>1, <2>2
  <2>4. QED
    BY <1>2, <2>3 DEF QueueValues, QueueOK
<1>14. ASSUME NEW j \in Ring, j # P PROVE QueueOK(j)'
  <2>1. q'[j] = q[j]
    BY <1>0, <1>1, <1>14 DEF TypeOK
  <2>2. QED
    BY <2>1, QueueFrame DEF QueueValues
<1>15. QED
  BY <1>11, <1>12, <1>13, <1>14 DEF SliceValues, QueueValues

-----------------------------------------------------------------------------
(* The theorem.                                                             *)

\* Worker.__init__: nothing is queued and no loop has started.
LEMMA InitValues == Init => SliceValues /\ QueueValues
BY DEF Init, SliceValues, SliceOK, QueueValues, QueueOK

LEMMA ValuesStep ==
  RInv /\ SliceValues /\ QueueValues /\ [Next]_vars => SliceValues' /\ QueueValues'
<1> SUFFICES ASSUME RInv, SliceValues, QueueValues, [Next]_vars
             PROVE  SliceValues' /\ QueueValues'
  OBVIOUS
<1>0. TypeOK
  BY DEF RInv
<1>1. ASSUME NEW i \in Ring, ForwardBegin(i) PROVE SliceValues' /\ QueueValues'
  BY <1>0, <1>1, ForwardBeginValues
<1>2. ASSUME NEW i \in Ring, ForwardEnd(i) PROVE SliceValues' /\ QueueValues'
  BY <1>0, <1>2, ForwardEndValues
<1>3. ASSUME NEW i \in Ring, Put(i) PROVE SliceValues' /\ QueueValues'
  BY <1>3, PutValues
<1>4. ASSUME NEW i \in Ring, Get(i) PROVE SliceValues' /\ QueueValues'
  BY <1>4, GetValues
<1>5. ASSUME NEW i \in Ring, Update(i) PROVE SliceValues' /\ QueueValues'
  BY <1>0, <1>5, UpdateValues
<1>6. ASSUME NEW i \in Ring, PollStop(i) PROVE SliceValues' /\ QueueValues'
  BY <1>0, <1>6, PollStopValues
<1>7. CASE TesterFetch
  BY <1>7, TesterValues
<1>8. CASE Finished \/ UNCHANGED vars
  <2>1. UNCHANGED <<pc, ph, ix, slices, applied, q>>
    BY <1>8 DEF Finished, vars
  <2>2. QED
    BY <2>1, QuietValues
<1>9. QED
  BY <1>1, <1>2, <1>3, <1>4, <1>5, <1>6, <1>7, <1>8 DEF Next

LEMMA VInvStep == VInv /\ [Next]_vars => VInv'
BY RInvStep, ValuesStep DEF VInv

(* The allreduce is correct for every ring size and every number of         *)
(* iterations: whenever a worker has run optimizer.step, the gradient it     *)
(* applied holds, in every slice, every worker's gradient of that step       *)
(* exactly once, although each exchange iteration only pairs a put with a    *)
(* get through the order of the predecessor's aggr_msg_q.                    *)
THEOREM AllReduceCorrectHolds == Spec => []AllReduceCorrect
<1>1. Init => VInv
  BY InitRInv, InitValues DEF VInv
<1>2. VInv => AllReduceCorrect
  BY Zenon DEF VInv, SliceValues, SliceOK, AllReduceCorrect
<1>3. QED
  BY <1>1, <1>2, VInvStep, PTL DEF Spec

====
