------------------------ MODULE RingAllReduceProofs ------------------------
(***************************************************************************)
(* Proofs about the ring allreduce of training_sgd_allreduce.py for every  *)
(* ring size and every number of iterations.                               *)
(*                                                                         *)
(* The argument counts, for each worker, the aggr_msg_q.put calls it has   *)
(* made (Puts) and the get_gradient_slice items it has consumed (Gets).    *)
(* Each exchange iteration does one of each, 2(N-1) per step, so both are  *)
(* a position in one numbering of all iterations.  The queue of worker     *)
(* Pred(i) then holds exactly the items numbered Gets(i) .. Puts(Pred(i))-1 *)
(* in order, and a worker is at most d puts ahead of the worker d places   *)
(* before it on the ring, because it cannot put before it has fetched.     *)
(***************************************************************************)
EXTENDS RingAllReduce, SequenceTheorems, TLAPS

\* The exchange iterations of one step: N-1 of reduce-scatter, N-1 of all-gather.
W == 2 * (N - 1)

\* The number of an iteration within its step.
Off(p, k) == IF p = "rs" THEN k ELSE (N - 1) + k

\* The number of iteration (p, k) of step s among all iterations.
Pos(s, p, k) == (s - 1) * W + Off(p, k)

\* The put calls worker i has made.
Puts(i) ==
  CASE pc[i] \in {"compute", "update", "poll", "done"} -> step[i] * W
    [] pc[i] \in {"fwd", "crashed"}                   -> (step[i] - 1) * W
    [] pc[i] = "put"                                  -> Pos(step[i], ph[i], ix[i])
    [] pc[i] = "get"                                  -> Pos(step[i], ph[i], ix[i]) + 1

\* The items worker i has fetched from its predecessor's queue.
Gets(i) ==
  CASE pc[i] \in {"compute", "update", "poll", "done"} -> step[i] * W
    [] pc[i] \in {"fwd", "crashed"}                   -> (step[i] - 1) * W
    [] pc[i] \in {"put", "get"}                       -> Pos(step[i], ph[i], ix[i])

\* send_slice_id of worker j in iteration (p, k).
SendIdAt(j, p, k) == IF p = "rs" THEN (j - k) % N ELSE (j + 1 - k) % N

\* Inside a step the worker has begun it; it exchanges only on a ring of two or more.
InStep ==
  \A i \in Ring :
    /\ pc[i] # "compute" => step[i] >= 1
    /\ pc[i] \in {"put", "get"} => N > 1

\* The queue of Pred(i) holds the items Gets(i) .. Puts(Pred(i)) - 1, in order.
QueueContents ==
  \A i \in Ring :
    /\ Len(q[Pred(i)]) = Puts(Pred(i)) - Gets(i)
    /\ \A k \in 1 .. Len(q[Pred(i)]) :
         LET m == q[Pred(i)][k] IN
           /\ m.st >= 1
           /\ m.ix \in 0 .. N - 2
           /\ Pos(m.st, m.ph, m.ix) = Gets(i) + k - 1
           /\ m.sid = SendIdAt(Pred(i), m.ph, m.ix)

\* A worker is at most d puts ahead of the worker d places before it.
PutsChain ==
  \A i \in Ring : \A d \in 0 .. N - 1 : Puts(i) <= Puts((i - d) % N) + d

\* The inductive invariant behind QueueBound, HandOffInOrder and the refinement.
RInv == TypeOK /\ InStep /\ QueueContents /\ PutsChain

-----------------------------------------------------------------------------
(* Arithmetic on ring ids: Python's % with a positive modulus.             *)
LEMMA ModInRing ==
  ASSUME NEW a \in Int
  PROVE  a % N \in Ring
BY ConstAssumption DEF Ring

\* The ids the code computes are within one lap of the ring, where % is a
\* subtraction or an addition of N.
LEMMA ModNear ==
  ASSUME NEW x \in Int, -N <= x, x < 2 * N
  PROVE  /\ x < 0 => x % N = x + N
         /\ 0 <= x /\ x < N => x % N = x
         /\ N <= x => x % N = x - N
<1>1. x < 0 => x % N = x + N
  BY ConstAssumption
<1>2. 0 <= x /\ x < N => x % N = x
  BY ConstAssumption
<1>3. N <= x => x % N = x - N
  BY ConstAssumption
<1>4. QED
  BY <1>1, <1>2, <1>3

LEMMA ModOfRing ==
  ASSUME NEW i \in Ring
  PROVE  i % N = i
BY ConstAssumption DEF Ring

\* The value of % within one lap of the ring.
LEMMA ModVal ==
  ASSUME NEW x \in Int, -N <= x, x < 2 * N
  PROVE  x % N = IF x < 0 THEN x + N ELSE IF x < N THEN x ELSE x - N
<1>1. CASE x < 0
  <2>1. x % N = x + N
    BY <1>1, ModNear
  <2>2. QED
    BY <1>1, <2>1
<1>2. CASE 0 <= x /\ x < N
  <2>1. x % N = x
    BY <1>2, ModNear
  <2>2. QED
    BY <1>2, <2>1
<1>3. CASE N <= x
  <2>1. x % N = x - N
    BY <1>3, ModNear
  <2>2. QED
    BY <1>3, <2>1, ConstAssumption
<1>4. QED
  BY <1>1, <1>2, <1>3, ConstAssumption

\* The same for the ids of the all-gather loop, a + 1 - c.
LEMMA ModValSucc ==
  ASSUME NEW a \in Int, NEW c \in Int, -N <= a + 1 - c, a + 1 - c < 2 * N
  PROVE  (a + 1 - c) % N = IF a + 1 - c < 0 THEN a + 1 - c + N
                           ELSE IF a + 1 - c < N THEN a + 1 - c ELSE a + 1 - c - N
<1>1. N \in Nat \ {0}
  BY ConstAssumption
<1>2. QED
  BY <1>1, ModVal

\* pre_wrk_rref: worker 0's predecessor is worker N - 1.
LEMMA PredIs ==
  ASSUME NEW i \in Ring
  PROVE  Pred(i) = IF i = 0 THEN N - 1 ELSE i - 1
<1>1. i - 1 \in Int /\ -N <= i - 1 /\ i - 1 < 2 * N /\ N \in Nat \ {0}
  BY ConstAssumption DEF Ring
<1>2. CASE i = 0
  <2>1. (i - 1) % N = i - 1 + N
    BY <1>1, <1>2, ModNear
  <2>2. QED
    BY <1>1, <1>2, <2>1 DEF Pred
<1>3. CASE i # 0
  <2>1. (i - 1) % N = i - 1
    BY <1>1, <1>3, ModNear DEF Ring
  <2>2. QED
    BY <1>3, <2>1 DEF Pred
<1>4. QED
  BY <1>2, <1>3

\* Every worker is the predecessor of the next one on the ring.
LEMMA PredOfSucc ==
  ASSUME NEW i \in Ring
  PROVE  (i + 1) % N \in Ring /\ Pred((i + 1) % N) = i
<1>1. (i + 1) % N = IF i = N - 1 THEN 0 ELSE i + 1
  <2>1. i + 1 \in Int /\ -N <= i + 1 /\ i + 1 < 2 * N /\ N \in Nat \ {0}
    BY ConstAssumption DEF Ring
  <2>2. CASE i = N - 1
    <3>1. (i + 1) % N = i + 1 - N
      BY <2>1, <2>2, ModNear
    <3>2. QED
      BY <2>1, <2>2, <3>1
  <2>3. CASE i # N - 1
    <3>1. (i + 1) % N = i + 1
      BY <2>1, <2>3, ModNear DEF Ring
    <3>2. QED
      BY <2>3, <3>1
  <2>4. QED
    BY <2>2, <2>3
<1>2. (i + 1) % N \in Ring
  BY <1>1, ConstAssumption DEF Ring
<1>3. CASE i = N - 1
  <2>1. (i + 1) % N = 0 /\ 0 \in Ring
    BY <1>1, <1>3, ConstAssumption DEF Ring
  <2>2. Pred(0) = N - 1
    BY <2>1, PredIs
  <2>3. QED
    BY <1>2, <1>3, <2>1, <2>2, Zenon
<1>4. CASE i # N - 1
  <2>1. i + 1 \in Ring /\ i + 1 # 0
    BY <1>4, ConstAssumption DEF Ring
  <2>2. (i + 1) % N = i + 1
    BY <1>1, <1>4, Zenon
  <2>3. Pred(i + 1) = i
    <3> DEFINE k == i + 1
    <3>1. k \in Ring /\ k # 0
      BY <2>1
    <3>2. Pred(k) = IF k = 0 THEN N - 1 ELSE k - 1
      BY <3>1, PredIs
    <3>3. Pred(k) = k - 1
      BY <3>1, <3>2
    <3>4. k - 1 = i
      BY DEF Ring
    <3>5. QED
      BY <3>3, <3>4
  <2>4. QED
    BY <2>1, <2>2, <2>3, Zenon
<1>5. QED
  BY <1>3, <1>4

(* The numbering of exchange iterations.                                   *)
LEMMA WType == W \in Nat /\ (N = 1 => W = 0) /\ (N > 1 => W = (N - 1) + (N - 1) /\ W > 0)
BY ConstAssumption DEF W

LEMMA StepBase ==
  ASSUME NEW s \in Nat
  PROVE  /\ s * W \in Nat
         /\ (s + 1 - 1) * W = s * W
         /\ s >= 1 => s * W = (s - 1) * W + W /\ (s - 1) * W \in Nat
<1>1. W \in Nat
  BY WType
<1>2. QED
  BY <1>1

\* Adding the same number on both sides.
LEMMA AddCancel ==
  ASSUME NEW a \in Int, NEW x \in Int, NEW y \in Int
  PROVE  /\ a + x = a + y <=> x = y
         /\ a + x + 1 = a + y <=> x + 1 = y
OBVIOUS

\* A chain of bounds, with the products of its terms taken as numbers.
LEMMA BoundChain ==
  ASSUME NEW a \in Nat, NEW g \in Nat, NEW pp \in Nat, NEW pj \in Nat, NEW sj \in Nat,
         NEW w \in Nat, NEW n \in Nat,
         g = a + w, g <= pp, pp <= pj + n - 1, pj <= sj, w - (n - 1) > 0
  PROVE  sj > a
OBVIOUS

LEMMA MulMono ==
  ASSUME NEW a \in Nat, NEW b \in Nat, a <= b, NEW c \in Nat
  PROVE  a * c <= b * c
OBVIOUS

LEMMA PosBounds ==
  ASSUME N > 1, NEW s \in Nat \ {0}, NEW p \in {"rs", "ag"}, NEW k \in 0 .. N - 2
  PROVE  /\ Off(p, k) \in 0 .. W - 1
         /\ Pos(s, p, k) \in Nat
         /\ (s - 1) * W <= Pos(s, p, k)
         /\ Pos(s, p, k) < s * W
<1>1. Off(p, k) \in 0 .. W - 1
  BY ConstAssumption DEF Off, W
<1>2. s * W = (s - 1) * W + W /\ (s - 1) * W \in Nat
  BY StepBase
<1>3. QED
  BY <1>1, <1>2, WType DEF Pos

LEMMA PosInjective ==
  ASSUME N > 1,
         NEW s1 \in Nat \ {0}, NEW p1 \in {"rs", "ag"}, NEW k1 \in 0 .. N - 2,
         NEW s2 \in Nat \ {0}, NEW p2 \in {"rs", "ag"}, NEW k2 \in 0 .. N - 2,
         Pos(s1, p1, k1) = Pos(s2, p2, k2)
  PROVE  s1 = s2 /\ p1 = p2 /\ k1 = k2
<1>1. W \in Nat
  BY WType
<1>2. /\ (s1 - 1) * W <= Pos(s1, p1, k1) /\ Pos(s1, p1, k1) < s1 * W
      /\ (s2 - 1) * W <= Pos(s2, p2, k2) /\ Pos(s2, p2, k2) < s2 * W
      /\ Pos(s1, p1, k1) \in Nat /\ Pos(s2, p2, k2) \in Nat
  BY PosBounds
<1>3. s1 = s2
  <2>1. CASE s1 < s2
    <3>1. s1 * W <= (s2 - 1) * W
      BY <2>1, <1>1, MulMono
    <3>2. QED
      BY <3>1, <1>2, <1>1, StepBase
  <2>2. CASE s2 < s1
    <3>1. s2 * W <= (s1 - 1) * W
      BY <2>2, <1>1, MulMono
    <3>2. QED
      BY <3>1, <1>2, <1>1, StepBase
  <2>3. QED
    BY <2>1, <2>2
<1>4. (s1 - 1) * W \in Nat
  BY StepBase
<1>5. Off(p1, k1) \in Nat /\ Off(p2, k2) \in Nat
  BY PosBounds
<1>6. (s1 - 1) * W = (s2 - 1) * W
  BY <1>3
<1>7. Off(p1, k1) = Off(p2, k2)
  BY <1>4, <1>5, <1>6, AddCancel DEF Pos
<1>8. p1 = p2 /\ k1 = k2
  <2>1. CASE p1 = "rs" /\ p2 = "rs"
    BY <1>7, <2>1, ConstAssumption DEF Off
  <2>2. CASE p1 = "ag" /\ p2 = "ag"
    BY <1>7, <2>2, ConstAssumption DEF Off
  <2>3. CASE p1 = "rs" /\ p2 = "ag"
    BY <1>7, <2>3, ConstAssumption DEF Off
  <2>4. CASE p1 = "ag" /\ p2 = "rs"
    BY <1>7, <2>4, ConstAssumption DEF Off
  <2>5. QED
    BY <2>1, <2>2, <2>3, <2>4
<1>9. QED
  BY <1>3, <1>8

LEMMA PosNext ==
  ASSUME N > 1, NEW s \in Nat \ {0}
  PROVE  /\ \A p \in {"rs", "ag"}, k \in 0 .. N - 3 : Pos(s, p, k) + 1 = Pos(s, p, k + 1)
         /\ Pos(s, "rs", N - 2) + 1 = Pos(s, "ag", 0)
         /\ Pos(s, "ag", N - 2) + 1 = s * W
         /\ Pos(s, "rs", 0) = (s - 1) * W
<1>1. s * W = (s - 1) * W + W /\ (s - 1) * W \in Nat
  BY StepBase
<1> W \in Nat
  BY WType
<1>2. \A p \in {"rs", "ag"}, k \in 0 .. N - 3 : Pos(s, p, k) + 1 = Pos(s, p, k + 1)
  <2> SUFFICES ASSUME NEW p \in {"rs", "ag"}, NEW k \in 0 .. N - 3
               PROVE  (s - 1) * W + Off(p, k) + 1 = (s - 1) * W + Off(p, k + 1)
    BY DEF Pos
  <2>1. Off(p, k) + 1 = Off(p, k + 1) /\ Off(p, k) \in Nat /\ Off(p, k + 1) \in Nat
    BY ConstAssumption DEF Off
  <2>2. QED
    BY <1>1, <2>1, AddCancel
<1>3. Pos(s, "rs", N - 2) + 1 = Pos(s, "ag", 0)
  <2>1. Off("rs", N - 2) + 1 = Off("ag", 0) /\ Off("rs", N - 2) \in Nat /\ Off("ag", 0) \in Nat
    BY ConstAssumption DEF Off
  <2>2. QED
    BY <1>1, <2>1, AddCancel DEF Pos
<1>4. Pos(s, "ag", N - 2) + 1 = s * W
  <2>1. Off("ag", N - 2) + 1 = W /\ Off("ag", N - 2) \in Nat
    BY WType, ConstAssumption DEF Off
  <2>2. QED
    BY <1>1, <2>1, AddCancel DEF Pos
<1>5. Pos(s, "rs", 0) = (s - 1) * W
  <2>1. Off("rs", 0) = 0
    BY DEF Off
  <2>2. QED
    BY <1>1, <2>1 DEF Pos
<1>6. QED
  BY <1>2, <1>3, <1>4, <1>5

-----------------------------------------------------------------------------
(* The ids a worker sends and receives in an iteration are ring ids.        *)
LEMMA IdsInRing ==
  ASSUME TypeOK, NEW i \in Ring
  PROVE  /\ Pred(i) \in Ring
         /\ SendId(i) \in Ring
         /\ RecvId(i) \in Ring
<1>0. ix[i] \in {0} \cup 0 .. N - 2
  BY DEF TypeOK
<1>1. i - 1 \in Int /\ i - ix[i] \in Int /\ i + 1 - ix[i] \in Int
  BY <1>0, ConstAssumption DEF Ring
<1>2. Pred(i) \in Ring
  BY <1>1, ModInRing DEF Pred
<1>3. SendId(i) \in Ring
  <2>1. (i - ix[i]) % N \in Ring /\ (i + 1 - ix[i]) % N \in Ring
    BY <1>1, ModInRing
  <2>2. QED
    BY <2>1 DEF SendId
<1>4. RecvId(i) \in Ring
  <2>1. SendId(i) - 1 \in Int
    BY <1>3 DEF Ring
  <2>2. QED
    BY <2>1, ModInRing DEF RecvId
<1>5. QED
  BY <1>2, <1>3, <1>4

\* Changing one entry of a function within its range keeps its type.
LEMMA ExceptType ==
  ASSUME NEW S, NEW T, NEW f \in [S -> T], NEW x \in S, NEW v \in T
  PROVE  [f EXCEPT ![x] = v] \in [S -> T]
OBVIOUS

LEMMA TypeStep == TypeOK /\ [Next]_vars => TypeOK'
<1> SUFFICES ASSUME TypeOK, [Next]_vars PROVE TypeOK'
  OBVIOUS
<1> DEFINE PcSet == {"compute", "fwd", "put", "get", "update", "poll", "done", "crashed"}
<1>0. /\ pc \in [Ring -> PcSet]
      /\ ph \in [Ring -> {"rs", "ag"}]
      /\ ix \in [Ring -> {0} \cup 0 .. N - 2]
      /\ step \in [Ring -> Nat]
      /\ slices \in [Ring -> [Ring -> SliceVal]]
      /\ applied \in [Ring -> [Ring -> SliceVal]]
      /\ q \in [Ring -> Seq(Msg)]
      /\ moved \in [Ring -> BOOLEAN]
      /\ tpc \in {"run", "dead"}
  BY DEF TypeOK
<1> SUFFICES /\ pc' \in [Ring -> PcSet]
             /\ ph' \in [Ring -> {"rs", "ag"}]
             /\ ix' \in [Ring -> {0} \cup 0 .. N - 2]
             /\ step' \in [Ring -> Nat]
             /\ slices' \in [Ring -> [Ring -> SliceVal]]
             /\ applied' \in [Ring -> [Ring -> SliceVal]]
             /\ q' \in [Ring -> Seq(Msg)]
             /\ moved' \in [Ring -> BOOLEAN]
             /\ tpc' \in {"run", "dead"}
  BY DEF TypeOK
<1>1. ASSUME NEW i \in Ring, ForwardBegin(i) PROVE TypeOK'
  BY <1>0, <1>1 DEF ForwardBegin, TypeOK
<1>2. ASSUME NEW i \in Ring, ForwardEnd(i) PROVE TypeOK'
  <2>1. [s \in Ring |-> Own(i)] \in [Ring -> SliceVal]
    BY DEF Own, SliceVal
  <2>2. CASE moved[i] /\ pc' = [pc EXCEPT ![i] = "crashed"] /\ UNCHANGED <<ph, ix, slices, moved>>
    <3>1. pc' \in [Ring -> PcSet]
      BY <1>0, <2>2, ExceptType
    <3>2. QED
      BY <1>0, <1>2, <2>2, <3>1 DEF ForwardEnd, TypeOK
  <2>3. CASE /\ slices' = [slices EXCEPT ![i] = [s \in Ring |-> Own(i)]]
             /\ ph' = [ph EXCEPT ![i] = "rs"]
             /\ ix' = [ix EXCEPT ![i] = 0]
             /\ pc' = [pc EXCEPT ![i] = IF N = 1 THEN "update" ELSE "put"]
             /\ moved' = [moved EXCEPT ![i] = FALSE]
    <3>1. pc' \in [Ring -> PcSet]
      BY <1>0, <2>3, ExceptType
    <3>2. slices' \in [Ring -> [Ring -> SliceVal]]
      BY <1>0, <2>1, <2>3, ExceptType
    <3>3. ph' \in [Ring -> {"rs", "ag"}] /\ ix' \in [Ring -> {0} \cup 0 .. N - 2]
      BY <1>0, <2>3, ExceptType
    <3>4. moved' \in [Ring -> BOOLEAN]
      BY <1>0, <2>3, ExceptType
    <3>5. QED
      BY <1>0, <1>2, <3>1, <3>2, <3>3, <3>4 DEF ForwardEnd, TypeOK
  <2>4. QED
    BY <1>2, <2>2, <2>3 DEF ForwardEnd
<1>3. ASSUME NEW i \in Ring, Put(i) PROVE TypeOK'
  <2>1. [st |-> step[i], ph |-> ph[i], ix |-> ix[i], sid |-> SendId(i),
         val |-> slices[i][SendId(i)]] \in Msg
    <3>1. SendId(i) \in Ring
      BY IdsInRing
    <3>2. step[i] \in Nat /\ ph[i] \in {"rs", "ag"} /\ ix[i] \in Nat
      BY <1>0 DEF Ring
    <3>3. slices[i][SendId(i)] \in SliceVal
      BY <1>0, <3>1
    <3>4. QED
      BY <3>1, <3>2, <3>3 DEF Msg
  <2>2. q' \in [Ring -> Seq(Msg)]
    BY <1>0, <1>3, <2>1 DEF Put
  <2>3. pc' \in [Ring -> PcSet]
    BY <1>0, <1>3 DEF Put
  <2>4. QED
    BY <1>0, <1>3, <2>2, <2>3 DEF Put, TypeOK
<1>4. ASSUME NEW i \in Ring, Get(i) PROVE TypeOK'
  <2>1. Pred(i) \in Ring /\ RecvId(i) \in Ring
    BY IdsInRing
  <2>2. Head(q[Pred(i)]) \in Msg /\ Tail(q[Pred(i)]) \in Seq(Msg)
    BY <1>0, <1>4, <2>1 DEF Get
  <2>3. Combine(i, Head(q[Pred(i)]).val) \in SliceVal
    <3>1. Head(q[Pred(i)]).val \in SliceVal /\ slices[i][RecvId(i)] \in SliceVal
      BY <1>0, <2>1, <2>2 DEF Msg
    <3>2. QED
      BY <3>1 DEF Combine, AddSlice, SliceVal
  <2>4. slices' \in [Ring -> [Ring -> SliceVal]]
    BY <1>0, <1>4, <2>1, <2>3 DEF Get
  <2>5. q' \in [Ring -> Seq(Msg)]
    BY <1>0, <1>4, <2>1, <2>2 DEF Get
  <2>6. ix' \in [Ring -> {0} \cup 0 .. N - 2] /\ ph' \in [Ring -> {"rs", "ag"}]
    <3>1. CASE ix[i] < LastIdx /\ ix' = [ix EXCEPT ![i] = @ + 1] /\ UNCHANGED ph
      <4>0. ix[i] \in {0} \cup 0 .. N - 2
        BY <1>0
      <4>1. ix[i] + 1 \in {0} \cup 0 .. N - 2
        BY <4>0, <3>1, ConstAssumption DEF LastIdx
      <4>2. QED
        BY <1>0, <3>1, <4>1, ExceptType
    <3>2. CASE ph' = [ph EXCEPT ![i] = "ag"] /\ ix' = [ix EXCEPT ![i] = 0]
      BY <1>0, <3>2, ExceptType
    <3>3. CASE UNCHANGED <<ph, ix>>
      BY <1>0, <3>3
    <3>4. QED
      BY <1>4, <3>1, <3>2, <3>3 DEF Get
  <2>7. pc' \in [Ring -> PcSet]
    <3>1. \A v \in PcSet : [pc EXCEPT ![i] = v] \in [Ring -> PcSet]
      BY <1>0, ExceptType
    <3>2. QED
      BY <1>4, <3>1 DEF Get
  <2>8. QED
    BY <1>0, <1>4, <2>4, <2>5, <2>6, <2>7 DEF Get, TypeOK
<1>5. ASSUME NEW i \in Ring, Update(i) PROVE TypeOK'
  BY <1>0, <1>5 DEF Update, TypeOK
<1>6. ASSUME NEW i \in Ring, PollStop(i) PROVE TypeOK'
  BY <1>0, <1>6 DEF PollStop, TypeOK
<1>7. CASE TesterFetch
  <2>1. moved' \in [Ring -> BOOLEAN]
    <3>1. TestWrk \in Ring /\ (moved[TestWrk] \/ (MovesModel /\ pc[TestWrk] = "fwd")) \in BOOLEAN
      BY ConstAssumption DEF Ring
    <3>2. QED
      BY <1>0, <1>7, <3>1, ExceptType DEF TesterFetch
  <2>2. QED
    BY <1>0, <1>7, <2>1 DEF TesterFetch
<1>8. CASE Finished \/ UNCHANGED vars
  BY <1>0, <1>8 DEF Finished, vars, TypeOK
<1>9. QED
  BY <1>1, <1>2, <1>3, <1>4, <1>5, <1>6, <1>7, <1>8 DEF Next, TypeOK

(* Every step of run_worker, get_gradient_slice and the tester's fetch      *)
(* keeps the model's variables in their types, for every ring size.         *)
THEOREM RingTypeCorrect == Spec => []TypeOK
<1>1. Init => TypeOK
  BY DEF Init, TypeOK, SliceVal
<1>2. QED
  BY <1>1, TypeStep, PTL DEF Spec

-----------------------------------------------------------------------------
(* The counting argument.                                                   *)

\* The types of one worker's variables.
LEMMA TypeAt ==
  ASSUME TypeOK, NEW i \in Ring
  PROVE  /\ pc[i] \in {"compute", "fwd", "put", "get", "update", "poll", "done", "crashed"}
         /\ ph[i] \in {"rs", "ag"}
         /\ ix[i] \in {0} \cup 0 .. N - 2
         /\ step[i] \in Nat
         /\ slices[i] \in [Ring -> SliceVal]
         /\ q[i] \in Seq(Msg)
BY DEF TypeOK

\* Where one worker's loops can be.
LEMMA InStepAt ==
  ASSUME TypeOK, InStep, NEW i \in Ring
  PROVE  /\ pc[i] # "compute" => step[i] \in Nat \ {0}
         /\ pc[i] \in {"put", "get"} => N > 1 /\ ix[i] \in 0 .. N - 2
<1>1. step[i] \in Nat /\ ix[i] \in {0} \cup 0 .. N - 2
  BY TypeAt
<1>2. (pc[i] # "compute" => step[i] >= 1) /\ (pc[i] \in {"put", "get"} => N > 1)
  BY DEF InStep
<1>3. QED
  BY <1>1, <1>2, ConstAssumption

\* Two workers have the same predecessor only if they are the same worker.
LEMMA PredInjective ==
  ASSUME NEW a \in Ring, NEW b \in Ring, Pred(a) = Pred(b)
  PROVE  a = b
BY PredIs DEF Ring

\* On a ring of two or more no worker is its own predecessor.
LEMMA PredNotSelf ==
  ASSUME N > 1, NEW i \in Ring
  PROVE  Pred(i) # i
<1>1. Pred(i) = IF i = 0 THEN N - 1 ELSE i - 1
  BY PredIs
<1>2. QED
  BY <1>1, ConstAssumption DEF Ring

\* A worker's counts depend only on where its loops are.
LEMMA CountsUnchanged ==
  ASSUME NEW j \in Ring,
         pc'[j] = pc[j], step'[j] = step[j], ph'[j] = ph[j], ix'[j] = ix[j]
  PROVE  Puts(j)' = Puts(j) /\ Gets(j)' = Gets(j)
BY DEF Puts, Gets, Pos

\* Within an exchange iteration a worker has put at most one item more than it
\* has fetched.
LEMMA CountsGap ==
  ASSUME TypeOK, InStep, NEW j \in Ring
  PROVE  /\ Puts(j) \in Nat /\ Gets(j) \in Nat
         /\ Puts(j) = Gets(j) + (IF pc[j] = "get" THEN 1 ELSE 0)
<1>1. step[j] \in Nat /\ (pc[j] # "compute" => step[j] >= 1)
  BY TypeAt, InStepAt
<1>2. step[j] * W \in Nat /\ (step[j] >= 1 => (step[j] - 1) * W \in Nat)
  BY <1>1, StepBase
<1>3. CASE pc[j] \in {"put", "get"}
  <2>1. N > 1 /\ step[j] \in Nat \ {0} /\ ix[j] \in 0 .. N - 2 /\ ph[j] \in {"rs", "ag"}
    BY <1>3, TypeAt, InStepAt
  <2>2. Pos(step[j], ph[j], ix[j]) \in Nat
    BY <2>1, PosBounds
  <2>3. QED
    BY <1>3, <2>2 DEF Puts, Gets
<1>4. CASE pc[j] \notin {"put", "get"}
  BY <1>1, <1>2, <1>4 DEF Puts, Gets, TypeOK
<1>5. QED
  BY <1>3, <1>4

\* A step that moves no queue item and changes no count keeps the counting
\* invariants.
LEMMA QuietKeepsCounts ==
  ASSUME RInv, q' = q, \A j \in Ring : Puts(j)' = Puts(j) /\ Gets(j)' = Gets(j)
  PROVE  (QueueContents /\ PutsChain)'
<1>1. QueueContents'
  <2> SUFFICES ASSUME NEW i \in Ring PROVE
        /\ Len(q'[Pred(i)]) = Puts(Pred(i))' - Gets(i)'
        /\ \A k \in 1 .. Len(q'[Pred(i)]) :
             LET m == q'[Pred(i)][k] IN
               /\ m.st >= 1
               /\ m.ix \in 0 .. N - 2
               /\ Pos(m.st, m.ph, m.ix) = Gets(i)' + k - 1
               /\ m.sid = SendIdAt(Pred(i), m.ph, m.ix)
    BY DEF QueueContents
  <2>1. Pred(i) \in Ring
    BY ModInRing DEF Pred, Ring
  <2>2. QED
    BY <2>1 DEF RInv, QueueContents
<1>2. PutsChain'
  <2> SUFFICES ASSUME NEW i \in Ring, NEW d \in 0 .. N - 1
               PROVE  Puts(i)' <= Puts((i - d) % N)' + d
    BY DEF PutsChain
  <2>1. (i - d) % N \in Ring
    BY ModInRing DEF Ring
  <2>2. QED
    BY <2>1 DEF RInv, PutsChain
<1>3. QED
  BY <1>1, <1>2

\* The steps of worker i outside the exchange keep every count.
LEMMA LocalCountsFrame ==
  ASSUME NEW i \in Ring,
         Puts(i)' = Puts(i), Gets(i)' = Gets(i),
         \A j \in Ring \ {i} :
           pc'[j] = pc[j] /\ step'[j] = step[j] /\ ph'[j] = ph[j] /\ ix'[j] = ix[j]
  PROVE  \A j \in Ring : Puts(j)' = Puts(j) /\ Gets(j)' = Gets(j)
BY CountsUnchanged

LEMMA ForwardBeginKeeps ==
  ASSUME RInv, NEW i \in Ring, ForwardBegin(i)
  PROVE  RInv'
<1>0. TypeOK /\ TypeOK'
  BY TypeStep DEF RInv, Next
<1>1. /\ pc[i] = "compute" /\ pc' = [pc EXCEPT ![i] = "fwd"]
      /\ step' = [step EXCEPT ![i] = @ + 1]
      /\ UNCHANGED <<ph, ix, q>>
  BY DEF ForwardBegin
<1>2. Puts(i)' = Puts(i) /\ Gets(i)' = Gets(i)
  <2>1. step[i] \in Nat /\ step'[i] = step[i] + 1 /\ pc'[i] = "fwd"
    BY <1>0, <1>1 DEF TypeOK
  <2>2. (step[i] + 1 - 1) * W = step[i] * W
    BY <2>1, StepBase
  <2>3. QED
    BY <1>1, <2>1, <2>2 DEF Puts, Gets
<1>3. \A j \in Ring : Puts(j)' = Puts(j) /\ Gets(j)' = Gets(j)
  BY <1>0, <1>1, <1>2, LocalCountsFrame DEF TypeOK
<1>4. InStep'
  BY <1>0, <1>1 DEF RInv, InStep, TypeOK
<1>5. QED
  BY <1>0, <1>1, <1>3, <1>4, QuietKeepsCounts DEF RInv

LEMMA ForwardEndKeeps ==
  ASSUME RInv, NEW i \in Ring, ForwardEnd(i)
  PROVE  RInv'
<1>0. TypeOK /\ TypeOK'
  BY TypeStep DEF RInv, Next
<1>1. /\ pc[i] = "fwd" /\ step[i] \in Nat \ {0}
      /\ UNCHANGED <<step, q>>
      /\ \A j \in Ring \ {i} : pc'[j] = pc[j] /\ ph'[j] = ph[j] /\ ix'[j] = ix[j]
  <2>1. pc[i] = "fwd" /\ UNCHANGED <<step, q>>
    BY DEF ForwardEnd
  <2>2. step[i] \in Nat \ {0}
    BY <1>0, <2>1, InStepAt DEF RInv
  <2>3. \A j \in Ring \ {i} : pc'[j] = pc[j] /\ ph'[j] = ph[j] /\ ix'[j] = ix[j]
    <3>1. DOMAIN pc = Ring /\ DOMAIN ph = Ring /\ DOMAIN ix = Ring
      BY <1>0 DEF TypeOK
    <3>2. QED
      BY <3>1 DEF ForwardEnd
  <2>4. QED
    BY <2>1, <2>2, <2>3
<1>2. Puts(i) = (step[i] - 1) * W /\ Gets(i) = (step[i] - 1) * W
  BY <1>1 DEF Puts, Gets
<1>3. Puts(i)' = Puts(i) /\ Gets(i)' = Gets(i) /\ InStep'
  <2>1. CASE moved[i]  /\ pc' = [pc EXCEPT ![i] = "crashed"]
    BY <1>0, <1>1, <1>2, <2>1 DEF Puts, Gets, RInv, InStep, TypeOK
  <2>2. CASE /\ ph' = [ph EXCEPT ![i] = "rs"]
             /\ ix' = [ix EXCEPT ![i] = 0]
             /\ pc' = [pc EXCEPT ![i] = IF N = 1 THEN "update" ELSE "put"]
    <3>1. CASE N = 1
      <4>1. W = 0
        BY <3>1 DEF W
      <4>2. step[i] * W = 0 /\ (step[i] - 1) * W = 0
        BY <1>1, <4>1
      <4>3. QED
        BY <1>0, <1>1, <1>2, <2>2, <3>1, <4>2 DEF Puts, Gets, RInv, InStep, TypeOK
    <3>2. CASE N # 1
      <4>1. N > 1
        BY <3>2, ConstAssumption
      <4>2. Pos(step[i], "rs", 0) = (step[i] - 1) * W
        BY <1>1, <4>1, PosNext
      <4>3. QED
        BY <1>0, <1>1, <1>2, <2>2, <3>2, <4>1, <4>2 DEF Puts, Gets, RInv, InStep, TypeOK
    <3>3. QED
      BY <3>1, <3>2
  <2>3. QED
    BY <2>1, <2>2 DEF ForwardEnd
<1>4. \A j \in Ring : Puts(j)' = Puts(j) /\ Gets(j)' = Gets(j)
  BY <1>1, <1>3, LocalCountsFrame
<1>5. QED
  BY <1>0, <1>1, <1>3, <1>4, QuietKeepsCounts DEF RInv

LEMMA UpdateKeeps ==
  ASSUME RInv, NEW i \in Ring, Update(i)
  PROVE  RInv'
<1>0. TypeOK /\ TypeOK'
  BY TypeStep DEF RInv, Next
<1>1. /\ pc[i] = "update" /\ pc' = [pc EXCEPT ![i] = "poll"]
      /\ UNCHANGED <<ph, ix, step, q>>
  BY DEF Update
<1>2. \A j \in Ring : Puts(j)' = Puts(j) /\ Gets(j)' = Gets(j)
  <2>1. Puts(i)' = Puts(i) /\ Gets(i)' = Gets(i)
    BY <1>0, <1>1 DEF Puts, Gets, TypeOK
  <2>2. QED
    BY <1>0, <1>1, <2>1, LocalCountsFrame DEF TypeOK
<1>3. InStep'
  BY <1>0, <1>1 DEF RInv, InStep, TypeOK
<1>4. QED
  BY <1>0, <1>1, <1>2, <1>3, QuietKeepsCounts DEF RInv

LEMMA PollStopKeeps ==
  ASSUME RInv, NEW i \in Ring, PollStop(i)
  PROVE  RInv'
<1>0. TypeOK /\ TypeOK'
  BY TypeStep DEF RInv, Next
<1>1. /\ pc[i] = "poll" /\ pc'[i] \in {"compute", "done"}
      /\ \A j \in Ring \ {i} : pc'[j] = pc[j]
      /\ UNCHANGED <<ph, ix, step, q>>
  BY <1>0 DEF PollStop, TypeOK
<1>2. \A j \in Ring : Puts(j)' = Puts(j) /\ Gets(j)' = Gets(j)
  <2>1. Puts(i)' = Puts(i) /\ Gets(i)' = Gets(i)
    BY <1>1 DEF Puts, Gets
  <2>2. QED
    BY <1>1, <2>1, LocalCountsFrame
<1>3. InStep'
  BY <1>0, <1>1 DEF RInv, InStep, TypeOK
<1>4. QED
  BY <1>0, <1>1, <1>2, <1>3, QuietKeepsCounts DEF RInv

LEMMA TesterKeeps ==
  ASSUME RInv, TesterFetch \/ Finished \/ UNCHANGED vars
  PROVE  RInv'
<1>0. TypeOK'
  BY TypeStep DEF RInv, Next
<1>1. UNCHANGED <<pc, ph, ix, step, q>>
  BY DEF TesterFetch, Finished, vars
<1>2. \A j \in Ring : Puts(j)' = Puts(j) /\ Gets(j)' = Gets(j)
  BY <1>1, CountsUnchanged
<1>3. InStep'
  BY <1>1 DEF RInv, InStep
<1>4. QED
  BY <1>0, <1>1, <1>2, <1>3, QuietKeepsCounts DEF RInv

\* The worker d places before i, for 1 <= d < N, is d - 1 places before Pred(i),
\* and is not i.
LEMMA ChainIndex ==
  ASSUME NEW i \in Ring, NEW d \in 1 .. N - 1
  PROVE  /\ (Pred(i) - (d - 1)) % N = (i - d) % N
         /\ (i - d) % N # i
<1>0. i - d \in Int /\ -N <= i - d /\ i - d < N /\ N \in Nat \ {0}
  BY ConstAssumption DEF Ring
<1>1. (i - d) % N = IF i - d < 0 THEN i - d + N ELSE i - d
  <2>1. CASE i - d < 0
    <3>1. (i - d) % N = i - d + N
      BY <1>0, <2>1, ModNear
    <3>2. QED
      BY <2>1, <3>1
  <2>2. CASE ~(i - d < 0)
    <3>1. (i - d) % N = i - d
      BY <1>0, <2>2, ModNear
    <3>2. QED
      BY <2>2, <3>1
  <2>3. QED
    BY <2>1, <2>2
<1>2. (Pred(i) - (d - 1)) % N = (i - d) % N
  <2>1. CASE i = 0
    <3>1. Pred(i) - (d - 1) = N - d
      BY <2>1, PredIs, ConstAssumption
    <3>2. QED
      BY <1>1, <2>1, <3>1, ModNear, ConstAssumption
  <2>2. CASE i # 0
    <3>1. Pred(i) - (d - 1) = i - d
      BY <2>2, PredIs, ConstAssumption DEF Ring
    <3>2. QED
      BY <1>1, <3>1, ModNear, ConstAssumption DEF Ring
  <2>3. QED
    BY <2>1, <2>2
<1>3. QED
  BY <1>1, <1>2, ConstAssumption DEF Ring

LEMMA PutKeeps ==
  ASSUME RInv, NEW i \in Ring, Put(i)
  PROVE  RInv'
<1>0. TypeOK /\ TypeOK' /\ InStep /\ QueueContents /\ PutsChain
  BY TypeStep DEF RInv, Next
<1> DEFINE msg == [st |-> step[i], ph |-> ph[i], ix |-> ix[i], sid |-> SendId(i),
                   val |-> slices[i][SendId(i)]]
<1>1. /\ pc[i] = "put" /\ pc' = [pc EXCEPT ![i] = "get"]
      /\ q' = [q EXCEPT ![i] = Append(q[i], msg)]
      /\ UNCHANGED <<ph, ix, step>>
  BY DEF Put
<1>2. /\ N > 1 /\ step[i] \in Nat \ {0} /\ ix[i] \in 0 .. N - 2 /\ ph[i] \in {"rs", "ag"}
      /\ msg \in Msg /\ q[i] \in Seq(Msg)
  <2>1. N > 1 /\ step[i] \in Nat \ {0} /\ ix[i] \in 0 .. N - 2 /\ ph[i] \in {"rs", "ag"}
    BY <1>0, <1>1, InStepAt, TypeAt
  <2>2. SendId(i) \in Ring /\ slices[i] \in [Ring -> SliceVal] /\ q[i] \in Seq(Msg)
    BY <1>0, IdsInRing, TypeAt
  <2>3. msg \in Msg
    BY <2>1, <2>2 DEF Msg
  <2>4. QED
    BY <2>1, <2>2, <2>3
<1>3. /\ Puts(i) = Pos(step[i], ph[i], ix[i]) /\ Gets(i) = Puts(i)
      /\ Puts(i)' = Puts(i) + 1 /\ Gets(i)' = Gets(i)
  BY <1>0, <1>1 DEF Puts, Gets, TypeOK
<1>4. \A j \in Ring \ {i} : Puts(j)' = Puts(j) /\ Gets(j)' = Gets(j)
  BY <1>0, <1>1, CountsUnchanged DEF TypeOK
<1>5. \A j \in Ring : Puts(j) \in Nat /\ Gets(j) \in Nat
  BY <1>0, CountsGap
<1>51. \A j \in Ring : Puts(j)' \in Nat
  <2> SUFFICES ASSUME NEW j \in Ring PROVE Puts(j)' \in Nat
    OBVIOUS
  <2>1. CASE j = i
    BY <1>3, <1>5, <2>1
  <2>2. CASE j # i
    BY <1>4, <1>5, <2>2
  <2>3. QED
    BY <2>1, <2>2
<1>6. InStep'
  BY <1>0, <1>1 DEF InStep, TypeOK
<1>7. QueueContents'
  <2> SUFFICES ASSUME NEW j \in Ring PROVE
        /\ Len(q'[Pred(j)]) = Puts(Pred(j))' - Gets(j)'
        /\ \A k \in 1 .. Len(q'[Pred(j)]) :
             LET m == q'[Pred(j)][k] IN
               /\ m.st >= 1
               /\ m.ix \in 0 .. N - 2
               /\ Pos(m.st, m.ph, m.ix) = Gets(j)' + k - 1
               /\ m.sid = SendIdAt(Pred(j), m.ph, m.ix)
    BY DEF QueueContents
  <2>0. Pred(j) \in Ring
    BY IdsInRing, <1>0
  <2>1. CASE Pred(j) = i
    <3>1. j # i /\ Gets(j)' = Gets(j)
      BY <1>2, <1>4, <2>1, PredNotSelf
    <3>2. /\ q'[i] = Append(q[i], msg)
          /\ Len(q'[i]) = Len(q[i]) + 1
          /\ \A k \in 1 .. Len(q[i]) : q'[i][k] = q[i][k]
          /\ q'[i][Len(q[i]) + 1] = msg
      BY <1>0, <1>1, <1>2, AppendProperties DEF TypeOK
    <3>3. Len(q[i]) = Puts(i) - Gets(j)
      BY <1>0, <2>1 DEF QueueContents
    <3>4. /\ \A k \in 1 .. Len(q[i]) :
               LET m == q[i][k] IN
                 /\ m.st >= 1
                 /\ m.ix \in 0 .. N - 2
                 /\ Pos(m.st, m.ph, m.ix) = Gets(j) + k - 1
                 /\ m.sid = SendIdAt(i, m.ph, m.ix)
      BY <1>0, <2>1 DEF QueueContents
    <3>5. msg.sid = SendIdAt(i, msg.ph, msg.ix)
      BY DEF SendId, SendIdAt
    <3>6. Pos(msg.st, msg.ph, msg.ix) = Gets(j) + (Len(q[i]) + 1) - 1
      BY <1>3, <1>5, <3>3
    <3>7. Len(q'[i]) = Puts(i)' - Gets(j)'
      BY <1>3, <1>5, <3>1, <3>2, <3>3
    <3>8. QED
      BY <1>2, <2>1, <3>1, <3>2, <3>4, <3>5, <3>6, <3>7
  <2>2. CASE Pred(j) # i
    <3>1. q'[Pred(j)] = q[Pred(j)] /\ Puts(Pred(j))' = Puts(Pred(j))
      BY <1>0, <1>1, <1>4, <2>0, <2>2 DEF TypeOK
    <3>2. Gets(j)' = Gets(j)
      BY <1>3, <1>4
    <3>3. QED
      BY <1>0, <3>1, <3>2 DEF QueueContents
  <2>3. QED
    BY <2>1, <2>2
<1>8. PutsChain'
  <2> SUFFICES ASSUME NEW j \in Ring, NEW d \in 0 .. N - 1
               PROVE  Puts(j)' <= Puts((j - d) % N)' + d
    BY DEF PutsChain
  <2>0. (j - d) % N \in Ring
    BY ModInRing DEF Ring
  <2>1. Puts((j - d) % N) <= Puts((j - d) % N)'
    BY <1>3, <1>4, <1>5, <2>0
  <2>2. CASE j # i
    <3> DEFINE x == (j - d) % N
    <3>1. Puts(j) <= Puts(x) + d
      BY <1>0 DEF PutsChain
    <3>2. Puts(j)' = Puts(j)
      BY <1>4, <2>2
    <3>3. Puts(j) \in Nat /\ Puts(x) \in Nat /\ Puts(x)' \in Nat
      BY <1>5, <1>51, <2>0
    <3>4. QED
      BY <2>1, <3>1, <3>2, <3>3
  <2>3. CASE j = i /\ d = 0
    <3>1. (j - d) % N = i
      <4>1. j - d = i
        BY <2>3 DEF Ring
      <4>2. QED
        BY <4>1, ModOfRing
    <3>2. Puts(i)' \in Nat
      BY <1>3, <1>5
    <3>3. QED
      BY <2>3, <3>1, <3>2
  <2>4. CASE j = i /\ d # 0
    <3>1. d \in 1 .. N - 1 /\ Pred(i) \in Ring
      BY <2>4, <1>0, IdsInRing
    <3>2. (Pred(i) - (d - 1)) % N = (i - d) % N /\ (i - d) % N # i
      BY <3>1, ChainIndex
    <3>3. Puts(Pred(i)) <= Puts((i - d) % N) + (d - 1)
      <4>1. d - 1 \in 0 .. N - 1
        BY <3>1, ConstAssumption
      <4>2. QED
        BY <1>0, <3>1, <3>2, <4>1 DEF PutsChain
    <3>4. Gets(i) <= Puts(Pred(i))
      <4>1. Len(q[Pred(i)]) = Puts(Pred(i)) - Gets(i) /\ Len(q[Pred(i)]) \in Nat
        BY <1>0, <3>1 DEF QueueContents, TypeOK
      <4>2. QED
        BY <1>5, <3>1, <4>1
    <3>5. Puts((i - d) % N)' = Puts((i - d) % N)
      BY <1>4, <2>0, <2>4, <3>2
    <3>6. QED
      BY <1>3, <1>5, <2>0, <2>4, <3>1, <3>3, <3>4, <3>5
  <2>5. QED
    BY <2>2, <2>3, <2>4
<1>9. QED
  BY <1>0, <1>6, <1>7, <1>8 DEF RInv

LEMMA GetKeeps ==
  ASSUME RInv, NEW i \in Ring, Get(i)
  PROVE  RInv'
<1>0. TypeOK /\ TypeOK' /\ InStep /\ QueueContents /\ PutsChain
  BY TypeStep DEF RInv, Next
<1>1. /\ pc[i] = "get" /\ q[Pred(i)] # <<>>
      /\ q' = [q EXCEPT ![Pred(i)] = Tail(@)]
      /\ UNCHANGED step
      /\ \A j \in Ring \ {i} : pc'[j] = pc[j] /\ ph'[j] = ph[j] /\ ix'[j] = ix[j]
  <2>1. DOMAIN pc = Ring /\ DOMAIN ph = Ring /\ DOMAIN ix = Ring
    BY <1>0 DEF TypeOK
  <2>2. QED
    BY <2>1 DEF Get
<1>2. /\ N > 1 /\ step[i] \in Nat \ {0} /\ ix[i] \in 0 .. N - 2 /\ ph[i] \in {"rs", "ag"}
      /\ Pred(i) \in Ring /\ q[Pred(i)] \in Seq(Msg)
  <2>1. Pred(i) \in Ring
    BY <1>0, IdsInRing
  <2>2. QED
    BY <1>0, <1>1, <2>1, InStepAt, TypeAt
<1>20. DOMAIN pc = Ring /\ DOMAIN ph = Ring /\ DOMAIN ix = Ring /\ DOMAIN q = Ring
  BY <1>0 DEF TypeOK
<1>3. /\ Puts(i) = Pos(step[i], ph[i], ix[i]) + 1 /\ Gets(i) = Pos(step[i], ph[i], ix[i])
      /\ Puts(i)' = Puts(i) /\ Gets(i)' = Gets(i) + 1
      /\ pc'[i] \in {"put", "update"}
  <2>1. CASE /\ ix[i] < LastIdx
             /\ ix' = [ix EXCEPT ![i] = @ + 1]
             /\ pc' = [pc EXCEPT ![i] = "put"]
             /\ UNCHANGED ph
    <3>1. Pos(step[i], ph[i], ix[i]) + 1 = Pos(step[i], ph[i], ix[i] + 1)
      <4>1. ix[i] \in 0 .. N - 3
        BY <1>2, <2>1, ConstAssumption DEF LastIdx
      <4>2. QED
        BY <1>2, <4>1, PosNext
    <3>2. pc'[i] = "put" /\ ix'[i] = ix[i] + 1 /\ ph'[i] = ph[i] /\ step'[i] = step[i]
      BY <1>1, <1>20, <2>1
    <3>3. QED
      BY <1>1, <2>1, <3>1, <3>2 DEF Puts, Gets
  <2>2. CASE /\ ix[i] = LastIdx
             /\ ph[i] = "rs"
             /\ ph' = [ph EXCEPT ![i] = "ag"]
             /\ ix' = [ix EXCEPT ![i] = 0]
             /\ pc' = [pc EXCEPT ![i] = "put"]
    <3>1. Pos(step[i], ph[i], ix[i]) + 1 = Pos(step[i], "ag", 0)
      BY <1>2, <2>2, PosNext DEF LastIdx
    <3>2. QED
      BY <1>0, <1>1, <2>2, <3>1 DEF Puts, Gets, TypeOK
  <2>3. CASE /\ ix[i] = LastIdx
             /\ ph[i] = "ag"
             /\ pc' = [pc EXCEPT ![i] = "update"]
             /\ UNCHANGED <<ph, ix>>
    <3>1. Pos(step[i], ph[i], ix[i]) + 1 = step[i] * W
      BY <1>2, <2>3, PosNext DEF LastIdx
    <3>2. QED
      BY <1>0, <1>1, <2>3, <3>1 DEF Puts, Gets, TypeOK
  <2>4. QED
    BY <1>1, <2>1, <2>2, <2>3 DEF Get
<1>4. \A j \in Ring : Puts(j)' = Puts(j)
  BY <1>1, <1>3, CountsUnchanged
<1>5. \A j \in Ring \ {i} : Gets(j)' = Gets(j)
  BY <1>1, CountsUnchanged
<1>6. \A j \in Ring : Puts(j) \in Nat /\ Gets(j) \in Nat
  BY <1>0, CountsGap
<1>7. InStep'
  <2> SUFFICES ASSUME NEW j \in Ring
               PROVE  /\ pc'[j] # "compute" => step'[j] >= 1
                      /\ pc'[j] \in {"put", "get"} => N > 1
    BY DEF InStep
  <2>1. CASE j = i
    BY <1>1, <1>2, <1>3, <2>1
  <2>2. CASE j # i
    <3>1. pc'[j] = pc[j] /\ step'[j] = step[j]
      BY <1>1, <2>2
    <3>2. QED
      BY <1>0, <3>1 DEF InStep
  <2>3. QED
    BY <2>1, <2>2
<1>8. QueueContents'
  <2> SUFFICES ASSUME NEW j \in Ring PROVE
        /\ Len(q'[Pred(j)]) = Puts(Pred(j))' - Gets(j)'
        /\ \A k \in 1 .. Len(q'[Pred(j)]) :
             LET m == q'[Pred(j)][k] IN
               /\ m.st >= 1
               /\ m.ix \in 0 .. N - 2
               /\ Pos(m.st, m.ph, m.ix) = Gets(j)' + k - 1
               /\ m.sid = SendIdAt(Pred(j), m.ph, m.ix)
    BY DEF QueueContents
  <2>0. Pred(j) \in Ring
    BY IdsInRing, <1>0
  <2>1. CASE j = i
    <3>1. /\ q'[Pred(i)] = Tail(q[Pred(i)])
          /\ Len(q'[Pred(i)]) = Len(q[Pred(i)]) - 1
          /\ \A k \in 1 .. Len(q'[Pred(i)]) : q'[Pred(i)][k] = q[Pred(i)][k + 1]
      <4>1. q'[Pred(i)] = Tail(q[Pred(i)])
        BY <1>1, <1>2, <1>20
      <4>2. /\ Len(Tail(q[Pred(i)])) = Len(q[Pred(i)]) - 1
            /\ \A k \in 1 .. Len(Tail(q[Pred(i)])) : Tail(q[Pred(i)])[k] = q[Pred(i)][k + 1]
        BY <1>1, <1>2, HeadTailProperties
      <4>3. QED
        BY <4>1, <4>2
    <3>2. /\ Len(q[Pred(i)]) = Puts(Pred(i)) - Gets(i)
          /\ \A k \in 1 .. Len(q[Pred(i)]) :
               LET m == q[Pred(i)][k] IN
                 /\ m.st >= 1
                 /\ m.ix \in 0 .. N - 2
                 /\ Pos(m.st, m.ph, m.ix) = Gets(i) + k - 1
                 /\ m.sid = SendIdAt(Pred(i), m.ph, m.ix)
      BY <1>0 DEF QueueContents
    <3>3. Len(q[Pred(i)]) \in Nat
      BY <1>2
    <3>4. Len(q'[Pred(i)]) = Puts(Pred(i))' - Gets(i)'
      BY <1>2, <1>3, <1>4, <1>6, <3>1, <3>2, <3>3
    <3>5. ASSUME NEW k \in 1 .. Len(q'[Pred(i)])
          PROVE  LET m == q'[Pred(i)][k] IN
                   /\ m.st >= 1
                   /\ m.ix \in 0 .. N - 2
                   /\ Pos(m.st, m.ph, m.ix) = Gets(i)' + k - 1
                   /\ m.sid = SendIdAt(Pred(i), m.ph, m.ix)
      <4>1. k + 1 \in 1 .. Len(q[Pred(i)])
        BY <3>1, <3>3
      <4>2. Gets(i) + (k + 1) - 1 = Gets(i)' + k - 1
        BY <1>3, <1>6
      <4>3. QED
        BY <3>1, <3>2, <4>1, <4>2
    <3>6. QED
      BY <2>1, <3>4, <3>5
  <2>2. CASE j # i
    <3>1. Pred(j) # Pred(i)
      BY <2>2, PredInjective
    <3>2. q'[Pred(j)] = q[Pred(j)] /\ Gets(j)' = Gets(j)
      BY <1>0, <1>1, <1>5, <2>0, <2>2, <3>1 DEF TypeOK
    <3>3. QED
      BY <1>0, <1>4, <2>0, <3>2 DEF QueueContents
  <2>3. QED
    BY <2>1, <2>2
<1>9. PutsChain'
  <2> SUFFICES ASSUME NEW j \in Ring, NEW d \in 0 .. N - 1
               PROVE  Puts(j)' <= Puts((j - d) % N)' + d
    BY DEF PutsChain
  <2>1. (j - d) % N \in Ring
    BY ModInRing DEF Ring
  <2>2. QED
    BY <1>0, <1>4, <2>1 DEF PutsChain
<1>10. QED
  BY <1>0, <1>7, <1>8, <1>9 DEF RInv

(* Before any worker has begun a step every queue is empty and every count *)
(* is zero.                                                                 *)
LEMMA InitRInv == Init => RInv
<1> SUFFICES ASSUME Init PROVE RInv
  OBVIOUS
<1>1. TypeOK
  BY DEF Init, TypeOK, SliceVal
<1>2. \A j \in Ring : Puts(j) = 0 /\ Gets(j) = 0
  <2> SUFFICES ASSUME NEW j \in Ring PROVE Puts(j) = 0 /\ Gets(j) = 0
    OBVIOUS
  <2>1. pc[j] = "compute" /\ step[j] = 0
    BY DEF Init
  <2>2. step[j] * W = 0
    BY <2>1, WType
  <2>3. QED
    BY <2>1, <2>2 DEF Puts, Gets
<1>3. QueueContents
  <2> SUFFICES ASSUME NEW i \in Ring PROVE Len(q[Pred(i)]) = Puts(Pred(i)) - Gets(i)
                                           /\ Len(q[Pred(i)]) = 0
    BY DEF QueueContents
  <2>1. Pred(i) \in Ring
    BY <1>1, IdsInRing
  <2>2. QED
    BY <1>2, <2>1 DEF Init
<1>4. PutsChain
  <2> SUFFICES ASSUME NEW i \in Ring, NEW d \in 0 .. N - 1
               PROVE  Puts(i) <= Puts((i - d) % N) + d
    BY DEF PutsChain
  <2>1. (i - d) % N \in Ring
    BY ModInRing DEF Ring
  <2>2. QED
    BY <1>2, <2>1
<1>5. InStep
  BY DEF Init, InStep
<1>6. QED
  BY <1>1, <1>3, <1>4, <1>5 DEF RInv

(* Every step of the ring keeps the counting invariant.                     *)
LEMMA RInvStep == RInv /\ [Next]_vars => RInv'
<1> SUFFICES ASSUME RInv, [Next]_vars PROVE RInv'
  OBVIOUS
<1>1. CASE \E i \in Ring : ForwardBegin(i)
  BY <1>1, ForwardBeginKeeps
<1>2. CASE \E i \in Ring : ForwardEnd(i)
  BY <1>2, ForwardEndKeeps
<1>3. CASE \E i \in Ring : Put(i)
  BY <1>3, PutKeeps
<1>4. CASE \E i \in Ring : Get(i)
  BY <1>4, GetKeeps
<1>5. CASE \E i \in Ring : Update(i)
  BY <1>5, UpdateKeeps
<1>6. CASE \E i \in Ring : PollStop(i)
  BY <1>6, PollStopKeeps
<1>7. CASE TesterFetch \/ Finished \/ UNCHANGED vars
  BY <1>7, TesterKeeps
<1>8. QED
  BY <1>1, <1>2, <1>3, <1>4, <1>5, <1>6, <1>7 DEF Next

-----------------------------------------------------------------------------
(* aggr_msg_q, although an unbounded queue.Queue, never holds more than N   *)
(* items, for every ring size and number of iterations: worker i is at most *)
(* N - 1 puts ahead of its successor, which has fetched all but at most one *)
(* of its own puts (Worker.run_worker, training_sgd_allreduce.py).          *)
THEOREM QueueBoundHolds == Spec => []QueueBound
<1>1. RInv => QueueBound
  <2> SUFFICES ASSUME RInv, NEW i \in Ring PROVE Len(q[i]) <= N
    BY DEF QueueBound
  <2>0. TypeOK /\ InStep /\ QueueContents /\ PutsChain
    BY DEF RInv
  <2> DEFINE j == (i + 1) % N
  <2>1. j \in Ring /\ Pred(j) = i
    BY PredOfSucc
  <2>2. Len(q[i]) = Puts(i) - Gets(j)
    BY <2>0, <2>1 DEF QueueContents
  <2>3. (i - (N - 1)) % N = j
    <3>0. /\ N \in Nat \ {0} /\ i \in 0 .. N - 1
          /\ i - (N - 1) \in Int /\ -N <= i - (N - 1) /\ i - (N - 1) < 2 * N
          /\ i + 1 \in Int /\ -N <= i + 1 /\ i + 1 < 2 * N
      BY ConstAssumption DEF Ring
    <3>1. (i - (N - 1)) % N
          = IF i - (N - 1) < 0 THEN i - (N - 1) + N
            ELSE IF i - (N - 1) < N THEN i - (N - 1) ELSE i - (N - 1) - N
      BY <3>0, ModVal
    <3>2. j = IF i + 1 < 0 THEN i + 1 + N ELSE IF i + 1 < N THEN i + 1 ELSE i + 1 - N
      BY <3>0, ModVal
    <3>3. QED
      BY <3>0, <3>1, <3>2
  <2>4. Puts(i) <= Puts(j) + (N - 1)
    <3>1. N - 1 \in 0 .. N - 1
      BY ConstAssumption
    <3>2. QED
      BY <2>0, <2>3, <3>1 DEF PutsChain
  <2>5. Puts(j) <= Gets(j) + 1 /\ Puts(j) \in Nat /\ Gets(j) \in Nat /\ Puts(i) \in Nat
    BY <2>0, <2>1, CountsGap
  <2>6. QED
    BY <2>2, <2>4, <2>5, ConstAssumption
<1>2. QED
  BY InitRInv, RInvStep, <1>1, PTL DEF Spec

(* The counting invariant puts the head of Pred(i)'s queue in worker i's   *)
(* current iteration.                                                      *)
LEMMA HandOffFromRInv == RInv => HandOffInOrder
<1> SUFFICES ASSUME RInv, NEW i \in Ring, pc[i] = "get", q[Pred(i)] # <<>>
             PROVE  LET m == Head(q[Pred(i)]) IN
                      /\ m.st = step[i]
                      /\ m.ph = ph[i]
                      /\ m.ix = ix[i]
                      /\ m.sid = RecvId(i)
  BY DEF HandOffInOrder
<1>0. TypeOK /\ InStep /\ QueueContents
  BY DEF RInv
<1> DEFINE m == Head(q[Pred(i)])
<1>1. /\ N > 1 /\ step[i] \in Nat \ {0} /\ ix[i] \in 0 .. N - 2 /\ ph[i] \in {"rs", "ag"}
      /\ Pred(i) \in Ring /\ q[Pred(i)] \in Seq(Msg)
  <2>1. Pred(i) \in Ring
    BY <1>0, IdsInRing
  <2>2. QED
    BY <1>0, <2>1, TypeAt, InStepAt
<1>2. Len(q[Pred(i)]) >= 1 /\ m = q[Pred(i)][1]
  BY <1>1
<1>3. /\ m.st \in Nat \ {0} /\ m.ix \in 0 .. N - 2 /\ m.ph \in {"rs", "ag"}
      /\ Pos(m.st, m.ph, m.ix) = Gets(i)
      /\ m.sid = SendIdAt(Pred(i), m.ph, m.ix)
  <2>1. m \in Msg
    BY <1>1, <1>2
  <2>2. /\ m.st >= 1 /\ m.ix \in 0 .. N - 2
        /\ Pos(m.st, m.ph, m.ix) = Gets(i) + 1 - 1
        /\ m.sid = SendIdAt(Pred(i), m.ph, m.ix)
    <3>1. \A k \in 1 .. Len(q[Pred(i)]) :
            LET mk == q[Pred(i)][k] IN
              /\ mk.st >= 1 /\ mk.ix \in 0 .. N - 2
              /\ Pos(mk.st, mk.ph, mk.ix) = Gets(i) + k - 1
              /\ mk.sid = SendIdAt(Pred(i), mk.ph, mk.ix)
      BY <1>0 DEF QueueContents
    <3>2. 1 \in 1 .. Len(q[Pred(i)])
      BY <1>2
    <3>3. QED
      BY <1>2, <3>1, <3>2
  <2>3. m.st \in Nat /\ m.ph \in {"rs", "ag"} /\ Gets(i) \in Nat
    BY <1>0, <2>1, CountsGap DEF Msg
  <2>4. QED
    BY <2>2, <2>3
<1>4. Gets(i) = Pos(step[i], ph[i], ix[i])
  BY DEF Gets
<1>5. m.st = step[i] /\ m.ph = ph[i] /\ m.ix = ix[i]
  BY <1>1, <1>3, <1>4, PosInjective
<1>6. SendIdAt(Pred(i), ph[i], ix[i]) = RecvId(i)
  <2> DEFINE k == ix[i]  P == Pred(i)  S == SendId(i)
  <2>1. /\ N \in Nat \ {0} /\ N > 1 /\ i \in 0 .. N - 1 /\ k \in 0 .. N - 2
        /\ P = IF i = 0 THEN N - 1 ELSE i - 1
        /\ S \in 0 .. N - 1
    <3>1. P = IF i = 0 THEN N - 1 ELSE i - 1
      BY PredIs
    <3>2. S \in Ring
      BY <1>0, IdsInRing
    <3>3. QED
      BY <1>1, <3>1, <3>2, ConstAssumption DEF Ring
  <2>2. RecvId(i) = IF S - 1 < 0 THEN S - 1 + N ELSE IF S - 1 < N THEN S - 1 ELSE S - 1 - N
    <3>1. S - 1 \in Int /\ -N <= S - 1 /\ S - 1 < 2 * N
      BY <2>1
    <3>2. QED
      BY <3>1, ModVal DEF RecvId
  <2>3. CASE ph[i] = "rs"
    <3>1. /\ P - k \in Int /\ -N <= P - k /\ P - k < 2 * N
          /\ i - k \in Int /\ -N <= i - k /\ i - k < 2 * N
      <4>1. P \in 0 .. N - 1
        BY <2>1
      <4>2. N \in Nat /\ k \in 0 .. N - 2
        BY <2>1
      <4>3. P - k \in Int /\ -N <= P - k /\ P - k < 2 * N
        BY <4>1, <4>2
      <4>4. i - k \in Int /\ -N <= i - k /\ i - k < 2 * N
        BY <2>1, <4>2
      <4>5. QED
        BY <4>3, <4>4
    <3>2. SendIdAt(P, ph[i], k) = IF P - k < 0 THEN P - k + N ELSE IF P - k < N THEN P - k ELSE P - k - N
      <4>1. SendIdAt(P, ph[i], k) = (P - k) % N
        BY <2>3 DEF SendIdAt
      <4>2. QED
        BY <3>1, <4>1, ModVal
    <3>3. S = IF i - k < 0 THEN i - k + N ELSE IF i - k < N THEN i - k ELSE i - k - N
      <4>1. S = (i - k) % N
        BY <2>3 DEF SendId
      <4>2. QED
        BY <3>1, <4>1, ModVal
    <3>4. QED
      BY <2>1, <2>2, <3>2, <3>3
  <2>4. CASE ph[i] = "ag"
    <3>1. /\ P + 1 - k \in Int /\ -N <= P + 1 - k /\ P + 1 - k < 2 * N
          /\ i + 1 - k \in Int /\ -N <= i + 1 - k /\ i + 1 - k < 2 * N
      <4>1. P \in 0 .. N - 1
        BY <2>1
      <4>2. N \in Nat /\ k \in 0 .. N - 2
        BY <2>1
      <4>3. P + 1 - k \in Int /\ -N <= P + 1 - k /\ P + 1 - k < 2 * N
        BY <4>1, <4>2
      <4>4. i + 1 - k \in Int /\ -N <= i + 1 - k /\ i + 1 - k < 2 * N
        BY <2>1, <4>2
      <4>5. QED
        BY <4>3, <4>4
    <3>2. SendIdAt(P, ph[i], k)
          = IF P + 1 - k < 0 THEN P + 1 - k + N
            ELSE IF P + 1 - k < N THEN P + 1 - k ELSE P + 1 - k - N
      <4>1. SendIdAt(P, ph[i], k) = (P + 1 - k) % N
        BY <2>4 DEF SendIdAt
      <4>2. (P + 1 - k) % N
            = IF P + 1 - k < 0 THEN P + 1 - k + N
              ELSE IF P + 1 - k < N THEN P + 1 - k ELSE P + 1 - k - N
        <5>1. P \in Int /\ k \in Int /\ -N <= P + 1 - k /\ P + 1 - k < 2 * N
          BY <2>1, <3>1
        <5>2. QED
          BY <5>1, ModValSucc, Zenon
      <4>3. QED
        BY <4>1, <4>2, Zenon
    <3>3. S = IF i + 1 - k < 0 THEN i + 1 - k + N
              ELSE IF i + 1 - k < N THEN i + 1 - k ELSE i + 1 - k - N
      <4>1. S = (i + 1 - k) % N
        BY <2>4 DEF SendId
      <4>2. (i + 1 - k) % N
            = IF i + 1 - k < 0 THEN i + 1 - k + N
              ELSE IF i + 1 - k < N THEN i + 1 - k ELSE i + 1 - k - N
        <5>1. i \in Int /\ k \in Int /\ -N <= i + 1 - k /\ i + 1 - k < 2 * N
          BY <2>1, <3>1
        <5>2. QED
          BY <5>1, ModValSucc, Zenon
      <4>3. QED
        BY <4>1, <4>2, Zenon
    <3>4. QED
      <4>1. CASE i = 0 /\ k = 0
        BY <2>1, <2>2, <3>2, <3>3, <4>1
      <4>2. CASE i = 0 /\ k = 1
        BY <2>1, <2>2, <3>2, <3>3, <4>2
      <4>3. CASE i = 0 /\ k > 1
        BY <2>1, <2>2, <3>2, <3>3, <4>3
      <4>4. CASE i # 0 /\ i + 1 - k = N
        BY <2>1, <2>2, <3>2, <3>3, <4>4
      <4>5. CASE i # 0 /\ i + 1 - k # N
        BY <2>1, <2>2, <3>2, <3>3, <4>5
      <4>6. QED
        BY <2>1, <4>1, <4>2, <4>3, <4>4, <4>5
  <2>5. QED
    BY <1>1, <2>3, <2>4
<1>7. m.sid = RecvId(i)
  BY <1>3, <1>5, <1>6
<1>8. QED
  BY <1>5, <1>7

(* The FIFO hand-off pairs iterations correctly for every ring size: when   *)
(* worker i blocks in get_gradient_slice on a non-empty queue, the item it  *)
(* receives was put by its predecessor in the same step, loop and idx, and  *)
(* is the slice recv_slice_id that i adds it to.                            *)
THEOREM HandOffInOrderHolds == Spec => []HandOffInOrder
BY InitRInv, RInvStep, HandOffFromRInv, PTL DEF Spec

-----------------------------------------------------------------------------
(***************************************************************************)
(* The refinement of LockstepRounds.  Under the mapping                    *)
(*   started <- step,  finished <- RingFinished                            *)
(* the start of a forward pass (ForwardBegin) is a Start, optimizer.step   *)
(* (Update) a Finish, and every other step a stutter.                      *)
(***************************************************************************)

\* Every worker is some number of places before any other.
LEMMA SomeDistance ==
  ASSUME NEW x \in Ring, NEW j \in Ring
  PROVE  ((x - j) % N) \in 0 .. N - 1 /\ (x - ((x - j) % N)) % N = j
<1> DEFINE d == (x - j) % N
<1>0. /\ N \in Nat \ {0} /\ x \in 0 .. N - 1 /\ j \in 0 .. N - 1
      /\ x - j \in Int /\ -N <= x - j /\ x - j < 2 * N
  BY ConstAssumption DEF Ring
<1>1. d = IF x - j < 0 THEN x - j + N ELSE IF x - j < N THEN x - j ELSE x - j - N
  BY <1>0, ModVal
<1>2. d \in 0 .. N - 1 /\ x - d \in Int /\ -N <= x - d /\ x - d < 2 * N
  BY <1>0, <1>1
<1>3. (x - d) % N = IF x - d < 0 THEN x - d + N ELSE IF x - d < N THEN x - d ELSE x - d - N
  BY <1>0, <1>2, ModVal
<1>4. QED
  BY <1>0, <1>1, <1>2, <1>3

\* A worker has put no item of a step it has not begun.
LEMMA PutsWithinStep ==
  ASSUME TypeOK, InStep, NEW j \in Ring
  PROVE  Puts(j) <= step[j] * W
<1>0. W \in Nat
  BY WType
<1>1. step[j] \in Nat /\ step[j] * W \in Nat
  <2>1. step[j] \in Nat
    BY TypeAt
  <2>2. QED
    BY <2>1, StepBase
<1>2. CASE pc[j] \in {"put", "get"}
  <2>1. N > 1 /\ step[j] \in Nat \ {0} /\ ix[j] \in 0 .. N - 2 /\ ph[j] \in {"rs", "ag"}
    BY <1>2, TypeAt, InStepAt
  <2>2. Pos(step[j], ph[j], ix[j]) < step[j] * W /\ Pos(step[j], ph[j], ix[j]) \in Nat
    BY <2>1, PosBounds
  <2>3. Puts(j) = Pos(step[j], ph[j], ix[j]) \/ Puts(j) = Pos(step[j], ph[j], ix[j]) + 1
    BY <1>2 DEF Puts
  <2>4. QED
    BY <1>1, <2>2, <2>3
<1>3. CASE pc[j] \in {"fwd", "crashed"}
  <2>1. step[j] \in Nat \ {0}
    BY <1>3, InStepAt
  <2>2. step[j] * W = (step[j] - 1) * W + W /\ (step[j] - 1) * W \in Nat
    BY <2>1, StepBase
  <2>3. Puts(j) = (step[j] - 1) * W
    BY <1>3 DEF Puts
  <2>4. QED
    BY <1>0, <2>2, <2>3
<1>4. CASE pc[j] \in {"compute", "update", "poll", "done"}
  <2>1. Puts(j) = step[j] * W
    BY <1>4 DEF Puts
  <2>2. QED
    BY <1>1, <2>1
<1>5. QED
  BY <1>2, <1>3, <1>4, TypeAt

(* When a worker reaches optimizer.step of its round, every worker has      *)
(* begun that round: it has fetched all 2(N-1) items of the round, and its   *)
(* predecessors cannot have put them without having begun it.               *)
LEMMA UpdateAfterAllStarted ==
  ASSUME RInv, NEW i \in Ring, pc[i] = "update", NEW j \in Ring
  PROVE  step[j] > step[i] - 1
<1>0. TypeOK /\ InStep /\ QueueContents /\ PutsChain
  BY DEF RInv
<1>1. step[i] \in Nat \ {0} /\ step[j] \in Nat
  BY <1>0, TypeAt, InStepAt
<1>2. CASE N = 1
  <2>1. i = j
    BY <1>2 DEF Ring
  <2>2. QED
    BY <1>1, <2>1
<1>3. CASE N # 1
  <2>0. N > 1 /\ W \in Nat /\ W - (N - 1) > 0
    BY <1>3, WType, ConstAssumption
  <2>1. Gets(i) = step[i] * W
    BY DEF Gets
  <2>2. Pred(i) \in Ring /\ Gets(i) <= Puts(Pred(i))
    <3>1. Pred(i) \in Ring
      BY <1>0, IdsInRing
    <3>2. Len(q[Pred(i)]) = Puts(Pred(i)) - Gets(i) /\ Len(q[Pred(i)]) \in Nat
      <4>1. Len(q[Pred(i)]) = Puts(Pred(i)) - Gets(i)
        BY <1>0 DEF QueueContents
      <4>2. q[Pred(i)] \in Seq(Msg)
        BY <1>0, <3>1, TypeAt
      <4>3. QED
        BY <4>1, <4>2
    <3>3. Puts(Pred(i)) \in Nat /\ Gets(i) \in Nat
      BY <1>0, <3>1, CountsGap
    <3>4. QED
      BY <3>1, <3>2, <3>3
  <2>3. Puts(Pred(i)) <= Puts(j) + (N - 1)
    <3> DEFINE d == (Pred(i) - j) % N
    <3>1. d \in 0 .. N - 1 /\ (Pred(i) - d) % N = j
      BY <2>2, SomeDistance
    <3>2. Puts(Pred(i)) <= Puts((Pred(i) - d) % N) + d
      BY <1>0, <2>2, <3>1 DEF PutsChain
    <3>3. Puts(Pred(i)) <= Puts(j) + d
      BY <3>1, <3>2, Zenon
    <3>4. Puts(j) \in Nat /\ Puts(Pred(i)) \in Nat
      BY <1>0, <2>2, CountsGap
    <3>5. QED
      BY <3>1, <3>3, <3>4, ConstAssumption
  <2>4. Puts(j) <= step[j] * W
    BY <1>0, PutsWithinStep
  <2>5. step[i] * W = (step[i] - 1) * W + W /\ (step[i] - 1) * W \in Nat
    BY <1>1, StepBase
  <2>6. step[j] * W > (step[i] - 1) * W
    <3>1. Puts(j) \in Nat /\ Puts(Pred(i)) \in Nat /\ Gets(i) \in Nat
      BY <1>0, <2>2, CountsGap
    <3>2. step[j] * W \in Nat
      BY <1>1, StepBase
    <3>3. Gets(i) = (step[i] - 1) * W + W
      BY <2>1, <2>5
    <3>4. N \in Nat
      BY ConstAssumption
    <3>5. QED
      BY <2>0, <2>2, <2>3, <2>4, <2>5, <3>1, <3>2, <3>3, <3>4, BoundChain, Zenon
  <2>7. QED
    <3>1. SUFFICES ASSUME step[j] <= step[i] - 1 PROVE FALSE
      BY <1>1
    <3>2. step[j] * W <= (step[i] - 1) * W
      BY <1>1, <2>0, <3>1, MulMono
    <3>3. QED
      BY <1>1, <2>5, <2>6, <3>2, StepBase
<1>4. QED
  BY <1>2, <1>3

\* The mapping is the same in all states of the exchange and outside it.
LEMMA RingFinishedFrame ==
  ASSUME TypeOK, UNCHANGED step,
         \A j \in Ring : (pc'[j] \in {"fwd", "put", "get", "update", "crashed"})
                         = (pc[j] \in {"fwd", "put", "get", "update", "crashed"})
  PROVE  RingFinished' = RingFinished
BY DEF RingFinished

(* The ring all-reduce implements lockstep rounds for every ring size and   *)
(* every number of iterations: a worker reaches optimizer.step of round k   *)
(* only after every worker has begun round k, although only the order of    *)
(* the aggr_msg_q queues pairs the rounds of neighbours.                    *)
THEOREM RingImplementsLockstep == Spec => ImplementsLockstep
<1>1. Init => Lockstep!Init
  BY DEF Init, Lockstep!Init, RingFinished
<1>2. RInv /\ [Next]_vars => [Lockstep!Next]_Lockstep!vars
  <2> SUFFICES ASSUME RInv, [Next]_vars PROVE [Lockstep!Next]_Lockstep!vars
    OBVIOUS
  <2>0. TypeOK
    BY DEF RInv
  <2>1. ASSUME NEW i \in Ring, ForwardBegin(i) PROVE Lockstep!Start(i)
    <3>1. /\ pc[i] = "compute" /\ step[i] < Iters[i] /\ pc' = [pc EXCEPT ![i] = "fwd"]
          /\ step' = [step EXCEPT ![i] = @ + 1]
      BY <2>1 DEF ForwardBegin
    <3>2. RingFinished[i] = step[i] /\ RingFinished' = RingFinished
      BY <2>0, <3>1 DEF RingFinished, TypeOK
    <3>3. QED
      BY <3>1, <3>2 DEF Lockstep!Start
  <2>2. ASSUME NEW i \in Ring, Update(i) PROVE Lockstep!Finish(i)
    <3>1. /\ pc[i] = "update" /\ pc' = [pc EXCEPT ![i] = "poll"] /\ UNCHANGED step
      BY <2>2 DEF Update
    <3>2. step[i] \in Nat \ {0}
      <4>1. InStep
        BY DEF RInv
      <4>2. QED
        BY <2>0, <3>1, <4>1, InStepAt
    <3>3. RingFinished[i] = step[i] - 1
      BY <3>1 DEF RingFinished
    <3>4. RingFinished' = [RingFinished EXCEPT ![i] = @ + 1]
      <4>1. pc'[i] = "poll" /\ \A j \in Ring \ {i} : pc'[j] = pc[j]
        <5>1. DOMAIN pc = Ring
          BY <2>0 DEF TypeOK
        <5>2. QED
          BY <3>1, <5>1
      <4>2. RingFinished'[i] = RingFinished[i] + 1
        BY <3>1, <3>2, <3>3, <4>1 DEF RingFinished
      <4>3. \A j \in Ring \ {i} : RingFinished'[j] = RingFinished[j]
        BY <3>1, <4>1 DEF RingFinished
      <4>4. RingFinished' = [j \in Ring |-> IF j = i THEN RingFinished[i] + 1 ELSE RingFinished[j]]
        BY <4>2, <4>3 DEF RingFinished
      <4>5. DOMAIN RingFinished = Ring
        BY DEF RingFinished
      <4>6. QED
        BY <4>4, <4>5, Zenon
    <3>5. \A j \in Ring : step[j] > RingFinished[i]
      BY <3>1, <3>3, UpdateAfterAllStarted
    <3>6. QED
      BY <3>1, <3>2, <3>3, <3>4, <3>5 DEF Lockstep!Finish
  <2>3. ASSUME NEW i \in Ring, ForwardEnd(i) \/ Put(i) \/ Get(i)
        PROVE  RingFinished' = RingFinished /\ UNCHANGED step
    <3>1. UNCHANGED step /\ pc[i] \in {"fwd", "put", "get"}
          /\ pc'[i] \in {"crashed", "put", "get", "update"}
          /\ \A j \in Ring \ {i} : pc'[j] = pc[j]
      BY <2>0, <2>3 DEF ForwardEnd, Put, Get, TypeOK
    <3>2. QED
      BY <2>0, <3>1, RingFinishedFrame
  <2>4. ASSUME NEW i \in Ring, PollStop(i)
        PROVE  RingFinished' = RingFinished /\ UNCHANGED step
    <3>1. UNCHANGED step /\ pc[i] = "poll" /\ pc'[i] \in {"compute", "done"}
          /\ \A j \in Ring \ {i} : pc'[j] = pc[j]
      BY <2>0, <2>4 DEF PollStop, TypeOK
    <3>2. QED
      BY <2>0, <3>1, RingFinishedFrame
  <2>5. CASE TesterFetch \/ Finished \/ UNCHANGED vars
    <3>1. UNCHANGED <<pc, step>>
      BY <2>5 DEF TesterFetch, Finished, vars
    <3>2. QED
      BY <3>1 DEF RingFinished, Lockstep!vars
  <2>6. QED
    BY <2>1, <2>2, <2>3, <2>4, <2>5 DEF Next, Lockstep!Next, Lockstep!vars
<1>3. QED
  BY InitRInv, RInvStep, <1>1, <1>2, PTL DEF Spec, ImplementsLockstep, Lockstep!Spec


(* The ring keeps every worker within one round of every other: no worker   *)
(* has run optimizer.step of a round (RingFinished) that another worker has *)
(* not yet begun with its forward pass, for every ring size and iteration   *)
(* counts.  The lockstep of the abstract rounds carries over through the    *)
(* refinement.                                                              *)
THEOREM RingLockstep ==
  Spec => [](\A i, j \in Ring : RingFinished[i] <= step[j])
<1>1. Spec => []Lockstep!Lockstep
  BY RingImplementsLockstep, Lockstep!LockstepHolds, PTL DEF ImplementsLockstep
<1>2. Lockstep!Lockstep <=> \A i, j \in Ring : RingFinished[i] <= step[j]
  BY DEF Lockstep!Lockstep
<1>3. QED
  BY <1>1, <1>2, PTL
=============================================================================
