------------------------ MODULE ShardAssignerProofs ------------------------
(***************************************************************************)
(* Proofs about the parameter partitioning loop of ShardAssigner, for      *)
(* every number of shards and every model.                                 *)
(***************************************************************************)
EXTENDS ShardAssigner, FiniteSetTheorems, SequenceTheorems, TLAPS

\* The parameters sorted before parameter k.
BeforeSet(k) == {j \in Keys : SortedBefore(j, k)}

\* A parameter has been placed by the loop.
Placed(j) == psIdx[j] # NoShard

\* The loop has placed exactly the first done parameters of the sorted list.
PlacedRanks == \A j \in Keys : Placed(j) <=> Rank(j) <= done

\* The inductive invariant.
IInv == TypeOK /\ SlotsAgree /\ PlacedRanks /\ Balanced

-----------------------------------------------------------------------------
\* The model's parameters are 1..Len(numel), each of numel 1..MaxNumel.
LEMMA KeysFacts ==
  ASSUME TypeOK
  PROVE  /\ Len(numel) \in Nat \ {0}
         /\ Keys = 1..Len(numel)
         /\ \A k \in Keys : numel[k] \in 1..MaxNumel
<1>1. /\ Len(numel) \in Nat
      /\ numel \in [1..Len(numel) -> 1..MaxNumel]
      /\ DOMAIN numel = 1..Len(numel)
  BY LenProperties DEF TypeOK
<1>2. Len(numel) \in 1..MaxParams
  BY DEF TypeOK
<1>. QED  BY <1>1, <1>2 DEF Keys

\* Rank(k) is one more than the size of a finite set.
LEMMA RankType ==
  ASSUME TypeOK, NEW k \in Keys
  PROVE  /\ IsFiniteSet(BeforeSet(k))
         /\ Cardinality(BeforeSet(k)) \in Nat
         /\ Rank(k) = Cardinality(BeforeSet(k)) + 1
<1>1. BeforeSet(k) \subseteq 1..Len(numel)
  BY KeysFacts DEF BeforeSet
<1>2. IsFiniteSet(1..Len(numel))
  BY KeysFacts, FS_Interval
<1>3. IsFiniteSet(BeforeSet(k))
  BY <1>1, <1>2, FS_Subset
<1>4. Cardinality(BeforeSet(k)) \in Nat
  BY <1>3, FS_CardinalityType
<1>. QED  BY <1>3, <1>4 DEF Rank, BeforeSet

(* The stable sort orders any two parameters, so no two have the same       *)
(* rank: the loop's "next parameter" is unique.                             *)
LEMMA RankInjective ==
  ASSUME TypeOK, NEW j \in Keys, NEW k \in Keys, j # k
  PROVE  Rank(j) # Rank(k)
<1>1. ASSUME NEW a \in Keys, NEW b \in Keys, SortedBefore(a, b)
      PROVE  Rank(a) # Rank(b)
  <2>1. BeforeSet(a) \subseteq BeforeSet(b)
    BY <1>1, KeysFacts DEF BeforeSet, SortedBefore
  <2>2. a \in BeforeSet(b) /\ a \notin BeforeSet(a)
    BY <1>1, KeysFacts DEF BeforeSet, SortedBefore
  <2>3. IsFiniteSet(BeforeSet(b))
    BY RankType
  <2>4. Cardinality(BeforeSet(a)) # Cardinality(BeforeSet(b))
    BY <2>1, <2>2, <2>3, FS_Subset
  <2>. QED  BY <2>4, RankType
<1>2. SortedBefore(j, k) \/ SortedBefore(k, j)
  BY KeysFacts DEF SortedBefore
<1>. QED  BY <1>1, <1>2

-----------------------------------------------------------------------------
\* Every step of the loop keeps the variables well typed.
LEMMA TypeStep == TypeOK /\ [Next]_vars => TypeOK'
<1> SUFFICES ASSUME TypeOK, [Next]_vars PROVE TypeOK'
  OBVIOUS
<1>1. CASE \E k \in Keys, s \in Shards : Place(k, s)
  <2>1. PICK k \in Keys, s \in Shards : Place(k, s)
    BY <1>1
  <2>2. Keys' = Keys /\ Len(numel') = Len(numel) /\ numel' = numel
    BY <2>1 DEF Place, Assign, Keys
  <2>3. Len(lists[s]) \in Nat
    BY LenProperties DEF TypeOK
  <2>4. Append(lists[s], k) \in Seq(Keys)
    BY AppendProperties DEF TypeOK
  <2>5. numel[k] \in Nat
    BY KeysFacts
  <2>. QED  BY <2>1, <2>2, <2>3, <2>4, <2>5 DEF TypeOK, Place, Assign
<1>2. CASE Partitioned \/ UNCHANGED vars
  BY <1>2 DEF TypeOK, Partitioned, vars, Keys
<1>. QED  BY <1>1, <1>2 DEF Next

\* A function on 1..n is a sequence of length n.
LEMMA FunctionIsSeq ==
  ASSUME NEW S, NEW n \in Nat, NEW f \in [1..n -> S]
  PROVE  f \in Seq(S) /\ Len(f) = n
<1>1. f \in Seq(S)
  BY SeqDef
<1>2. Len(f) \in Nat /\ DOMAIN f = 1..Len(f)
  BY <1>1, LenProperties
<1>3. 1..Len(f) = 1..n
  BY <1>2
<1>4. Len(f) = n
  BY <1>2, <1>3
<1>. QED  BY <1>1, <1>4

\* The partitioning starts well typed.
LEMMA TypeInit == Init => TypeOK
<1> SUFFICES ASSUME Init PROVE TypeOK
  OBVIOUS
<1>1. PICK n \in 1..MaxParams : numel \in [1..n -> 1..MaxNumel]
  BY DEF Init
<1>2. numel \in Seq(1..MaxNumel) /\ Len(numel) = n
  BY <1>1, ShardAssumption, FunctionIsSeq
<1>. QED  BY <1>1, <1>2 DEF Init, TypeOK, Keys

\* The loop's variables always have their types.
THEOREM ShardTypeCorrect == Spec => []TypeOK
BY TypeInit, TypeStep, PTL DEF Spec
-----------------------------------------------------------------------------
\* The loop starts in a state of the inductive invariant.
LEMMA InitIInv == Init => IInv
<1> SUFFICES ASSUME Init PROVE IInv
  OBVIOUS
<1>1. TypeOK
  BY TypeInit
<1>2. SlotsAgree
  <2>1. \A t \in Shards : Len(lists[t]) = 0
    BY DEF Init
  <2>. QED  BY <2>1 DEF Init, SlotsAgree
<1>3. PlacedRanks
  <2>1. SUFFICES ASSUME NEW j \in Keys PROVE ~Placed(j) /\ ~(Rank(j) <= done)
    BY DEF PlacedRanks
  <2>2. Rank(j) \in Nat /\ Rank(j) >= 1
    BY <1>1, RankType
  <2>3. psIdx[j] = NoShard /\ done = 0
    BY DEF Init
  <2>. QED  BY <2>2, <2>3 DEF Placed
<1>4. Balanced
  <2>1. 1 \in Keys /\ numel[1] \in Nat
    BY <1>1, KeysFacts
  <2>. QED  BY <2>1 DEF Init, Balanced
<1>. QED  BY <1>1, <1>2, <1>3, <1>4 DEF IInv

\* One iteration of the loop keeps the inductive invariant.
LEMMA PlaceStep ==
  ASSUME IInv, NEW k \in Keys, NEW s \in Shards, Place(k, s)
  PROVE  IInv'
<1>0. TypeOK /\ SlotsAgree /\ PlacedRanks /\ Balanced
  BY DEF IInv
<1>1. TypeOK'
  BY <1>0, TypeStep DEF Next
<1>2. /\ numel' = numel /\ Keys' = Keys /\ done' = done + 1
      /\ psIdx' = [psIdx EXCEPT ![k] = s]
      /\ locIdx' = [locIdx EXCEPT ![k] = Len(lists[s])]
      /\ nums' = [nums EXCEPT ![s] = @ + numel[k]]
      /\ lists' = [lists EXCEPT ![s] = Append(@, k)]
      /\ Rank(k) = done + 1 /\ IsArgMin(s)
  BY DEF Place, Assign, Keys
<1>3. ~Placed(k)
  <2>1. Rank(k) \in Nat /\ done \in Nat
    BY <1>0, RankType, KeysFacts DEF TypeOK
  <2>. QED  BY <1>0, <1>2, <2>1 DEF PlacedRanks
<1>4. \A t \in Shards : \A p \in 1..Len(lists[t]) : lists[t][p] # k
  BY <1>0, <1>3 DEF SlotsAgree, Placed, Shards, NoShard
<1>5. /\ Len(lists[s]) \in Nat
      /\ Len(lists'[s]) = Len(lists[s]) + 1
      /\ lists'[s][Len(lists[s]) + 1] = k
      /\ \A p \in 1..Len(lists[s]) : lists'[s][p] = lists[s][p]
  BY <1>0, <1>2, AppendProperties, LenProperties DEF TypeOK
<1>6. SlotsAgree'
  <2>1. ASSUME NEW j \in Keys, psIdx'[j] # NoShard
        PROVE  /\ locIdx'[j] < Len(lists'[psIdx'[j]])
               /\ lists'[psIdx'[j]][locIdx'[j] + 1] = j
    <3>1. CASE j = k
      BY <3>1, <1>0, <1>2, <1>5 DEF TypeOK
    <3>2. CASE j # k
      <4>a. psIdx[j] \in Shards /\ psIdx'[j] = psIdx[j] /\ locIdx'[j] = locIdx[j]
        BY <3>2, <2>1, <1>0, <1>2 DEF TypeOK
      <4>b. locIdx[j] < Len(lists[psIdx[j]]) /\ lists[psIdx[j]][locIdx[j] + 1] = j
        BY <4>a, <2>1, <1>0 DEF SlotsAgree
      <4>c. locIdx[j] \in Nat
        BY <1>0 DEF TypeOK
      <4>d. CASE psIdx[j] = s
        BY <4>a, <4>b, <4>c, <4>d, <1>5
      <4>e. CASE psIdx[j] # s
        BY <4>a, <4>b, <4>e, <1>2, <1>0 DEF TypeOK
      <4>. QED  BY <4>d, <4>e
    <3>. QED  BY <3>1, <3>2
  <2>2. ASSUME NEW t \in Shards, NEW p \in 1..Len(lists'[t])
        PROVE  psIdx'[lists'[t][p]] = t /\ locIdx'[lists'[t][p]] = p - 1
    <3>1. CASE t = s /\ p = Len(lists[s]) + 1
      BY <3>1, <1>0, <1>2, <1>5 DEF TypeOK
    <3>2. CASE t = s /\ p # Len(lists[s]) + 1
      <4>a. p \in 1..Len(lists[s])
        BY <3>2, <1>5
      <4>b. lists'[s][p] = lists[s][p] /\ lists[s][p] # k /\ lists[s][p] \in Keys
        BY <4>a, <1>4, <1>5, <1>0, ElementOfSeq DEF TypeOK
      <4>c. psIdx[lists[s][p]] = s /\ locIdx[lists[s][p]] = p - 1
        BY <4>a, <1>0 DEF SlotsAgree
      <4>. QED  BY <3>2, <4>b, <4>c, <1>2, <1>0 DEF TypeOK
    <3>3. CASE t # s
      <4>a. lists'[t] = lists[t]
        BY <3>3, <1>2, <1>0 DEF TypeOK
      <4>b. lists[t][p] # k /\ lists[t][p] \in Keys
        BY <4>a, <1>4, <1>0, ElementOfSeq DEF TypeOK
      <4>c. psIdx[lists[t][p]] = t /\ locIdx[lists[t][p]] = p - 1
        BY <4>a, <1>0 DEF SlotsAgree
      <4>. QED  BY <4>a, <4>b, <4>c, <1>2, <1>0 DEF TypeOK
    <3>. QED  BY <3>1, <3>2, <3>3
  <2>. QED  BY <2>1, <2>2, <1>2 DEF SlotsAgree
<1>7. PlacedRanks'
  <2>1. SUFFICES ASSUME NEW j \in Keys PROVE Placed(j)' <=> Rank(j)' <= done'
    BY <1>2 DEF PlacedRanks
  <2>2. Rank(j)' = Rank(j) /\ Rank(j) \in Nat
    <3>1. Rank(j)' = Rank(j)
      BY <1>2 DEF Rank, SortedBefore, Keys
    <3>2. Rank(j) \in Nat
      BY <1>0, RankType
    <3>. QED  BY <3>1, <3>2
  <2>3. CASE j = k
    BY <2>2, <2>3, <1>2, <1>0 DEF Placed, TypeOK, Shards, NoShard
  <2>4. CASE j # k
    <3>1. Rank(j) # Rank(k)
      BY <2>4, <1>0, RankInjective
    <3>2. Placed(j)' = Placed(j)
      BY <2>4, <1>2, <1>0 DEF Placed, TypeOK
    <3>3. Placed(j) <=> Rank(j) <= done
      BY <1>0 DEF PlacedRanks
    <3>. QED  BY <3>1, <3>2, <3>3, <2>2, <1>2, <1>0 DEF TypeOK
  <2>. QED  BY <2>3, <2>4
<1>8. Balanced'
  <2>1. SUFFICES ASSUME NEW a \in Shards, NEW b \in Shards
                 PROVE  \E j \in Keys : nums'[a] <= nums'[b] + numel[j]
    BY <1>2 DEF Balanced
  <2>2. nums[s] <= nums[b] /\ numel[k] \in Nat /\ nums \in [Shards -> Nat]
    <3>1. numel[k] \in Nat
      BY <1>0, KeysFacts
    <3>2. nums \in [Shards -> Nat]
      BY <1>0 DEF TypeOK
    <3>3. nums[s] < nums[b] \/ (nums[s] = nums[b] /\ s <= b)
      BY <1>2 DEF IsArgMin
    <3>. QED  BY <3>1, <3>2, <3>3
  <2>3. CASE a = s
    <3>1. nums'[a] <= nums'[b] + numel[k]
      BY <2>2, <2>3, <1>2
    <3>. QED  BY <3>1
  <2>4. CASE a # s
    <3>1. PICK j \in Keys : nums[a] <= nums[b] + numel[j]
      BY <1>0 DEF Balanced
    <3>2. numel[j] \in Nat
      BY <1>0, KeysFacts
    <3>3. nums'[a] <= nums'[b] + numel[j]
      BY <2>2, <2>4, <3>1, <3>2, <1>2
    <3>. QED  BY <3>3
  <2>. QED  BY <2>3, <2>4
<1>. QED  BY <1>1, <1>6, <1>7, <1>8 DEF IInv

\* The end of the loop keeps the inductive invariant.
LEMMA QuietStep ==
  ASSUME IInv, Partitioned \/ UNCHANGED vars
  PROVE  IInv'
<1>1. numel' = numel /\ done' = done /\ nums' = nums /\ lists' = lists
      /\ psIdx' = psIdx /\ locIdx' = locIdx
  BY DEF Partitioned, vars
<1>2. Keys' = Keys
  BY <1>1 DEF Keys
<1>3. \A j \in Keys : Rank(j)' = Rank(j)
  BY <1>1 DEF Rank, SortedBefore, Keys
<1>4. TypeOK'
  BY <1>1, <1>2 DEF IInv, TypeOK
<1>5. SlotsAgree'
  BY <1>1, <1>2 DEF IInv, SlotsAgree
<1>6. PlacedRanks'
  BY <1>1, <1>2, <1>3 DEF IInv, PlacedRanks, Placed
<1>7. Balanced'
  BY <1>1, <1>2 DEF IInv, Balanced
<1>. QED  BY <1>4, <1>5, <1>6, <1>7 DEF IInv

\* The inductive invariant holds in every state of the loop.
THEOREM IInvHolds == Spec => []IInv
<1>1. Init => IInv
  BY InitIInv
<1>2. IInv /\ [Next]_vars => IInv'
  BY PlaceStep, QuietStep DEF Next
<1>. QED  BY <1>1, <1>2, PTL DEF Spec

(* Whatever the model, the partition's two indices and its lists agree: a   *)
(* worker that reads grad_lists[param_ps_idx[key]][param_loc_idx[key]] gets *)
(* the gradient of key, and no slot is orphaned.                            *)
THEOREM SlotsAgreeHolds == Spec => []SlotsAgree
BY IInvHolds, PTL DEF IInv

(* For every number of shards and every model, two shards' loads never     *)
(* differ by more than the numel of one parameter.                          *)
THEOREM BalancedHolds == Spec => []Balanced
BY IInvHolds, PTL DEF IInv
=============================================================================
