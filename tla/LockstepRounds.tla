--------------------------- MODULE LockstepRounds ---------------------------
(***************************************************************************)
(* What synchronous data-parallel training promises, whichever way the     *)
(* gradients are combined (parameter servers in sync mode, or the ring     *)
(* all-reduce): every worker runs rounds 1, 2, ... of its loop, and it      *)
(* may finish round k -- apply the combined update of round k -- only once  *)
(* every worker has started round k, that is, has computed its own round-k *)
(* gradient.  A worker starts its next round only after finishing the      *)
(* current one.                                                            *)
(*                                                                         *)
(* ParamServer and RingAllReduce both instantiate this module with a       *)
(* refinement mapping and check that they implement it.                    *)
(***************************************************************************)
EXTENDS Naturals, TLAPS

CONSTANTS
  Procs,   \* the workers
  Iters    \* Iters[i]: the rounds worker i's loops run

VARIABLES
  started,   \* started[i]: the rounds worker i has begun
  finished   \* finished[i]: the rounds whose combined update i has applied

vars == <<started, finished>>

TypeOK ==
  /\ started \in [Procs -> Nat]
  /\ finished \in [Procs -> Nat]

Init ==
  /\ started = [i \in Procs |-> 0]
  /\ finished = [i \in Procs |-> 0]

\* Worker i computes the gradient of its next round.
Start(i) ==
  /\ finished[i] = started[i]
  /\ started[i] < Iters[i]
  /\ started' = [started EXCEPT ![i] = @ + 1]
  /\ UNCHANGED finished

\* Worker i applies the combined update of its current round.
Finish(i) ==
  /\ finished[i] < started[i]
  /\ \A j \in Procs : started[j] > finished[i]
  /\ finished' = [finished EXCEPT ![i] = @ + 1]
  /\ UNCHANGED started

Next == \E i \in Procs : Start(i) \/ Finish(i)

Spec == Init /\ [][Next]_vars

-----------------------------------------------------------------------------
(* No worker has applied a round that some worker has not begun, so no     *)
(* worker is ever more than one round ahead of another.                     *)
Lockstep == \A i, j \in Procs : finished[i] <= started[j]

\* A worker is in at most one round at a time.
OneRoundOpen == \A i \in Procs : finished[i] <= started[i] /\ started[i] <= finished[i] + 1

Inv == TypeOK /\ Lockstep /\ OneRoundOpen

(* Lockstep holds in every behaviour of the abstract specification, for    *)
(* any workers and any loop bounds.  ParamServerRoundProofs and             *)
(* RingAllReduceProofs carry it through their refinement mappings to the    *)
(* parameter-server and ring training loops.                                *)
LEMMA LockstepHolds == Spec => []Lockstep
<1>1. Init => Inv
  BY DEF Init, Inv, TypeOK, Lockstep, OneRoundOpen
<1>2. Inv /\ [Next]_vars => Inv'
  <2> SUFFICES ASSUME Inv, [Next]_vars PROVE Inv'
    OBVIOUS
  <2>1. ASSUME NEW i \in Procs, Start(i) PROVE Inv'
    BY <2>1 DEF Inv, TypeOK, Lockstep, OneRoundOpen, Start
  <2>2. ASSUME NEW i \in Procs, Finish(i) PROVE Inv'
    BY <2>2 DEF Inv, TypeOK, Lockstep, OneRoundOpen, Finish
  <2>3. CASE UNCHANGED vars
    BY <2>3 DEF Inv, TypeOK, Lockstep, OneRoundOpen, vars
  <2>4. QED
    BY <2>1, <2>2, <2>3 DEF Next
<1>3. Inv => Lockstep
  BY DEF Inv
<1>4. QED
  BY <1>1, <1>2, <1>3, PTL DEF Spec
=============================================================================
