------------------------- MODULE CoordinatorProofs -------------------------
(***************************************************************************)
(* Type correctness of the launch sequence of main() (Coordinator) for    *)
(* every set of parameter servers and workers and both variants.           *)
(***************************************************************************)
EXTENDS Coordinator, TLAPS

(* Before any rank has called init_rpc the types hold.                   *)
LEMMA InitType == Init => TypeOK
BY DEF Init, TypeOK, Ranks

(* Every step of main() on any rank keeps them.                            *)
LEMMA NextType == TypeOK /\ [Next]_vars => TypeOK'
<1> SUFFICES ASSUME TypeOK, [Next]_vars PROVE TypeOK'
  OBVIOUS
<1> USE DEF TypeOK
<1>1. ASSUME NEW r \in Ranks, Register(r) PROVE TypeOK'
  BY <1>1 DEF Register
<1>2. ASSUME NEW r \in Ranks, Shutdown(r) PROVE TypeOK'
  BY <1>2 DEF Shutdown
<1>3. CASE Rendezvous
  BY <1>3 DEF Rendezvous
<1>4. CASE WaitAllRaises
  BY <1>4 DEF WaitAllRaises
<1>5. ASSUME NEW a \in Actors, Create(a) PROVE TypeOK'
  BY <1>5 DEF Create
<1>6. ASSUME NEW a \in Actors, Construct(a) PROVE TypeOK'
  BY <1>6 DEF Construct
<1>7. ASSUME NEW a \in Actors, Wire(a) PROVE TypeOK'
  BY <1>7 DEF Wire, Actors
<1>8. ASSUME NEW t \in Tasks, Launch(t) PROVE TypeOK'
  BY <1>8 DEF Launch
<1>9. ASSUME NEW t \in Tasks, TaskFails(t) PROVE TypeOK'
  BY <1>9 DEF TaskFails
<1>10. CASE UNCHANGED vars
  BY <1>10 DEF vars
<1>11. QED
  BY <1>1, <1>2, <1>3, <1>4, <1>5, <1>6, <1>7, <1>8, <1>9, <1>10 DEF Next

(* The manager's loops and the other ranks' init_rpc and rpc.shutdown()   *)
(* keep the launch state in its types for any ranks and both variants.    *)
THEOREM CoordTypeCorrect == Spec => []TypeOK
BY InitType, NextType, PTL DEF Spec
=============================================================================
