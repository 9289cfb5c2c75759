---------------------------- MODULE Coordinator ----------------------------
(***************************************************************************)
(* The launch sequence of main() in src/new_models/ps/training_sgd.py     *)
(* (Variant "ps") and src/new_models/all_reduce/training_sgd_allreduce.py  *)
(* (Variant "ring").  Every rank calls rpc.init_rpc, which returns only    *)
(* once all world_size ranks have registered.  The manager then creates    *)
(* the actors with rpc.remote (parameter servers, then workers, then the   *)
(* tester; each constructor runs later on its own rank), gives every       *)
(* parameter server and worker its references with a blocking rpc_sync,    *)
(* starts run_worker on every worker and test_model on the tester with     *)
(* rpc_async, and waits on all of those futures with torch.futures.wait_all, *)
(* which raises as soon as one of them fails.  The other ranks go straight *)
(* from init_rpc to rpc.shutdown(), where their RPC threads keep serving.  *)
(*                                                                         *)
(* The all-reduce main() is taken as called with the 13 arguments it      *)
(* declares; its __main__ (allreduce 776-790) passes 12, so as written      *)
(* every rank raises TypeError before init_rpc.                            *)
(*                                                                         *)
(* What a started run_worker does is modelled by ParamServer and           *)
(* RingAllReduce; here a task only fails when its first call on the tester *)
(* does, which is what the code makes happen.                              *)
(***************************************************************************)
EXTENDS FiniteSets

CONSTANTS
  Variant,   \* "ps" or "ring": which of the two main() functions
  Ps,        \* the parameter-server ranks ps0.. (empty for "ring")
  Wrk        \* the worker ranks worker0..

ASSUME CoordAssumption ==
  /\ Variant \in {"ps", "ring"}
  /\ Variant = "ring" => Ps = {}
  /\ Wrk # {}
  /\ "manager" \notin Ps \cup Wrk /\ "tester" \notin Ps \cup Wrk

Ranks == {"manager", "tester"} \cup Ps \cup Wrk

\* The objects the manager creates with rpc.remote, and the tasks it starts.
Actors == Ps \cup Wrk \cup {"tester"}
Tasks == Wrk \cup {"tester"}

(* The PS Tester's __init__ takes 12 parameters after self; main passes 15 *)
(* (training_sgd.py 494-509 against 850-871): the constructor raises.  It  *)
(* would raise at 527 too, where LoggerConstructor gets keywords it does   *)
(* not take.  The ring Tester's matches its call.                          *)
TesterCtorOk == Variant = "ring"

(* main of the ring calls set_ps_worker_rrefs_and_tester_rref on each      *)
(* worker (allreduce 732), but its Worker defines only                     *)
(* set_wrk_rrefs_and_tester_rref (allreduce 225).                          *)
HasSetRefs(a) == Variant = "ps" \/ a \notin Wrk

VARIABLES
  up,      \* the ranks that have called rpc.init_rpc
  mpc,     \* where the manager is in main()
  obj,     \* the state of each actor object rpc.remote asked for
  wired,   \* the actors whose set_..._rrefs call has returned
  task,    \* the futures of run_worker and test_model
  down     \* the ranks that are in rpc.shutdown()

vars == <<up, mpc, obj, wired, task, down>>

TypeOK ==
  /\ up \subseteq Ranks
  /\ mpc \in {"init", "create", "wire", "launch", "wait", "raised"}
  /\ obj \in [Actors -> {"none", "pending", "ok", "failed"}]
  /\ wired \subseteq Ps \cup Wrk
  /\ task \in [Tasks -> {"none", "running", "failed"}]
  /\ down \subseteq Ranks \ {"manager"}

-----------------------------------------------------------------------------
Init ==
  /\ up = {}
  /\ mpc = "init"
  /\ obj = [a \in Actors |-> "none"]
  /\ wired = {}
  /\ task = [t \in Tasks |-> "none"]
  /\ down = {}

\* Rank r calls rpc.init_rpc under its name.
Register(r) ==
  /\ r \notin up
  /\ up' = up \cup {r}
  /\ UNCHANGED <<mpc, obj, wired, task, down>>

\* The manager's init_rpc returns: every rank has registered.
Rendezvous ==
  /\ mpc = "init" /\ up = Ranks
  /\ mpc' = "create"
  /\ UNCHANGED <<up, obj, wired, task, down>>

(* rpc.remote(to=a, func=ParameterServer | Worker | Tester): the loops go   *)
(* over the parameter servers, then the workers, then the tester; the call  *)
(* returns an RRef at once.                                                 *)
Create(a) ==
  /\ mpc = "create" /\ obj[a] = "none"
  /\ a \in Wrk \cup {"tester"} => \A p \in Ps : obj[p] # "none"
  /\ a = "tester" => \A w \in Wrk : obj[w] # "none"
  /\ obj' = [obj EXCEPT ![a] = "pending"]
  /\ mpc' = IF a = "tester" THEN "wire" ELSE "create"
  /\ UNCHANGED <<up, wired, task, down>>

\* The constructor runs on a's rank.
Construct(a) ==
  /\ obj[a] = "pending"
  /\ obj' = [obj EXCEPT ![a] = IF a = "tester" /\ ~TesterCtorOk
                                 THEN "failed" ELSE "ok"]
  /\ UNCHANGED <<up, mpc, wired, task, down>>

\* Mutant: the called method is missing on the parameter servers too.
WireMissingMethod(a) ==
  /\ mpc = "wire" /\ a \in (Ps \cup Wrk) \ wired
  /\ a \in Wrk => Ps \subseteq wired
  /\ obj[a] = "ok"
  /\ mpc' = "raised"
  /\ UNCHANGED <<up, obj, wired, task, down>>

Wire(a) ==
  /\ mpc = "wire" /\ a \in (Ps \cup Wrk) \ wired
  /\ a \in Wrk => Ps \subseteq wired
  /\ obj[a] = "ok"
  /\ \/ /\ HasSetRefs(a)
        /\ wired' = wired \cup {a}
        /\ mpc' = IF wired' = Ps \cup Wrk THEN "launch" ELSE "wire"
     \/ /\ ~HasSetRefs(a)
        /\ mpc' = "raised"
        /\ UNCHANGED wired
  /\ UNCHANGED <<up, obj, task, down>>

(* rpc.rpc_async(to=t, func=Worker.run_worker | Tester.test_model): the    *)
(* workers' tasks, then the tester's.                                       *)
Launch(t) ==
  /\ mpc = "launch" /\ task[t] = "none"
  /\ t = "tester" => \A w \in Wrk : task[w] # "none"
  /\ task' = [task EXCEPT ![t] = "running"]
  /\ mpc' = IF t = "tester" THEN "wait" ELSE "launch"
  /\ UNCHANGED <<up, obj, wired, down>>

(* A task's first call on the tester object fails when its constructor     *)
(* did: run_worker's tester_rref.rpc_sync().get_stop_flag() after the first *)
(* iteration, and test_model's self.local_value().  rpc_sync on an RRef     *)
(* waits until the constructor has run.                                     *)
TaskFails(t) ==
  /\ task[t] = "running" /\ obj["tester"] = "failed"
  /\ task' = [task EXCEPT ![t] = "failed"]
  /\ UNCHANGED <<up, mpc, obj, wired, down>>

\* torch.futures.wait_all(futures) raises at the first failed future.
WaitAllRaises ==
  /\ mpc = "wait" /\ \E t \in Tasks : task[t] = "failed"
  /\ mpc' = "raised"
  /\ UNCHANGED <<up, obj, wired, task, down>>

\* Mutant: the manager's rank, too, is counted as being in rpc.shutdown().
ShutdownAny(r) ==
  /\ up = Ranks /\ r \notin down
  /\ down' = down \cup {r}
  /\ UNCHANGED <<up, mpc, obj, wired, task>>

\* Mutant: the tester's branch of the rank dispatch returns before rpc.shutdown().
ShutdownNoTester(r) ==
  /\ r \notin {"manager", "tester"} /\ up = Ranks /\ r \notin down
  /\ down' = down \cup {r}
  /\ UNCHANGED <<up, mpc, obj, wired, task>>

\* A rank other than the manager leaves init_rpc and calls rpc.shutdown().
Shutdown(r) ==
  /\ r # "manager" /\ up = Ranks /\ r \notin down
  /\ down' = down \cup {r}
  /\ UNCHANGED <<up, mpc, obj, wired, task>>

Next ==
  \/ \E r \in Ranks : Register(r) \/ Shutdown(r)
  \/ Rendezvous \/ WaitAllRaises
  \/ \E a \in Actors : Create(a) \/ Construct(a) \/ Wire(a)
  \/ \E t \in Tasks : Launch(t) \/ TaskFails(t)

(* Every rank runs its own process and the RPC threads serve every request *)
(* that can be served, so each step that is enabled is eventually taken.    *)
Spec == Init /\ [][Next]_vars /\ WF_vars(Next)

-----------------------------------------------------------------------------
(* main() never returns normally.  The manager ends by raising: out of    *)
(* the wiring loop in the all-reduce version, out of wait_all in the ps    *)
(* version once a task has tripped over the Tester that failed to be       *)
(* constructed.  It leaves without calling rpc.shutdown(), while every     *)
(* other rank has gone on from init_rpc into rpc.shutdown() and waits for  *)
(* it there.                                                               *)
EndsRaisedOthersInShutdown ==
  <>[](mpc = "raised" /\ down = Ranks \ {"manager"})

\* Training starts: every worker's run_worker is eventually launched.
RunsLaunched == <>(\A w \in Wrk : task[w] # "none")
=============================================================================
