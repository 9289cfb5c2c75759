\* Synchronous mode as the code runs it (set_sync_mode is never called),
\* three workers, two shards, two iterations each.  The run ends when training
\* does (Finished); a stall before that violates AllWorkersFinish.
CONSTANTS
  w1 = w1
  w2 = w2
  w3 = w3
  s1 = s1
  s2 = s2
  Workers <- MCWorkers3
  Shards <- MCShards
  Iters <- MCItersEqual
  SwitchModes = {}
  TesterUp = TRUE
CHECK_DEADLOCK FALSE
SPECIFICATION Spec
INVARIANTS TypeOK ExactlyOnce WorkerSeesOwnStep
PROPERTIES SyncRoundComplete AllWorkersFinish ImplementsLockstep
