\* set_sync_mode called at any time with 0 or 1 (the spec's runtime-switchable
\* sync/async mode), two workers, two shards, two iterations each.  Safety
\* only: a switch back to sync mode can stall the round (see README).
CONSTANTS
  w1 = w1
  w2 = w2
  w3 = w3
  s1 = s1
  s2 = s2
  Workers <- MCWorkers2
  Shards <- MCShards
  Iters <- MCItersEqual
  SwitchModes = {0, 1}
  TesterUp = TRUE
SPECIFICATION Spec
INVARIANTS ExactlyOnce WorkerSeesOwnStep
PROPERTIES SyncRoundComplete
