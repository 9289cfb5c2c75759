\* Does step_num count aggregation rounds?  Synchronous mode, two workers.
CONSTANTS
  w1 = w1
  w2 = w2
  w3 = w3
  s1 = s1
  s2 = s2
  Workers <- MCWorkers2
  Shards <- MCShards
  Iters <- MCItersEqual
  SwitchModes = {}
  TesterUp = TRUE
SPECIFICATION Spec
INVARIANT StepNumCountsRounds
