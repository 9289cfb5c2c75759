\* Synchronous mode when one worker's data partition yields one batch fewer.
CONSTANTS
  w1 = w1
  w2 = w2
  w3 = w3
  s1 = s1
  s2 = s2
  Workers <- MCWorkers2
  Shards <- MCShards
  Iters <- MCItersShort
  SwitchModes = {}
  TesterUp = TRUE
CHECK_DEADLOCK FALSE
SPECIFICATION Spec
PROPERTY AllWorkersFinish
