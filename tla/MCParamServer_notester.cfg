\* The code as written: the tester actor's constructor call fails, so
\* get_stop_flag raises in every worker.
CONSTANTS
  w1 = w1
  w2 = w2
  w3 = w3
  s1 = s1
  s2 = s2
  Workers <- MCWorkers2
  Shards <- MCShards
  Iters <- MCItersEqual
  SwitchModes = {}
  TesterUp = FALSE
SPECIFICATION Spec
PROPERTY AllWorkersFinish
