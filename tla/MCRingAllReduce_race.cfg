\* Three workers, two iterations each; the tester's get_model moves the
\* model of worker 0 while its forward pass may be running.
CONSTANTS
  N = 3
  Iters <- MCItersEqual
  TestWrk = 0
  MovesModel = TRUE
SPECIFICATION Spec
PROPERTIES AllWorkersFinish
CHECK_DEADLOCK FALSE
