\* Three workers, two iterations each, the "transformer" get_model path
\* (the model is copied through state_dict and never moved).
CONSTANTS
  N = 3
  Iters <- MCItersEqual
  TestWrk = 0
  MovesModel = FALSE
SPECIFICATION Spec
PROPERTIES AllWorkersFinish
CHECK_DEADLOCK FALSE
