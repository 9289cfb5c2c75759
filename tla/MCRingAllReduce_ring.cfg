\* Three workers, two iterations each; the tester's get_model moves the
\* model of worker 0 (every model but "transformer").
CONSTANTS
  N = 3
  Iters <- MCItersEqual
  TestWrk = 0
  MovesModel = TRUE
SPECIFICATION Spec
INVARIANTS TypeOK HandOffInOrder AllReduceCorrect QueueBound
PROPERTIES ImplementsLockstep
CHECK_DEADLOCK FALSE
