\* main() of the all-reduce version: its wiring call names a method its
\* Worker does not have, so run_worker is never started.
CONSTANTS
  p1 = p1
  p2 = p2
  w1 = w1
  w2 = w2
  Variant = "ring"
  Ps = {}
  Wrk <- MCWrk
CHECK_DEADLOCK FALSE
SPECIFICATION Spec
PROPERTY RunsLaunched
