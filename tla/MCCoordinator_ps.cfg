\* main() of the ps version: two parameter servers, two workers, a tester.
\* The job stops when every rank is stuck (manager raised, the rest in
\* rpc.shutdown), so deadlock is not an error.
CONSTANTS
  p1 = p1
  p2 = p2
  w1 = w1
  w2 = w2
  Variant = "ps"
  Ps <- MCPs
  Wrk <- MCWrk
CHECK_DEADLOCK FALSE
SPECIFICATION Spec
INVARIANT TypeOK
PROPERTIES RunsLaunched EndsRaisedOthersInShutdown
