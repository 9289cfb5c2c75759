--------------------------- MODULE MCRingAllReduce ---------------------------
(* Small instances of RingAllReduce for TLC.                                 *)
EXTENDS RingAllReduce

\* Every worker runs the same number of iterations (CIFAR-10 loaders).
MCItersEqual == [i \in 0..N-1 |-> 2]

=============================================================================
