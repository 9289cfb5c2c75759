--------------------------- MODULE MCParamServer ---------------------------
(* Small instances of ParamServer for TLC. *)
EXTENDS ParamServer, DataSplit, TLC

CONSTANTS w1, w2, w3, s1, s2

\* Two or three workers, two shards.
MCWorkers2 == {w1, w2}
MCWorkers3 == {w1, w2, w3}
MCShards == {s1, s2}

\* Every worker runs the same number of iterations: with data_partitioned = 0
\* each worker's loader covers the whole training set.
MCItersEqual == [w \in Workers |-> 2]

\* The workers' ids, the order of worker_rrefs and of len_list.
MCWorkerId == (w1 :> 0) @@ (w2 :> 1) @@ (w3 :> 2)

\* The bert/gpt path of main() (training_sgd.py:777-784) with a training set
\* of 6 samples, two workers, batch_size=2, drop_last=True and one epoch:
\* len_list = [4, 2], so worker 0 runs 2 iterations and worker 1 runs 1.
MCItersShort ==
  [w \in Workers |-> LoaderIters(1, 6, Cardinality(Workers), MCWorkerId[w], 2, TRUE)]


=============================================================================
