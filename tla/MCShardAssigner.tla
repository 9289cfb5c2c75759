-------------------------- MODULE MCShardAssigner --------------------------
(* ShardAssigner for TLC: every model of a few small parameters.            *)
EXTENDS ShardAssigner
=============================================================================
