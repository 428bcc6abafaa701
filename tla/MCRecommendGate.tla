-------------------------- MODULE MCRecommendGate --------------------------
(* Small instances of RecommendGate for TLC. *)
EXTENDS RecommendGate

CONSTANTS i1, i2, t1, t2

\* One shard: two items compete for its slots.
MCShardFor == [id \in Items |-> 0]

MCTimes == 0 .. MaxTime
=============================================================================
