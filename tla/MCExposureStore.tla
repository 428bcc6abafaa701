-------------------------- MODULE MCExposureStore --------------------------
(* Small instances of ExposureStore for TLC. *)
EXTENDS ExposureStore

CONSTANTS i1, i2, i3

\* i1 and i2 share shard 0; with one shard everything does.
MCShardFor == [id \in Items |-> IF id = i3 THEN NumShards - 1 ELSE 0]

\* With a window of 2: both halves of window 0, its successor, and a window
\* that skips one.  Calls may carry these in any order.
MCTimes == {0, 1, 2, 5}

\* The ids of one shard are interchangeable.
TwoShardSymmetry == Permutations({i1, i2})

OneShardSymmetry == Permutations({i1, i2, i3})
=============================================================================
