---------------------------- MODULE MCShardLocks ----------------------------
(* Three shards with a key on each.                                        *)
EXTENDS ShardLocks
CONSTANTS a, b, c
MCShardOf == [k \in Keys |-> IF k = a THEN 0 ELSE IF k = b THEN 1 ELSE 2]
=============================================================================
