-------------------------- MODULE MCShardPayloads --------------------------
(* Small instances of ShardPayloads for TLC.                               *)
EXTENDS ShardPayloads, TLC

Symmetric == Permutations(Writers) \cup Permutations(Slots) \cup Permutations(Contents)
=============================================================================
