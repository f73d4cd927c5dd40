----------------------------- MODULE LogHandover -----------------------------
(***************************************************************************)
(* What the logs compactors promise their readers, all that a querier      *)
(* relies on when it lets the blocks take over from the WAL tail: a        *)
(* listed record stays listed, and the compaction-frontier object          *)
(* (crates/observability/src/compactor/frontier.rs) covers only listed     *)
(* records.  The object may go back: each put overwrites it whole.         *)
(* LogCompactors implements this specification, LogQuerier is built on it. *)
(***************************************************************************)
EXTENDS Integers

CONSTANTS
    Partitions,   \* partitions of the logs WAL topic
    MaxRecords    \* bound: records per partition

ASSUME MaxRecordsAssumption == MaxRecords \in Nat

VARIABLES
    end,      \* end[p]: offset of the last record appended to p
    listed,   \* records that a block of the log index holds
    stored    \* stored[p]: last offset the frontier object covers

handover == <<end, listed, stored>>

Offsets == 1..MaxRecords
Records == Partitions \X Offsets
Frontiers == [Partitions -> 0..MaxRecords]
Zero == [p \in Partitions |-> 0]

\* CompactionFrontier::is_compacted.
IsCompacted(frontier, r) == r[2] <= frontier[r[1]]

CoveredBy(frontier) == {r \in Records : IsCompacted(frontier, r)}

HandoverInit == end = Zero /\ listed = {} /\ stored = Zero

Produce(p) ==
    /\ end[p] < MaxRecords
    /\ end' = [end EXCEPT ![p] = @ + 1]
    /\ UNCHANGED <<listed, stored>>

\* compact_log_block_to_object_store_with_index_output.
List ==
    /\ listed' \in SUBSET Records /\ listed \subseteq listed'
    /\ UNCHANGED <<end, stored>>

\* write_compaction_frontier_to_object_store.
Put ==
    /\ stored' \in Frontiers /\ CoveredBy(stored') \subseteq listed
    /\ UNCHANGED <<end, listed>>

HandoverNext == (\E p \in Partitions : Produce(p)) \/ List \/ Put

HandoverSpec == HandoverInit /\ [][HandoverNext]_handover
=============================================================================
