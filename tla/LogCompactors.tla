---------------------------- MODULE LogCompactors ----------------------------
(***************************************************************************)
(* The logs compactors (crates/observability/src/compactor/{runtime,       *)
(* frontier,delete_materialization}.rs): members of one consumer group     *)
(* that accumulate polled WAL records, write one block per chunk, commit   *)
(* their group offsets and then put the compaction frontier.               *)
(*                                                                         *)
(* Abstractions.  A record is its partition and offset.  The log index is  *)
(* a set of blocks and one index update is one step: its shards are        *)
(* generation chains, whose landed updates stay (SnapshotChain).  A        *)
(* missing frontier object reads as one that covers nothing, which is what *)
(* both readers do with it; compacted_through_ns stays i64::MIN, as only   *)
(* partition offsets are ever advanced.  Rows under a delete request are   *)
(* dropped when a chunk is written and filtered again by every query;      *)
(* requests stay active.  Retention is left out.                           *)
(***************************************************************************)
EXTENDS Integers, Sequences, FiniteSets

CONSTANTS
    Compactors,      \* logs compactor processes, one consumer group
    Partitions,      \* partitions of the logs WAL topic
    Tenant,          \* Tenant[p][o]: the tenant of a record
    Deletable,       \* records a delete request may name
    MaxRecords,      \* bound: records per partition
    MaxGeneration,   \* bound: rebalances that are not forced by a crash
    MaxCrashes       \* bound: compactor crashes

Offsets == 1..MaxRecords
Records == Partitions \X Offsets

ASSUME BoundsAssumption == {MaxRecords, MaxGeneration, MaxCrashes} \subseteq Nat
ASSUME DeletableAssumption == Deletable \subseteq Records

VARIABLES
    end,          \* end[p]: offset of the last record appended to p
    committed,    \* committed[p]: last offset the group has committed
    owner,        \* owner[p]: the compactor the broker gave p to
    generation,   \* generation of the group
    crashes,      \* crashes so far
    deleting,     \* a delete request for Deletable is active
    index,        \* blocks the log index lists
    stored,       \* the compaction-frontier object
    pc,           \* "top", "poll", "write", "frontier" or "down"
    joined,       \* generation the compactor has applied
    assigned,     \* partitions the compactor holds
    position,     \* position[c][p]: last offset the compactor polled
    batch,        \* records polled and not yet committed, in poll order
    next,         \* place in the batch of the chunk to write next
    descriptors,  \* blocks of the batch the frontier is still to cover
    front,        \* front[c]: the compactor's SharedCompactionFrontier
    lapsed        \* history: partitions whose frontier a crash or a stale put left behind

compactor == <<pc, joined, assigned, position, batch, next, descriptors, front>>
broker == <<end, committed, owner, generation>>
vars == <<end, committed, owner, generation, crashes, deleting, index, stored, pc,
          joined, assigned, position, batch, next, descriptors, front, lapsed>>

None == [p \in Partitions |-> 0]

\* Fault: the frontier moves to the offset after the descriptor's last.
AdvancePast(frontier, d) ==
    [frontier EXCEPT ![d.part] = IF d.last >= @ THEN d.last + 1 ELSE @]

\* CompactionFrontier::advance_partition_offset.
Advance(frontier, d) ==
    [frontier EXCEPT ![d.part] = IF d.last > @ THEN d.last ELSE @]

RowsOf(blocks) == UNION {b.rows : b \in blocks}
Deleted == IF deleting THEN Deletable ELSE {}
-----------------------------------------------------------------------------
Init ==
    /\ end = None
    /\ committed = None
    /\ owner \in [Partitions -> Compactors]
    /\ generation = 1
    /\ crashes = 0
    /\ deleting = FALSE
    /\ index = {}
    /\ stored = None
    /\ pc = [c \in Compactors |-> "top"]
    /\ joined = [c \in Compactors |-> 1]
    /\ assigned = [c \in Compactors |-> {p \in Partitions : owner[p] = c}]
    /\ position = [c \in Compactors |-> None]
    /\ batch = [c \in Compactors |-> <<>>]
    /\ next = [c \in Compactors |-> 1]
    /\ descriptors = [c \in Compactors |-> <<>>]
    /\ front = [c \in Compactors |-> None]
    /\ lapsed = {}

Goto(c, label) == pc' = [pc EXCEPT ![c] = label]

(* The broker and the delete API. *)

Produce(p) ==
    /\ end[p] < MaxRecords
    /\ end' = [end EXCEPT ![p] = @ + 1]
    /\ UNCHANGED <<committed, owner, generation, crashes, deleting, index, stored,
                   compactor, lapsed>>

\* An eager rebalance, wanted by the group or forced by a dead owner.
Rebalance ==
    /\ \A c \in Compactors : pc[c] \in {"top", "poll"} => joined[c] = generation
    /\ generation < MaxGeneration \/ \E p \in Partitions : pc[owner[p]] = "down"
    /\ owner' \in [Partitions -> {c \in Compactors : pc[c] # "down"}]
    /\ generation' = generation + 1
    /\ UNCHANGED <<end, committed, crashes, deleting, index, stored, compactor,
                   lapsed>>

DeleteRequest ==
    /\ ~deleting /\ Deletable # {}
    /\ deleting' = TRUE
    /\ UNCHANGED <<broker, crashes, index, stored, compactor, lapsed>>
-----------------------------------------------------------------------------
(* run_compactor_until_shutdown. *)

\* Fault: a block that holds a deleted row leaves the index as a whole.
MaterializedWhole == {b \in index : b.rows \cap Deleted = {}}

\* A block rewritten without the rows an active request names.
Cut(b) == [b EXCEPT !.rows = @ \ Deleted]

\* materialize_log_deletes_before_compaction: every block is cut, emptied ones
\* leave the index.  The code reads, rewrites and updates one index shard after
\* the other and deletes emptied objects last; one step stands for all of it, as
\* a row that goes at any of these points is one a delete request names and a
\* key fixes the other rows of its block.
Materialized == {b \in {Cut(a) : a \in index} : b.rows # {}}

Top(c) ==
    /\ pc[c] = "top"
    /\ index' = Materialized
    /\ Goto(c, IF batch[c] = <<>> THEN "poll" ELSE "write")
    /\ UNCHANGED <<broker, crashes, deleting, stored, joined, assigned, position,
                   batch, next, descriptors, front, lapsed>>

Rejoins(c) == joined[c] # generation
Mine(c) == IF Rejoins(c) THEN {p \in Partitions : owner[p] = c} ELSE assigned[c]

\* Fault: a compactor that rejoins goes on where it stopped polling.
ResumeAtPosition(c, p) == position[c][p]

\* rewinding_fenced_partitions: a rejoined partition resumes at its commit.
Resume(c, p) == IF Rejoins(c) THEN committed[p] ELSE position[c][p]

\* The accumulated records without those of revoked partitions: an eager
\* rebalance revokes all that c holds, and its records are from nowhere else.
Kept(c) == IF Rejoins(c) THEN <<>> ELSE batch[c]

\* One poll of poll_accumulated_log_compaction_records: it applies a pending
\* rebalance and returns the next records of a partition, or none.
Poll(c) ==
    /\ pc[c] = "poll"
    /\ \E p \in Partitions, n \in 0..MaxRecords :
        LET from == Resume(c, p) IN
        /\ n > 0 => p \in Mine(c) /\ from + n <= end[p]
        /\ n > 0 \/ Rejoins(c)
        /\ position' = [position EXCEPT ![c] =
               [q \in Partitions |-> Resume(c, q) + (IF q = p THEN n ELSE 0)]]
        /\ batch' = [batch EXCEPT ![c] = Kept(c) \o [i \in 1..n |-> <<p, from + i>>]]
    /\ assigned' = [assigned EXCEPT ![c] = Mine(c)]
    /\ joined' = [joined EXCEPT ![c] = generation]
    /\ UNCHANGED <<broker, crashes, deleting, index, stored, pc, next, descriptors,
                   front, lapsed>>

\* The accumulation window closes; an empty batch is no pass.
StartCompaction(c) ==
    /\ pc[c] = "poll"
    /\ Goto(c, IF batch[c] = <<>> THEN "top" ELSE "write")
    /\ UNCHANGED <<broker, crashes, deleting, index, stored, joined, assigned,
                   position, batch, next, descriptors, front, lapsed>>

\* wal_compaction_chunks: neighbours of one tenant and one partition.
SameChunk(a, b) == a[1] = b[1] /\ Tenant[a[1]][a[2]] = Tenant[b[1]][b[2]]
ChunkEnd(b, k) ==
    CHOOSE j \in k..Len(b) :
        /\ \A i \in k..j : SameChunk(b[k], b[i])
        /\ j = Len(b) \/ ~SameChunk(b[k], b[j + 1])

\* The block of one chunk: its key spans the chunk, its rows are what no active
\* delete request names.
Block(b, k) ==
    LET chunk == {b[i] : i \in k..ChunkEnd(b, k)}
        offsets == {r[2] : r \in chunk}
    IN [part |-> b[k][1],
        first |-> CHOOSE o \in offsets : \A other \in offsets : o <= other,
        last |-> CHOOSE o \in offsets : \A other \in offsets : o >= other,
        rows |-> chunk \ Deleted]

\* A block put under an existing key replaces the object.  The index keeps the
\* descriptor it has for the key (apply_block_index_delta inserts only keys it
\* does not list), which from then on stands for the rows of the new object.
Listed(block) ==
    {b \in index : <<b.part, b.first, b.last>> # <<block.part, block.first, block.last>>}
        \cup {block}

WriteChunk(c) ==
    LET block == Block(batch[c], next[c]) IN
    /\ pc[c] = "write" /\ next[c] <= Len(batch[c])
    /\ \/ /\ block.rows = {}
          /\ UNCHANGED <<index, descriptors>>
       \/ /\ block.rows # {}
          /\ index' = Listed(block)
          /\ descriptors' = [descriptors EXCEPT ![c] =
                 Append(@, [part |-> block.part, last |-> block.last])]
    /\ next' = [next EXCEPT ![c] = ChunkEnd(batch[c], @) + 1]
    /\ UNCHANGED <<broker, crashes, deleting, stored, pc, joined, assigned,
                   position, batch, front, lapsed>>

\* An object-store error, before or after the index update landed: the whole
\* batch is pending again.
ChunkFails(c) ==
    LET block == Block(batch[c], next[c]) IN
    /\ pc[c] = "write" /\ next[c] <= Len(batch[c]) /\ block.rows # {}
    /\ index' \in {index, Listed(block)}
    /\ next' = [next EXCEPT ![c] = 1]
    /\ descriptors' = [descriptors EXCEPT ![c] = <<>>]
    /\ Goto(c, "top")
    /\ UNCHANGED <<broker, crashes, deleting, stored, joined, assigned,
                   position, batch, front, lapsed>>

\* The frontier still owes these partitions a put: their offsets are committed.
Owed(c) ==
    IF pc[c] = "frontier" \/ next[c] > Len(batch[c]) + 1
    THEN {descriptors[c][i].part : i \in DOMAIN descriptors[c]}
    ELSE {}

\* commit_compacted, once for each partition of the batch.  Every call commits
\* all polled positions of the assignment.
Committed(c) ==
    [p \in Partitions |-> IF p \in assigned[c] THEN position[c][p] ELSE committed[p]]
LastCommit(c) ==
    next[c] = Len(batch[c]) + Cardinality({batch[c][i][1] : i \in DOMAIN batch[c]})

Commit(c) ==
    /\ pc[c] = "write" /\ next[c] > Len(batch[c])
    /\ joined[c] = generation
    /\ committed' = Committed(c)
    /\ \/ /\ ~LastCommit(c)
          /\ next' = [next EXCEPT ![c] = @ + 1]
          /\ UNCHANGED <<pc, batch>>
       \/ /\ LastCommit(c)
          /\ next' = [next EXCEPT ![c] = 1]
          /\ batch' = [batch EXCEPT ![c] = <<>>]
          /\ Goto(c, IF descriptors[c] = <<>> THEN "top" ELSE "frontier")
    /\ UNCHANGED <<end, owner, generation, crashes, deleting, index, stored, joined,
                   assigned, position, descriptors, front, lapsed>>

\* The broker refuses an overtaken generation, which ends the role.
CommitRefused(c) ==
    /\ pc[c] = "write" /\ next[c] > Len(batch[c])
    /\ joined[c] # generation
    /\ Goto(c, "down")
    /\ lapsed' = lapsed \cup Owed(c)
    /\ UNCHANGED <<broker, crashes, deleting, index, stored, joined, assigned,
                   position, batch, next, descriptors, front>>

\* Fault: one put stands for all descriptors of the batch.
PersistedAll(c) == <<>>

Persisted(c) == Tail(descriptors[c])

\* advance_and_persist_compaction_frontier for the next descriptor: the whole
\* in-memory frontier overwrites the object.  A put that failed, landed or not, is
\* tried again.
PersistFrontier(c) ==
    LET d == Head(descriptors[c])
        now == Advance(front[c], d)
    IN
    /\ pc[c] = "frontier"
    /\ front' = [front EXCEPT ![c] = now]
    /\ stored' \in {stored, now}
    /\ lapsed' = {p \in Partitions :
           /\ p \in lapsed \/ stored'[p] < stored[p]
           /\ stored'[p] < committed[p]}
    /\ \/ UNCHANGED <<descriptors, pc>>
       \/ /\ stored' = now
          /\ descriptors' = [descriptors EXCEPT ![c] = Persisted(c)]
          /\ Goto(c, IF Persisted(c) = <<>> THEN "top" ELSE "frontier")
    /\ UNCHANGED <<broker, crashes, deleting, index, joined, assigned, position,
                   batch, next>>

Crash(c) ==
    /\ pc[c] # "down" /\ crashes < MaxCrashes
    /\ crashes' = crashes + 1
    /\ Goto(c, "down")
    /\ lapsed' = lapsed \cup Owed(c)
    /\ UNCHANGED <<broker, deleting, index, stored, joined, assigned, position,
                   batch, next, descriptors, front>>

\* prepare_compactor_wal_inputs: the stored frontier is the one to start from.
Restart(c) ==
    /\ pc[c] = "down"
    /\ Goto(c, "top")
    /\ joined' = [joined EXCEPT ![c] = 0]
    /\ assigned' = [assigned EXCEPT ![c] = {}]
    /\ position' = [position EXCEPT ![c] = None]
    /\ batch' = [batch EXCEPT ![c] = <<>>]
    /\ next' = [next EXCEPT ![c] = 1]
    /\ descriptors' = [descriptors EXCEPT ![c] = <<>>]
    /\ front' = [front EXCEPT ![c] = stored]
    /\ UNCHANGED <<broker, crashes, deleting, index, stored, lapsed>>
-----------------------------------------------------------------------------
CompactorStep(c) ==
    \/ Top(c) \/ Poll(c) \/ StartCompaction(c) \/ WriteChunk(c) \/ ChunkFails(c)
    \/ Commit(c) \/ CommitRefused(c) \/ PersistFrontier(c)
    \/ Crash(c) \/ Restart(c)

Next ==
    \/ \E p \in Partitions : Produce(p)
    \/ Rebalance \/ DeleteRequest
    \/ \E c \in Compactors : CompactorStep(c)

Spec == Init /\ [][Next]_vars
-----------------------------------------------------------------------------
Frontiers == [Partitions -> 0..MaxRecords]
Blocks == [part : Partitions, first : Offsets, last : Offsets, rows : SUBSET Records]

\* Every variable keeps its type.
TypeOK ==
    /\ {end, committed, stored} \subseteq Frontiers
    /\ owner \in [Partitions -> Compactors]
    /\ index \subseteq Blocks /\ lapsed \subseteq Partitions
    /\ pc \in [Compactors -> {"top", "poll", "write", "frontier", "down"}]
    /\ {position, front} \subseteq [Compactors -> Frontiers]
    /\ \A c \in Compactors : {batch[c][i] : i \in DOMAIN batch[c]} \subseteq Records

\* A record is safe to leave the WAL tail: a listed block holds it, or an active
\* delete request names it.
Safe == RowsOf(index) \cup Deleted

\* Nothing a compactor has committed, or counted in a frontier it holds or put,
\* is missing from the listed blocks: commit_compacted and
\* advance_and_persist_compaction_frontier come after the index updates of all
\* chunks, through retries, rebalances and stale compactors.
CompactedMeansListed ==
    \A p \in Partitions, o \in Offsets :
        \/ o <= committed[p] \/ o <= stored[p]
        \/ \E c \in Compactors : o <= front[c][p]
        => <<p, o>> \in Safe

\* A record that is committed and listed but not covered by the frontier object
\* (so that it is served from a block and from the tail) is on its way: a live
\* compactor still has to put the frontier for it, unless a crash before the
\* put or the put of a stale frontier left its partition behind.
LagIsExplained ==
    \A s \in RowsOf(index) \ Deleted :
        \/ s[2] > committed[s[1]] \/ s[2] <= stored[s[1]] \/ s[1] \in lapsed
        \/ \E c \in Compactors : s[1] \in Owed(c) /\ pc[c] # "down" /\
              \E i \in DOMAIN descriptors[c] :
                  descriptors[c][i].part = s[1] /\ descriptors[c][i].last >= s[2]

Handover == INSTANCE LogHandover WITH listed <- Safe

\* The compactors keep the promise queriers rely on: listed records stay listed
\* and the frontier object covers listed records only.
ImplementsHandover == Handover!HandoverSpec
=============================================================================
