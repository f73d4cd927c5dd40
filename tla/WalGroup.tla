------------------------------ MODULE WalGroup ------------------------------
(***************************************************************************)
(* A consumer group of block builders over the partitions of one WAL topic *)
(* (crates/traces/src/blockbuilder/{run,flush,wal_consumer}.rs) with the   *)
(* listener that fences and rewinds revoked partitions and the watch that  *)
(* holds the catch-up readiness gate                                       *)
(* (crates/observability/src/wal_group_assignment).                        *)
(*                                                                         *)
(* The group rebalances eagerly: a rebalance revokes every partition and   *)
(* assigns them again, and each member learns of it inside its next poll.  *)
(* A member that is busy writing is not waited for; its commit then        *)
(* carries an old generation, is refused and ends the process.             *)
(*                                                                         *)
(* Abstractions.  A record is its offset.  A flush publishes all the       *)
(* windows it took in one step, as one index save does, and published      *)
(* records stay published (TracePipeline has what happens to them later).  *)
(* An assignment with no partition is not at the log end.                  *)
(***************************************************************************)
EXTENDS Integers, Sequences, Functions

CONSTANTS
    Members,         \* block builder processes
    Partitions,      \* partitions of the WAL topic
    MaxRecords,      \* bound: records per partition
    MaxGeneration,   \* bound: rebalances that are not forced by a crash
    MaxCrashes       \* bound: member crashes

ASSUME BoundsAssumption == {MaxRecords, MaxGeneration, MaxCrashes} \subseteq Nat

VARIABLES
    end,         \* end[p]: records appended to p
    committed,   \* committed[p]: the group's committed offset
    published,   \* published[p]: offsets in durable, indexed blocks
    owner,       \* owner[p]: the member the broker gave p to
    generation,  \* generation of the group
    crashes,     \* crashes so far
    pc,          \* "poll", "write", "commit" or "down"
    joined,      \* generation the member has applied
    assigned,    \* partitions the member holds
    position,    \* position[m][p]: next offset the member fetches
    buffer,      \* buffer[m][p]: offsets in the member's accumulator
    gate,        \* the wal-catch-up gate is ready
    unapplied,   \* "none", "held" or "fenced"
    caughtUp,    \* caught_up_after_apply
    goal,        \* history: goal[m][p], end of p when the gate last closed
    rewound      \* history: a rewind left caught_up_after_apply standing

broker == <<end, committed, published, owner, generation, crashes>>
watch == <<gate, unapplied, caughtUp, goal, rewound>>
reader == <<joined, assigned, position, buffer>>
vars == <<end, committed, published, owner, generation, crashes, pc, joined,
          assigned, position, buffer, gate, unapplied, caughtUp, goal, rewound>>

Offsets == 0..(MaxRecords - 1)
Nothing == [p \in Partitions |-> <<>>]
Zero == [p \in Partitions |-> 0]
-----------------------------------------------------------------------------
Init ==
    /\ end = Zero
    /\ committed = Zero
    /\ published = [p \in Partitions |-> {}]
    /\ owner \in [Partitions -> Members]
    /\ generation = 1
    /\ crashes = 0
    /\ pc = [m \in Members |-> "poll"]
    /\ joined = [m \in Members |-> 0]
    /\ assigned = [m \in Members |-> {}]
    /\ position = [m \in Members |-> Zero]
    /\ buffer = [m \in Members |-> Nothing]
    /\ gate = [m \in Members |-> FALSE]
    /\ unapplied = [m \in Members |-> "none"]
    /\ caughtUp = [m \in Members |-> FALSE]
    /\ goal = [m \in Members |-> Zero]
    /\ rewound = [m \in Members |-> FALSE]

Goto(m, label) == pc' = [pc EXCEPT ![m] = label]

(* The broker. *)

Produce(p) ==
    /\ end[p] < MaxRecords
    /\ end' = [end EXCEPT ![p] = @ + 1]
    /\ UNCHANGED <<committed, published, owner, generation, crashes, pc, reader,
                   watch>>

\* A new generation, wanted by the group or forced by a dead owner.  Members
\* between polls take part; members that write are overtaken.
Rebalance ==
    /\ \A m \in Members : pc[m] = "poll" => joined[m] = generation
    /\ generation < MaxGeneration \/ \E p \in Partitions : pc[owner[p]] = "down"
    /\ \E given \in [Partitions -> {m \in Members : pc[m] # "down"}] : owner' = given
    /\ generation' = generation + 1
    /\ UNCHANGED <<end, committed, published, crashes, pc, reader, watch>>
-----------------------------------------------------------------------------
(* One turn of the loop: poll, observe the assignment, fence, merge. *)

Rejoins(m) == joined[m] # generation
Mine(m) == IF Rejoins(m) THEN {p \in Partitions : owner[p] = m} ELSE assigned[m]

\* Fault: the client's own position of a partition that comes back is kept.
ResumeAtPosition(m, p) ==
    IF p \in assigned[m] THEN position[m][p] ELSE committed[p]

\* WalRebalanceListener::rewind_to_committed for a partition that comes back;
\* the committed offset is also where the client starts a new one.
Resume(m, p) == IF Rejoins(m) THEN committed[p] ELSE position[m][p]

\* Fault: a rebalance leaves the accumulator alone.
KeptUnfenced(m, p) == buffer[m][p]

\* FlushAccumulator::remove_partitions of the revoked ones.
Kept(m, p) == IF Rejoins(m) /\ p \in assigned[m] THEN <<>> ELSE buffer[m][p]

\* Fault: no fenced record is ever settled by asking the broker.
SettledNever(m, owed, hasRecords) == FALSE

\* may_settle_fenced_records and group_committed: an empty poll of a member
\* whose held records were fenced, and the group has committed its log ends.
Settled(m, owed, hasRecords) ==
    /\ ~hasRecords /\ owed = "fenced"
    /\ Mine(m) # {} /\ \A p \in Mine(m) : committed[p] >= end[p]

\* Fault: reaching the log end is enough.
NothingOwedEver(left) == TRUE

\* record_recovery opens the gate only when every polled record was applied.
NothingOwed(left) == left = "none"

\* WalAssignmentWatch::observe and observe_consumer, after a poll that left the
\* positions at pos and did or did not return records.
Observe(m, pos, hasRecords) ==
    LET mine == Mine(m)
        changed == mine # assigned[m]
        atEnd == mine # {} /\ \A p \in mine : pos[p] >= end[p]
        wasReady == gate[m] /\ ~changed
        owed == IF unapplied[m] = "held" /\ ~(assigned[m] \subseteq mine)
                THEN "fenced" ELSE unapplied[m]
        settled == ~wasReady /\ Settled(m, owed, hasRecords)
        left == CASE hasRecords -> "held" [] settled -> "none" [] OTHER -> owed
        pending == (caughtUp[m] /\ ~changed) \/ (atEnd /\ (hasRecords \/ owed # "none"))
    IN  /\ unapplied' = [unapplied EXCEPT ![m] = left]
        /\ caughtUp' = [caughtUp EXCEPT ![m] = pending]
        /\ gate' = [gate EXCEPT ![m] =
              wasReady \/ ((atEnd \/ settled) /\ NothingOwed(left))]
        /\ goal' = [goal EXCEPT ![m] = IF changed THEN end ELSE @]
        /\ rewound' = [rewound EXCEPT ![m] =
              IF changed THEN FALSE ELSE @ \/ (Rejoins(m) /\ caughtUp[m])]

\* A poll applies a pending rebalance and returns any run of new records of
\* the partitions it ends up with.
Poll(m) ==
    /\ pc[m] = "poll"
    /\ \E pos \in [Partitions -> 0..MaxRecords] :
          /\ \A p \in Partitions :
                IF p \in Mine(m) THEN pos[p] \in Resume(m, p)..end[p] ELSE pos[p] = 0
          /\ position' = [position EXCEPT ![m] = pos]
          /\ buffer' = [buffer EXCEPT ![m] = [p \in Partitions |->
                IF p \in Mine(m)
                THEN Kept(m, p) \o [i \in 1..(pos[p] - Resume(m, p)) |-> Resume(m, p) + i - 1]
                ELSE Kept(m, p)]]
          /\ Observe(m, pos, \E p \in Mine(m) : pos[p] > Resume(m, p))
    /\ assigned' = [assigned EXCEPT ![m] = Mine(m)]
    /\ joined' = [joined EXCEPT ![m] = generation]
    /\ UNCHANGED <<broker, pc>>

\* Fault: a lone record waits for a second one.
TakeWindowsWhenFull(m) ==
    /\ pc[m] = "poll"
    /\ \E p \in Partitions : Len(buffer[m][p]) >= 2
    /\ Goto(m, "write")
    /\ UNCHANGED <<broker, reader, watch>>

\* should_flush: the accumulator is drained.
TakeWindows(m) ==
    /\ pc[m] = "poll"
    /\ buffer[m] # Nothing
    /\ Goto(m, "write")
    /\ UNCHANGED <<broker, reader, watch>>

\* Blocks are written and the index saved.
FlushWindows(m) ==
    /\ pc[m] = "write"
    /\ published' = [p \in Partitions |-> published[p] \cup Range(buffer[m][p])]
    /\ buffer' = [buffer EXCEPT ![m] = Nothing]
    /\ Goto(m, "commit")
    /\ UNCHANGED <<end, committed, owner, generation, crashes, joined, assigned,
                   position, watch>>

\* observe_applied, after a commit.
Applied(m) ==
    LET atEnd == assigned[m] # {} /\ \A p \in assigned[m] : position[m][p] >= end[p] IN
    /\ unapplied' = [unapplied EXCEPT ![m] = "none"]
    /\ caughtUp' = [caughtUp EXCEPT ![m] = FALSE]
    /\ gate' = [gate EXCEPT ![m] = @ \/ atEnd \/ caughtUp[m]]
    /\ UNCHANGED <<goal, rewound>>

\* Fault: a member of an older generation may still commit.
FencedNever(m) == FALSE

\* The broker refuses a commit of an older generation.
Fenced(m) == joined[m] # generation

\* Fault: the committed offset is one past the next one to read.
CommitSyncPastPosition(m) ==
    /\ pc[m] = "commit"
    /\ ~Fenced(m)
    /\ committed' = [p \in Partitions |->
          IF p \in assigned[m] THEN position[m][p] + 1 ELSE committed[p]]
    /\ Goto(m, "poll")
    /\ Applied(m)
    /\ UNCHANGED <<end, published, owner, generation, crashes, reader>>

\* commit_sync commits the position of every assigned partition.
CommitSync(m) ==
    /\ pc[m] = "commit"
    /\ ~Fenced(m)
    /\ committed' = [p \in Partitions |->
          IF p \in assigned[m] THEN position[m][p] ELSE committed[p]]
    /\ Goto(m, "poll")
    /\ Applied(m)
    /\ UNCHANGED <<end, published, owner, generation, crashes, reader>>

\* The process ends and takes its memory with it.
Stop(m) ==
    /\ Goto(m, "down")
    /\ joined' = [joined EXCEPT ![m] = 0]
    /\ assigned' = [assigned EXCEPT ![m] = {}]
    /\ position' = [position EXCEPT ![m] = Zero]
    /\ buffer' = [buffer EXCEPT ![m] = Nothing]
    /\ gate' = [gate EXCEPT ![m] = FALSE]
    /\ unapplied' = [unapplied EXCEPT ![m] = "none"]
    /\ caughtUp' = [caughtUp EXCEPT ![m] = FALSE]
    /\ goal' = [goal EXCEPT ![m] = Zero]
    /\ rewound' = [rewound EXCEPT ![m] = FALSE]

\* A refused commit is an error, and an error ends the role.
CommitRefused(m) ==
    /\ pc[m] = "commit"
    /\ Fenced(m)
    /\ Stop(m)
    /\ UNCHANGED broker

Crash(m) ==
    /\ pc[m] # "down"
    /\ crashes < MaxCrashes
    /\ crashes' = crashes + 1
    /\ Stop(m)
    /\ UNCHANGED <<end, committed, published, owner, generation>>

\* A restarted member joins.  It finds what the group still has it down for;
\* the next rebalance may give it more.
Restart(m) ==
    /\ pc[m] = "down"
    /\ Goto(m, "poll")
    /\ UNCHANGED <<broker, reader, watch>>
-----------------------------------------------------------------------------
MemberStep(m) ==
    \/ Poll(m) \/ TakeWindows(m) \/ FlushWindows(m) \/ CommitSync(m)
    \/ CommitRefused(m) \/ Restart(m)

Next ==
    \/ \E p \in Partitions : Produce(p)
    \/ Rebalance
    \/ \E m \in Members : MemberStep(m) \/ Crash(m)

Spec == Init /\ [][Next]_vars

\* Every member's loop runs for ever and a role that exits is started again.
\* Nothing is assumed of rebalances.
FairSpec == Spec /\ \A m \in Members : WF_vars(MemberStep(m))
-----------------------------------------------------------------------------
\* Every variable keeps its type.
TypeOK ==
    /\ end \in [Partitions -> 0..MaxRecords]
    /\ \A p \in Partitions : committed[p] \in 0..end[p]
    /\ published \in [Partitions -> SUBSET Offsets]
    /\ owner \in [Partitions -> Members]
    /\ generation \in Nat /\ crashes \in 0..MaxCrashes
    /\ pc \in [Members -> {"poll", "write", "commit", "down"}]
    /\ joined \in [Members -> 0..generation]
    /\ assigned \in [Members -> SUBSET Partitions]
    /\ \A m \in Members, p \in Partitions :
          /\ position[m][p] \in 0..end[p]
          /\ Range(buffer[m][p]) \subseteq Offsets
          /\ goal[m][p] \in 0..end[p]
    /\ gate \in [Members -> BOOLEAN] /\ caughtUp \in [Members -> BOOLEAN]
    /\ unapplied \in [Members -> {"none", "held", "fenced"}]

\* A record below the committed offset is in a published block, whatever
\* rebalances, refused commits and crashes came before: the fenced buffer of a
\* revoked partition is read again before a commit can pass it.
CommittedPublished == \A p \in Partitions : 0..(committed[p] - 1) \subseteq published[p]

\* A member's accumulator holds exactly the records between the committed
\* offset and its position, once each and in order, so the offset range in a
\* block's key names the records of the block.
BufferIsItsRange ==
    \A m \in Members, p \in Partitions :
        joined[m] = generation /\ pc[m] \in {"poll", "write"} =>
            buffer[m][p] = IF p \in assigned[m]
                           THEN [i \in 1..(position[m][p] - committed[p]) |-> committed[p] + i - 1]
                           ELSE <<>>

\* No commit takes the group's offset back.
CommitsOnlyAdvance == [][\A p \in Partitions : committed'[p] >= committed[p]]_vars

CaughtUpTo(m, offsets) == \A p \in assigned[m] : 0..(offsets[p] - 1) \subseteq published[p]

\* A ready gate means that every record in the member's partitions when the
\* gate last closed is durable ("WAL-backed read and block-building roles keep
\* /ready false until that catch-up proof succeeds", deploy/README.md), for
\* members that no rebalance gave back exactly the partitions they had while
\* they held the records that took them to the log end.
ReadyMeansAppliedUnlessRewound ==
    \A m \in Members : gate[m] /\ ~rewound[m] => CaughtUpTo(m, goal[m])

\* Once appends stop, every record is committed.
RecordsCommitted == <>[](committed = end)

\* When writes, crashes and rebalances have stopped, every member that holds a
\* partition becomes ready again: "both members report WAL catch-up again, so
\* the first replica does not stay unready" (wal_group_scale_out.rs).
GatesReopen == <>[](\A m \in Members : assigned[m] # {} => gate[m])
=============================================================================
