--------------------------- MODULE TracePipeline ---------------------------
(***************************************************************************)
(* The life of a span block: the block builder reads one WAL partition,    *)
(* writes a block, publishes it in the trace index and commits the offset  *)
(* (crates/traces/src/blockbuilder); compactors merge, expire and delete   *)
(* blocks and sweep the orphans (crates/traces/src/compactor and           *)
(* run_compactor_once in bin/krabka-traces/role_runners.rs).               *)
(*                                                                         *)
(* Abstractions.  A record is its offset.  The published index is one      *)
(* register that a save reads and writes in a step, which is what          *)
(* SnapshotChain shows of the generations behind it.  A block's key fixes  *)
(* its records: a builder's key names an offset range, a compacted one the *)
(* blocks it merged and the version each had.  Timestamps grow with the    *)
(* offset.  The compaction ladder has one rung, and the planner's caps on  *)
(* fan-in and rows are out of reach.  An object is old once it has         *)
(* outlived the sweep's grace; objects grow old one by one.                *)
(***************************************************************************)
EXTENDS Integers, FiniteSets

CONSTANTS
    Compactors,      \* processes that run compaction passes
    Window,          \* width of the planner's time bucket, in offsets
    MaxRecords,      \* bound: records appended to the partition
    MaxCrashes,      \* bound: crashes of the block builder
    MaxFailures,     \* bound: compactor crashes and deletes that fail
    MaxHorizon,      \* bound: offsets that fall out of the retention window
    PromptPublish    \* assumed when TRUE: a block is published, restarts
                     \* included, before it outlives the sweep's grace

ASSUME BoundsAssumption == {MaxRecords, MaxCrashes, MaxFailures, MaxHorizon} \subseteq Nat
ASSUME WindowAssumption == Window \in Nat \ {0}

Ranges == {r \in (0..(MaxRecords - 1)) \X (0..(MaxRecords - 1)) : r[1] <= r[2]}

VARIABLES
    appended,    \* records in the WAL: the end offset
    committed,   \* the group's committed offset
    position,    \* next offset the builder fetches; its buffer starts at committed
    builder,     \* "down", "poll", "save" or "commit"
    old,         \* old[k]: object k exists, and whether it has outlived the grace
    puts,        \* puts[r]: times the block of range r was written
    published,   \* keys in the newest snapshot of the index
    pc,          \* where each compactor is in its pass
    index,       \* keys in the compactor's own index
    added,       \* its pending additions
    retired,     \* its pending removals, then the objects still to delete
    until,       \* retention cutoff at the start of the pass
    aged,        \* objects that were old at the start of the pass
    stale,       \* orphans the sweep has still to delete
    horizon,     \* offsets below it are outside the retention window
    crashes,     \* block builder crashes so far
    failures     \* compactor failures so far

wal == <<appended, committed>>
build == <<position, builder, puts, crashes>>
plan == <<index, added, until>>
pass == <<pc, index, added, retired, until, aged, stale>>
vars == <<appended, committed, position, builder, old, puts, published, pc,
          index, added, retired, until, aged, stale, horizon, crashes, failures>>
-----------------------------------------------------------------------------
(* Block keys. *)

\* object_key: the offset range names the block.
BuiltKey(r) == [level |-> 0, from |-> {<<r[1], r[2], 0>>}]

\* planned_compacted_object_key and versioned_compaction_key: the input keys
\* and the version of each input object.
CompactedKey(S) ==
    [level |-> 1,
     from |-> {<<r[1], r[2], puts[r]>> : r \in {q \in Ranges : BuiltKey(q) \in S}}]

Holds(b, o) == b[1] <= o /\ o <= b[2]
Has(k, o) == \E b \in k.from : Holds(b, o)
Objects == DOMAIN old

\* A put makes a new version, which is not old, and which a sweep that has not
\* listed the prefix yet sees with its new date.
Put(k) ==
    /\ old' = [j \in Objects \cup {k} |-> j # k /\ old[j]]
    /\ aged' = [c \in Compactors |-> aged[c] \ {k}]

Delete(k) == old' = [j \in Objects \ {k} |-> old[j]]

Init ==
    /\ appended = 0
    /\ committed = 0
    /\ position = 0
    /\ builder = "poll"
    /\ old = [k \in {} |-> FALSE]
    /\ puts = [r \in Ranges |-> 0]
    /\ published = {}
    /\ pc = [c \in Compactors |-> "idle"]
    /\ index = [c \in Compactors |-> {}]
    /\ added = [c \in Compactors |-> {}]
    /\ retired = [c \in Compactors |-> {}]
    /\ until = [c \in Compactors |-> 0]
    /\ aged = [c \in Compactors |-> {}]
    /\ stale = [c \in Compactors |-> {}]
    /\ horizon = 0
    /\ crashes = 0
    /\ failures = 0
-----------------------------------------------------------------------------
(* The world: the distributor appends, time passes. *)

Append ==
    /\ appended < MaxRecords
    /\ appended' = appended + 1
    /\ UNCHANGED <<committed, build, old, published, pass, horizon, failures>>

\* Someone has still to publish k: a pass that wrote it, or the builder, which
\* writes it again if it stops before.
BeingPublished(k) ==
    /\ k \notin published
    /\ \/ \E c \in Compactors : k \in added[c]
       \/ k.level = 0 /\ \A b \in k.from : b[1] >= committed

GrowOld(k) ==
    /\ ~old[k]
    /\ PromptPublish => ~BeingPublished(k)
    /\ old' = [old EXCEPT ![k] = TRUE]
    /\ UNCHANGED <<wal, build, published, pass, horizon, failures>>

Expiry ==
    /\ horizon < MaxHorizon
    /\ horizon' = horizon + 1
    /\ UNCHANGED <<wal, build, old, published, pass, failures>>
-----------------------------------------------------------------------------
(* The block builder. *)

\* One poll merges a window of new records into the buffer.
Poll ==
    /\ builder = "poll"
    /\ \E next \in (position + 1)..appended : position' = next
    /\ UNCHANGED <<wal, builder, puts, crashes, old, published, pass, horizon,
                   failures>>

\* Fault: the committed offset is taken for the last one committed.
FlushRangeOverlaps == <<IF committed = 0 THEN 0 ELSE committed - 1, position - 1>>

\* The inclusive offset range of the buffer.
FlushRange == <<committed, position - 1>>

\* Fault: only the record count flushes, never the age of the buffer.
WriteBlockWhenFull ==
    /\ builder = "poll"
    /\ position > committed + 1
    /\ Put(BuiltKey(FlushRange))
    /\ puts' = [puts EXCEPT ![FlushRange] = @ + 1]
    /\ builder' = "save"
    /\ UNCHANGED <<wal, position, crashes, published, pc, index, added, retired,
                   until, stale, horizon, failures>>

\* should_flush holds at some time after the first buffered record.  The
\* block of the buffered range is written under the range's own key.
WriteBlock ==
    /\ builder = "poll"
    /\ position > committed
    /\ Put(BuiltKey(FlushRange))
    /\ puts' = [puts EXCEPT ![FlushRange] = @ + 1]
    /\ builder' = "save"
    /\ UNCHANGED <<wal, position, crashes, published, pc, index, added, retired,
                   until, stale, horizon, failures>>

\* The index save contributes the one block the builder added.
SaveIndex ==
    /\ builder = "save"
    /\ published' = published \cup {BuiltKey(FlushRange)}
    /\ builder' = "commit"
    /\ UNCHANGED <<wal, position, puts, crashes, old, pass, horizon, failures>>

\* commit_sync commits what the consumer has read.
CommitSync ==
    /\ builder = "commit"
    /\ committed' = position
    /\ builder' = "poll"
    /\ UNCHANGED <<appended, position, puts, crashes, old, published, pass,
                   horizon, failures>>

\* Any error ends the role; the buffer is gone.
BuilderCrash ==
    /\ builder # "down"
    /\ crashes < MaxCrashes
    /\ crashes' = crashes + 1
    /\ builder' = "down"
    /\ UNCHANGED <<wal, position, puts, old, published, pass, horizon, failures>>

\* Fault: a restart resumes where the last process stopped reading.
RestartAtPosition ==
    /\ builder = "down"
    /\ builder' = "poll"
    /\ committed' = position
    /\ UNCHANGED <<appended, position, puts, crashes, old, published, pass,
                   horizon, failures>>

\* A fresh member starts from the committed offset.
BuilderRestart ==
    /\ builder = "down"
    /\ builder' = "poll"
    /\ position' = committed
    /\ UNCHANGED <<wal, puts, crashes, old, published, pass, horizon, failures>>
-----------------------------------------------------------------------------
(* A compaction pass: run_compactor_once. *)

Goto(c, label) == pc' = [pc EXCEPT ![c] = label]

\* Fault: the index is carried from one pass to the next.
EndPassKeepsIndex(c) ==
    /\ Goto(c, "idle")
    /\ added' = [added EXCEPT ![c] = {}]
    /\ retired' = [retired EXCEPT ![c] = {}]
    /\ until' = [until EXCEPT ![c] = 0]
    /\ aged' = [aged EXCEPT ![c] = {}]
    /\ stale' = [stale EXCEPT ![c] = {}]
    /\ UNCHANGED index

\* The end of a pass, however it ends, forgets its index.
EndPass(c) ==
    /\ Goto(c, "idle")
    /\ index' = [index EXCEPT ![c] = {}]
    /\ added' = [added EXCEPT ![c] = {}]
    /\ retired' = [retired EXCEPT ![c] = {}]
    /\ until' = [until EXCEPT ![c] = 0]
    /\ aged' = [aged EXCEPT ![c] = {}]
    /\ stale' = [stale EXCEPT ![c] = {}]

LoadIndex(c) ==
    /\ pc[c] = "idle"
    /\ index' = [index EXCEPT ![c] = published]
    /\ until' = [until EXCEPT ![c] = horizon]
    /\ aged' = [aged EXCEPT ![c] = {k \in Objects : old[k]}]
    /\ Goto(c, "compact")
    /\ UNCHANGED <<wal, build, old, published, added, retired, stale, horizon,
                   failures>>

\* plan_compactions over the keys in I: the blocks of one level and one time
\* bucket, two or more, are a job.
JobsIn(I) ==
    {S \in {{k \in I : k.level = 0 /\ (\E b \in k.from : b[1] \div Window = t)} :
               t \in 0..(MaxRecords - 1)} : Cardinality(S) >= 2}

Jobs(c) == JobsIn(index[c])

\* Fault: the inputs are deleted as soon as they are merged.
CompactJobInPlace(c) ==
    /\ pc[c] = "compact"
    /\ \E S \in Jobs(c) :
          LET out == CompactedKey(S) IN
          /\ S \subseteq Objects
          /\ old' = [k \in (Objects \ S) \cup {out} |-> k # out /\ old[k]]
          /\ aged' = [d \in Compactors |-> aged[d] \ {out}]
          /\ index' = [index EXCEPT ![c] = (@ \ S) \cup {out}]
          /\ added' = [added EXCEPT ![c] = @ \cup {out}]
          /\ retired' = [retired EXCEPT ![c] = @ \cup S]
    /\ UNCHANGED <<wal, build, published, pc, until, stale, horizon, failures>>

\* One planned job: the inputs are read, the output is written, and the
\* compactor's index has the output in place of the inputs.
CompactJob(c) ==
    /\ pc[c] = "compact"
    /\ \E S \in Jobs(c) :
          \E out \in {CompactedKey(S)} :
          /\ S \subseteq Objects
          /\ Put(out)
          /\ index' = [index EXCEPT ![c] = (@ \ S) \cup {out}]
          /\ added' = [added EXCEPT ![c] = @ \cup {out}]
          /\ retired' = [retired EXCEPT ![c] = @ \cup S]
    /\ UNCHANGED <<wal, build, published, pc, until, stale, horizon, failures>>

\* An input whose object is gone fails the job and with it the pass.
InputMissing(c) ==
    /\ pc[c] = "compact"
    /\ \E S \in Jobs(c) : ~(S \subseteq Objects)
    /\ EndPass(c)
    /\ UNCHANGED <<wal, build, old, published, horizon, failures>>

\* Fault: the oldest record of a block decides.
ExpiredByOldest(c, k) == \E o \in 0..(until[c] - 1) : Has(k, o)

\* plan_expired_blocks: the newest record of a block decides.
Expired(c, k) == \A b \in k.from : b[2] < until[c]

\* Fault: a pass that changed nothing does not list the orphans.
ExpireSkipsSweep(c) ==
    LET gone == {k \in index[c] : Expired(c, k)} IN
    /\ pc[c] = "compact"
    /\ Jobs(c) = {}
    /\ index' = [index EXCEPT ![c] = @ \ gone]
    /\ added' = [added EXCEPT ![c] = @ \ gone]
    /\ retired' = [retired EXCEPT ![c] = @ \cup gone]
    /\ Goto(c, IF retired[c] \cup gone = {} THEN "reclaim" ELSE "save")
    /\ UNCHANGED <<wal, build, old, published, until, aged, stale, horizon,
                   failures>>

\* After the last job, expired blocks, this pass's outputs among them, leave
\* the index.  A pass that changed nothing goes on to the sweep.
Expire(c) ==
    LET gone == {k \in index[c] : Expired(c, k)} IN
    /\ pc[c] = "compact"
    /\ Jobs(c) = {}
    /\ index' = [index EXCEPT ![c] = @ \ gone]
    /\ added' = [added EXCEPT ![c] = @ \ gone]
    /\ retired' = [retired EXCEPT ![c] = @ \cup gone]
    /\ Goto(c, IF retired[c] \cup gone = {} THEN "sweep" ELSE "save")
    /\ UNCHANGED <<wal, build, old, published, until, aged, stale, horizon,
                   failures>>

\* Fault: a removal that is not in the base is ignored.
SaveRefusedNever(c) == FALSE

\* Fault: the additions too must find their record in the base.
SaveRefusedForAdditions(c) == ~(retired[c] \cup added[c] \subseteq published)

\* merge_tenant_shards: a removal must find its record in the base.
SaveRefused(c) == ~(retired[c] \subseteq published)

\* The save lands: the removals and the additions are published at once.
PublishPass(c) ==
    /\ pc[c] = "save"
    /\ ~SaveRefused(c)
    /\ published' = (published \ retired[c]) \cup added[c]
    /\ added' = [added EXCEPT ![c] = {}]
    /\ Goto(c, "delete")
    /\ UNCHANGED <<wal, build, old, index, retired, until, aged, stale, horizon,
                   failures>>

\* The save is refused and the pass fails.
RefusePass(c) ==
    /\ pc[c] = "save"
    /\ SaveRefused(c)
    /\ EndPass(c)
    /\ UNCHANGED <<wal, build, old, published, horizon, failures>>

\* delete_blocks: the retired objects go one by one, unconditionally.  One
\* that would not delete stays.
DeleteRetired(c) ==
    /\ pc[c] = "delete"
    /\ \E k \in retired[c] :
          /\ retired' = [retired EXCEPT ![c] = @ \ {k}]
          /\ \/ Delete(k) /\ UNCHANGED failures
             \/ failures < MaxFailures /\ failures' = failures + 1 /\ UNCHANGED old
    /\ UNCHANGED <<wal, build, published, pc, plan, aged, stale, horizon>>

DeletesDone(c) ==
    /\ pc[c] = "delete"
    /\ retired[c] = {}
    /\ Goto(c, "sweep")
    /\ UNCHANGED <<wal, build, old, published, plan, retired, aged, stale,
                   horizon, failures>>

\* reconcile_orphans: objects the pass's own index does not name and that were
\* old when the pass started.
SweepList(c) ==
    /\ pc[c] = "sweep"
    /\ stale' = [stale EXCEPT ![c] = {k \in Objects \ index[c] : k \in aged[c]}]
    /\ Goto(c, "reclaim")
    /\ UNCHANGED <<wal, build, old, published, plan, retired, aged, horizon,
                   failures>>

SweepDelete(c) ==
    /\ pc[c] = "reclaim"
    /\ \E k \in stale[c] :
          /\ Delete(k)
          /\ stale' = [stale EXCEPT ![c] = @ \ {k}]
    /\ UNCHANGED <<wal, build, published, pc, plan, retired, aged, horizon,
                   failures>>

PassDone(c) ==
    /\ pc[c] = "reclaim"
    /\ stale[c] = {}
    /\ EndPass(c)
    /\ UNCHANGED <<wal, build, old, published, horizon, failures>>

\* A compactor stops, or a call to the store fails, anywhere in a pass.
PassFails(c) ==
    /\ pc[c] # "idle"
    /\ failures < MaxFailures
    /\ failures' = failures + 1
    /\ EndPass(c)
    /\ UNCHANGED <<wal, build, old, published, horizon>>
-----------------------------------------------------------------------------
BuilderStep == Poll \/ WriteBlock \/ SaveIndex \/ CommitSync \/ BuilderRestart

PassStep(c) ==
    \/ LoadIndex(c) \/ CompactJob(c) \/ InputMissing(c) \/ Expire(c)
    \/ PublishPass(c) \/ RefusePass(c) \/ DeleteRetired(c) \/ DeletesDone(c)
    \/ SweepList(c) \/ SweepDelete(c) \/ PassDone(c)

Next ==
    \/ Append \/ Expiry \/ \E k \in Objects : GrowOld(k)
    \/ BuilderStep \/ BuilderCrash
    \/ \E c \in Compactors : PassStep(c) \/ PassFails(c)

Spec == Init /\ [][Next]_vars

\* The builder's loop and the compactors' schedules run for ever, a supervised
\* role that exits is started again, and time passes.
Fairness ==
    /\ WF_vars(BuilderStep)
    /\ \A c \in Compactors : WF_vars(PassStep(c))
    /\ WF_vars(\E k \in Objects : GrowOld(k))

FairSpec == Spec /\ Fairness
-----------------------------------------------------------------------------
\* Every variable keeps its type.
TypeOK ==
    /\ 0 <= committed /\ committed <= position /\ position <= appended
    /\ appended <= MaxRecords
    /\ builder \in {"down", "poll", "save", "commit"}
    /\ \A k \in Objects \cup published \cup UNION {stale[c] : c \in Compactors} :
          /\ k.level \in {0, 1}
          /\ \A b \in k.from : <<b[1], b[2]>> \in Ranges /\ b[3] \in 0..(MaxCrashes + 1)
    /\ puts \in [Ranges -> 0..(MaxCrashes + 1)]
    /\ pc \in [Compactors -> {"idle", "compact", "save", "delete", "sweep", "reclaim"}]
    /\ \A c \in Compactors : pc[c] = "idle" =>
          index[c] \cup added[c] \cup retired[c] \cup aged[c] \cup stale[c] = {}
    /\ until \in [Compactors -> 0..horizon]
    /\ horizon \in 0..MaxHorizon /\ crashes \in 0..MaxCrashes
    /\ failures \in 0..MaxFailures

\* A committed record that is inside the retention window is in a published
\* block whose object exists: the builder commits last, the planner expires by
\* the newest record, and neither a pass nor a sweep deletes its only copy.
CommittedDurable ==
    \A o \in horizon..(committed - 1) :
        \E k \in published \cap Objects : Has(k, o)

Copies(o) ==
    {kb \in UNION {{k} \X k.from : k \in published} : Holds(kb[2], o)}

\* A record is published at most once, and once more for every crash of the
\* builder: delivery is at least once, and compaction duplicates nothing.
CopiesBoundedByCrashes ==
    \A o \in 0..(appended - 1) : Cardinality(Copies(o)) <= 1 + crashes

\* No published key lacks its object: "a block leaves the index and the
\* snapshot is saved before its object is deleted" (run_compactor_once).
PublishedObjectsExist == published \subseteq Objects

\* The only compactor's save always finds the records it retires: nobody else
\* removes any, and merge_tenant_shards refuses a removal because it "retires a
\* block that is no longer there".
SolePassNeverRefused ==
    \A c \in Compactors :
        Compactors = {c} /\ pc[c] = "save" => ~SaveRefused(c)

\* Once appends stop, every record is committed, whatever crashed before.
EverythingCommitted == <>[](committed = appended)

\* Passes keep reaching their end: "One failed pass is not a reason to lose the
\* role. The next tick reloads the index and replans from whatever is durable"
\* (compaction_loop).
PassesComplete == \A c \in Compactors : []<>(pc[c] = "reclaim")

\* A job in the published index that no pass gets past: its inputs are all
\* outside the retention window, so the pass expires what it has just made of
\* them and asks the save to remove a block that was never published.
DoomedJob == \E S \in JobsIn(published) : \A k \in S : \A b \in k.from : b[2] < horizon

\* Nothing in the published index stops a pass for good.
Unobstructed == PublishedObjectsExist /\ ~DoomedJob

\* The same, as long as neither a missing object nor a job whose output is
\* already expired stays in the index for ever.
PassesCompleteUnlessStuck == []<>Unobstructed => PassesComplete

\* Once nothing new is written, the objects of torn passes and abandoned
\* flushes are reclaimed, unless a missing object or a job whose output is
\* already expired stops the passes: "the orphan sweep collects whatever a torn
\* pass left".
OrphansReclaimed == []<>Unobstructed => <>[](Objects \subseteq published)
=============================================================================
