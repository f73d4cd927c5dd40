--------------------------- MODULE SnapshotChain ---------------------------
(***************************************************************************)
(* The generation chain through which every writer of a trace or profile   *)
(* index publishes it (crates/blockstore/src/index_snapshot.rs).           *)
(*                                                                         *)
(* A manifest is stored under a key derived from its generation number.  A *)
(* save lists the stored generations, reads the newest one, merges the     *)
(* writer's pending additions and removals into it and creates the next    *)
(* generation with a conditional put: a put that finds the key taken       *)
(* starts over.  After a successful create it deletes all but the newest   *)
(* Retain generations and forgets what was pending.                        *)
(*                                                                         *)
(* A manifest is cut into shards on a grid of time slots.  A block's       *)
(* record is in every shard its time span reaches into, and a merge reads  *)
(* and rewrites only the shards its own records touch, so a record of the  *)
(* same key with another span may stay behind in a shard that is carried.  *)
(* A load keeps the greatest record of each key.                           *)
(*                                                                         *)
(* Abstractions.  A manifest is the records each of its shards holds       *)
(* (module ShardPayloads has the payload objects).  A record is an object  *)
(* key, the slots of its span, and a rank: its place in TraceRecordOrder,  *)
(* which tells records of one key apart as their fingerprints do.  The     *)
(* index is the trace index; the profile index differs in its pin check    *)
(* only (any shard may hold the pinned record, not the first that has the  *)
(* key).  There is one tenant: tenants are merged independently.  An       *)
(* index is borrowed for the whole of a save (the builder holds its mutex, *)
(* the compactor owns it), so what is pending cannot change under a save.  *)
(* Every error out of a save ends the process that saw it (the builder) or *)
(* drops the index it was saving (the compactor reloads every pass), so    *)
(* every failing return is the action Crash.                               *)
(***************************************************************************)
EXTENDS Integers, FiniteSets

CONSTANTS
    Builders,      \* processes that register new blocks and save the index
    Compactors,    \* processes that replace and retire blocks and save it
    Keys,          \* object keys of blocks
    Slots,         \* slots of the shard grid, in time order
    Flushed,       \* records a builder may register
    Compacted,     \* records a compactor may register for an output
    Retain,        \* IndexSnapshotRetain: manifests kept by a prune
    MaxAttempts,   \* MAX_SNAPSHOT_WRITE_ATTEMPTS
    AmbiguousPut,  \* TRUE: a retried create may meet its own first attempt
    MaxGeneration  \* bound: generations a behaviour may create

ASSUME RetainAssumption == Retain \in Nat \ {0}
ASSUME MaxAttemptsAssumption == MaxAttempts \in Nat \ {0}
ASSUME MaxGenerationAssumption == MaxGeneration \in Nat
ASSUME AmbiguousPutAssumption == AmbiguousPut \in BOOLEAN
ASSUME SlotsAssumption == Slots \subseteq Int
ASSUME RecordsAssumption == Flushed \cup Compacted \subseteq [key : Keys, rank : Int, span : SUBSET Slots]
ASSUME RanksAssumption == \A r, s \in Flushed \cup Compacted : r.key = s.key /\ r.rank = s.rank => r = s

Records == Flushed \cup Compacted
Writers == Builders \cup Compactors
Generations == 0..MaxGeneration
Manifests == [Slots -> SUBSET Records]
NoShards == [s \in Slots |-> {}]

\* The records a manifest's shards hold.
Held(m) == UNION {m[s] : s \in Slots}

VARIABLES
    stored,     \* generations whose manifest object exists
    manifest,   \* manifest[g]: the shards of generation g, when stored
    pc,         \* where each writer is
    index,      \* the in-memory index of each writer
    additions,  \* PendingBlockAdditions of each writer (object keys)
    removals,   \* PendingBlockRemovals of each writer (pinned records)
    listed,     \* newest generation the writer's last listing saw, or -1
    merged,     \* the manifest the writer is about to create
    stale,      \* generations the writer's prune has still to delete
    attempt,    \* the attempt number of the writer's current save
    owed,       \* history: the index if every landed save had taken effect
    overtaken,  \* history: a create has landed below the newest generation
    landed,     \* history: records each writer has already had published
    unseen      \* history: the writer does not know that a create of it landed

memory == <<index, additions, removals>>
history == <<owed, overtaken, landed, unseen>>
vars == <<stored, manifest, pc, index, additions, removals, listed, merged,
          stale, attempt, owed, overtaken, landed, unseen>>

-----------------------------------------------------------------------------
(* The merge of one save. *)

KeysOf(R) == {r.key : r \in R}

\* TenantShardMerge::contributes: pending additions, or everything the index
\* names when there is no chain to merge into.
Contributed(w, noBase) ==
    {r \in index[w] : noBase \/ r.key \in additions[w]}

\* touched_shard_ranges: the slots of every span contributed or retired.
Touched(w, noBase) == UNION {r.span : r \in Contributed(w, noBase) \cup removals[w]}

\* Fault: a pin the base does not hold is skipped.
NeverRefused(w, base, noBase) == FALSE

\* A removal is refused unless the first touched shard that has its key holds
\* the very record it pins.
Refused(w, base, noBase) ==
    \E d \in removals[w] :
        ~ \E s \in Touched(w, noBase) :
             /\ d \in base[s]
             /\ \A t \in Touched(w, noBase) : t < s => d.key \notin KeysOf(base[t])

\* Fault: the contribution is put beside what the shards hold.
MergeKeepsNamesakes(w, base, noBase) ==
    [s \in Slots |->
        (base[s] \ removals[w]) \cup {r \in Contributed(w, noBase) : s \in r.span}]

\* In the touched shards the pinned records leave and the contributed ones
\* replace their namesakes; the other shards are carried unread.
Merge(w, base, noBase) ==
    LET new == Contributed(w, noBase)
    IN  [s \in Slots |->
            IF s \in Touched(w, noBase)
            THEN {r \in base[s] \ removals[w] : r.key \notin KeysOf(new)}
                    \cup {r \in new : s \in r.span}
            ELSE base[s]]

IsNewest(g) == g \in stored /\ \A h \in stored : h <= g

\* The shards of the newest generation.
Published ==
    IF stored = {} THEN NoShards ELSE manifest[CHOOSE g \in stored : IsNewest(g)]

\* finish_load, merge_record: of the records of one key the greatest stays.
Loaded(m) == {r \in Held(m) : \A q \in Held(m) : q.key = r.key => q.rank <= r.rank}
-----------------------------------------------------------------------------
Init ==
    /\ stored = {}
    /\ manifest = [g \in Generations |-> NoShards]
    /\ pc = [w \in Writers |-> "down"]
    /\ index = [w \in Writers |-> {}]
    /\ additions = [w \in Writers |-> {}]
    /\ removals = [w \in Writers |-> {}]
    /\ listed = [w \in Writers |-> -1]
    /\ merged = [w \in Writers |-> NoShards]
    /\ stale = [w \in Writers |-> {}]
    /\ attempt = [w \in Writers |-> 1]
    /\ owed = NoShards
    /\ overtaken = FALSE
    /\ landed = [w \in Writers |-> {}]
    /\ unseen = [w \in Writers |-> FALSE]

Goto(w, label) == pc' = [pc EXCEPT ![w] = label]

\* The listing both a load and a save start from: the newest generation wins.
ListNewest(w) ==
    \/ stored = {} /\ listed' = [listed EXCEPT ![w] = -1]
    \/ \E g \in stored : IsNewest(g) /\ listed' = [listed EXCEPT ![w] = g]

(* Loading: load_latest_snapshot_or_empty, at a builder's start and at the *)
(* head of every compaction pass.                                          *)
LoadList(w) ==
    /\ pc[w] = "down"
    /\ ListNewest(w)
    /\ Goto(w, "load")
    /\ UNCHANGED <<stored, manifest, memory, merged, stale, attempt, history>>

\* An empty listing loads an empty index.  A manifest pruned since the listing
\* fails the load, and the writer starts again.
LoadRead(w) ==
    /\ pc[w] = "load"
    /\ \/ /\ listed[w] = -1
          /\ Goto(w, "idle")
          /\ UNCHANGED <<index, listed>>
       \/ /\ listed[w] \in stored
          /\ index' = [index EXCEPT ![w] = Loaded(manifest[listed[w]])]
          /\ listed' = [listed EXCEPT ![w] = -1]
          /\ Goto(w, "idle")
       \/ /\ listed[w] # -1 /\ listed[w] \notin stored
          /\ Goto(w, "down")
          /\ UNCHANGED <<index, listed>>
    /\ UNCHANGED <<stored, manifest, additions, removals, merged, stale,
                   attempt, history>>

(* What a writer does to its own index between saves. *)

Without(R, K) == {r \in R : r.key \notin K}

\* add_trace_block
AddBlock(w, r) ==
    /\ pc[w] = "idle"
    /\ removals' = [removals EXCEPT ![w] = Without(@, {r.key})]
    /\ additions' = [additions EXCEPT ![w] = @ \cup {r.key}]
    /\ index' = [index EXCEPT ![w] = Without(@, {r.key}) \cup {r}]
    /\ landed' = [landed EXCEPT ![w] = @ \ {r}]
    /\ UNCHANGED <<stored, manifest, pc, listed, merged, stale, attempt,
                   owed, overtaken, unseen>>

\* retire_trace_blocks: every held block of K is pinned, published or not, in
\* place of an earlier pin of its key.
Retired(w, K) ==
    LET dropped == {r \in index[w] : r.key \in K}
    IN  Without(removals[w], KeysOf(dropped)) \cup dropped

\* replace_trace_blocks: compaction's swap.
ReplaceBlocks(w, K, r) ==
    /\ pc[w] = "idle"
    /\ K # {} /\ K \subseteq KeysOf(index[w])
    /\ removals' = [removals EXCEPT ![w] = Without(Retired(w, K), {r.key})]
    /\ additions' = [additions EXCEPT ![w] = (@ \ K) \cup {r.key}]
    /\ index' = [index EXCEPT ![w] = Without(@, K \cup {r.key}) \cup {r}]
    /\ landed' = [landed EXCEPT ![w] = @ \ {r}]
    /\ UNCHANGED <<stored, manifest, pc, listed, merged, stale, attempt,
                   owed, overtaken, unseen>>

\* remove_trace_blocks: retention's swap.
RemoveBlocks(w, K) ==
    /\ pc[w] = "idle"
    /\ K # {} /\ K \subseteq KeysOf(index[w])
    /\ removals' = [removals EXCEPT ![w] = Retired(w, K)]
    /\ additions' = [additions EXCEPT ![w] = @ \ K]
    /\ index' = [index EXCEPT ![w] = Without(@, K)]
    /\ UNCHANGED <<stored, manifest, pc, listed, merged, stale, attempt,
                   history>>
-----------------------------------------------------------------------------
(* One save: save_latest_snapshot_with_retain_and_max_bytes around         *)
(* put_manifest_snapshot.                                                  *)

BeginSave(w) ==
    /\ pc[w] = "idle"
    /\ Goto(w, "list")
    /\ UNCHANGED <<stored, manifest, memory, listed, merged, stale, attempt,
                   history>>

ListBase(w) ==
    /\ pc[w] = "list"
    /\ ListNewest(w)
    /\ Goto(w, "read")
    /\ UNCHANGED <<stored, manifest, memory, merged, stale, attempt, history>>

\* Fault: the loop runs once more than MAX_SNAPSHOT_WRITE_ATTEMPTS.
TryAgainOnceMore(w) ==
    /\ attempt[w] <= MaxAttempts
    /\ attempt' = [attempt EXCEPT ![w] = @ + 1]
    /\ listed' = [listed EXCEPT ![w] = -1]
    /\ merged' = [merged EXCEPT ![w] = NoShards]
    /\ Goto(w, "list")

\* The loop goes round while attempts are left; the error after the last one is
\* the action Crash.
TryAgain(w) ==
    /\ attempt[w] < MaxAttempts
    /\ attempt' = [attempt EXCEPT ![w] = @ + 1]
    /\ listed' = [listed EXCEPT ![w] = -1]
    /\ merged' = [merged EXCEPT ![w] = NoShards]
    /\ Goto(w, "list")

\* Fault: the writer publishes its own index over the base it read.
ReadBaseLastWriterWins(w) ==
    /\ pc[w] = "read"
    /\ listed[w] = -1 \/ listed[w] \in stored
    /\ merged' = [merged EXCEPT ![w] = [s \in Slots |-> {r \in index[w] : s \in r.span}]]
    /\ Goto(w, "create")
    /\ UNCHANGED <<stored, manifest, memory, listed, stale, attempt, history>>

\* Reads the base and merges into it; a refused merge is the action Crash.
ReadBase(w) ==
    /\ pc[w] = "read"
    /\ \/ /\ listed[w] = -1
          /\ ~Refused(w, NoShards, TRUE)
          /\ merged' = [merged EXCEPT ![w] = Merge(w, NoShards, TRUE)]
          /\ Goto(w, "create")
          /\ UNCHANGED <<listed, attempt>>
       \/ /\ listed[w] \in stored
          /\ ~Refused(w, manifest[listed[w]], FALSE)
          /\ merged' = [merged EXCEPT ![w] =
                           Merge(w, manifest[listed[w]], FALSE)]
          /\ Goto(w, "create")
          /\ UNCHANGED <<listed, attempt>>
       \/ /\ listed[w] # -1 /\ listed[w] \notin stored
          /\ TryAgain(w)
    /\ UNCHANGED <<stored, manifest, memory, stale, history>>

\* The generation a save claims: one above the base it merged into.
Claim(w) == listed[w] + 1

\* Fault: the put is not conditional.
LandUnconditionally(w) ==
    /\ Claim(w) \in Generations
    /\ stored' = stored \cup {Claim(w)}
    /\ manifest' = [manifest EXCEPT ![Claim(w)] = merged[w]]
    /\ owed' = Merge(w, owed, listed[w] = -1)
    /\ overtaken' = (overtaken \/ \E g \in stored : g > Claim(w))
    /\ landed' = [landed EXCEPT ![w] = @ \cup Contributed(w, listed[w] = -1)]

\* The conditional put finds its key free and stores the manifest.
Land(w) ==
    /\ Claim(w) \in Generations \ stored
    /\ stored' = stored \cup {Claim(w)}
    /\ manifest' = [manifest EXCEPT ![Claim(w)] = merged[w]]
    /\ owed' = Merge(w, owed, listed[w] = -1)
    /\ overtaken' = (overtaken \/ \E g \in stored : g > listed[w])
    /\ landed' = [landed EXCEPT ![w] = @ \cup Contributed(w, listed[w] = -1)]

Create(w) ==
    /\ pc[w] = "create"
    /\ Land(w)
    /\ listed' = [listed EXCEPT ![w] = -1]
    /\ merged' = [merged EXCEPT ![w] = NoShards]
    /\ attempt' = [attempt EXCEPT ![w] = 1]
    /\ Goto(w, "prune")
    /\ UNCHANGED <<memory, stale, unseen>>

\* AlreadyExists: another writer claimed the generation.
CreateConflict(w) ==
    /\ pc[w] = "create"
    /\ Claim(w) \in stored
    /\ TryAgain(w)
    /\ UNCHANGED <<stored, manifest, memory, stale, history>>

\* The put lands, its response is lost, and the store wrapper's second put of
\* it reports AlreadyExists: see the action CreateConflict for the same writer.
CreateUnseen(w) ==
    /\ AmbiguousPut
    /\ pc[w] = "create"
    /\ Land(w)
    /\ unseen' = [unseen EXCEPT ![w] = TRUE]
    /\ UNCHANGED <<pc, memory, listed, merged, stale, attempt>>

\* Fault: the prune counts the generation it has just created twice.
PruneListOneTooMany(w) ==
    /\ pc[w] = "prune"
    /\ stale' = [stale EXCEPT ![w] =
          {g \in stored : Cardinality({h \in stored : h > g}) >= Retain - 1}]
    /\ Goto(w, "delete")
    /\ UNCHANGED <<stored, manifest, memory, listed, merged, attempt, history>>

\* prune_old_index_snapshots lists once: all but the newest Retain are stale.
PruneList(w) ==
    /\ pc[w] = "prune"
    /\ stale' = [stale EXCEPT ![w] =
          {g \in stored : Cardinality({h \in stored : h > g}) >= Retain}]
    /\ Goto(w, "delete")
    /\ UNCHANGED <<stored, manifest, memory, listed, merged, attempt, history>>

\* It then deletes them oldest first; one already gone counts as deleted.
PruneDelete(w) ==
    /\ pc[w] = "delete"
    /\ \E g \in stale[w] :
          /\ \A h \in stale[w] : g <= h
          /\ stored' = stored \ {g}
          /\ manifest' = [manifest EXCEPT ![g] = NoShards]
          /\ stale' = [stale EXCEPT ![w] = @ \ {g}]
    /\ UNCHANGED <<pc, memory, listed, merged, attempt, history>>

\* Fault: a published addition stays pending.
CommitRemovalsOnly(w) ==
    /\ pc[w] = "delete"
    /\ stale[w] = {}
    /\ removals' = [removals EXCEPT ![w] = {}]
    /\ Goto(w, "idle")
    /\ UNCHANGED <<stored, manifest, index, additions, listed, merged, stale,
                   attempt, history>>

\* The save is acknowledged: what it published is no longer pending.
CommitPending(w) ==
    /\ pc[w] = "delete"
    /\ stale[w] = {}
    /\ additions' = [additions EXCEPT ![w] = {}]
    /\ removals' = [removals EXCEPT ![w] = {}]
    /\ unseen' = [unseen EXCEPT ![w] = FALSE]
    /\ Goto(w, "idle")
    /\ UNCHANGED <<stored, manifest, index, listed, merged, stale, attempt,
                   owed, overtaken, landed>>

\* The process stops, a request fails, the publish timeout passes, a merge is
\* refused or the attempts run out: whatever the writer held is gone.
Crash(w) ==
    /\ pc[w] # "down"
    /\ Goto(w, "down")
    /\ index' = [index EXCEPT ![w] = {}]
    /\ additions' = [additions EXCEPT ![w] = {}]
    /\ removals' = [removals EXCEPT ![w] = {}]
    /\ listed' = [listed EXCEPT ![w] = -1]
    /\ merged' = [merged EXCEPT ![w] = NoShards]
    /\ stale' = [stale EXCEPT ![w] = {}]
    /\ attempt' = [attempt EXCEPT ![w] = 1]
    /\ landed' = [landed EXCEPT ![w] = {}]
    /\ unseen' = [unseen EXCEPT ![w] = FALSE]
    /\ UNCHANGED <<stored, manifest, owed, overtaken>>
-----------------------------------------------------------------------------
Edit(w) ==
    \/ w \in Builders /\ \E r \in Flushed : AddBlock(w, r)
    \/ w \in Compactors /\ \E r \in Compacted, K \in SUBSET Keys : ReplaceBlocks(w, K, r)
    \/ w \in Compactors /\ \E K \in SUBSET Keys : RemoveBlocks(w, K)

Save(w) ==
    \/ BeginSave(w) \/ ListBase(w) \/ ReadBase(w)
    \/ Create(w) \/ CreateConflict(w) \/ CreateUnseen(w)
    \/ PruneList(w) \/ PruneDelete(w) \/ CommitPending(w)

Next ==
    \E w \in Writers : LoadList(w) \/ LoadRead(w) \/ Edit(w) \/ Save(w) \/ Crash(w)

Spec == Init /\ [][Next]_vars
-----------------------------------------------------------------------------
Labels == {"down", "load", "idle", "list", "read", "create", "prune", "delete"}

\* Every variable keeps its type: in particular no save goes past
\* MAX_SNAPSHOT_WRITE_ATTEMPTS, and a pending removal is a pinned record.
TypeOK ==
    /\ stored \in SUBSET Generations
    /\ manifest \in [Generations -> Manifests]
    /\ pc \in [Writers -> Labels]
    /\ index \in [Writers -> SUBSET Records]
    /\ additions \in [Writers -> SUBSET Keys]
    /\ removals \in [Writers -> SUBSET Records]
    /\ listed \in [Writers -> Generations \cup {-1}]
    /\ merged \in [Writers -> Manifests]
    /\ stale \in [Writers -> SUBSET Generations]
    /\ attempt \in [Writers -> 1..MaxAttempts]
    /\ owed \in Manifests
    /\ overtaken \in BOOLEAN
    /\ landed \in [Writers -> SUBSET Records]
    /\ unseen \in [Writers -> BOOLEAN]

\* No shard of a stored manifest and no index in memory holds two records of
\* one key, and a shard holds only records whose span reaches into it: two
\* records of a key written twice are in different shards, and merge_record
\* lets one of them through a load ("Keeping both would make a query read one
\* block twice").
OneRecordPerShard ==
    /\ \A g \in stored, s \in Slots : \A r \in manifest[g][s] :
          /\ s \in r.span
          /\ \A q \in manifest[g][s] : q.key = r.key => q = r
    /\ \A w \in Writers : \A r, q \in index[w] : q.key = r.key => q = r

\* A landed save is never lost: the published index is the fold of every save
\* that landed, in landing order, as long as no create has landed below the
\* newest generation.  This is what lets a builder commit WAL offsets after a
\* save returns (put_manifest_snapshot: "keeps a concurrent writer's blocks in
\* the index instead of silently overwriting them").
LandedSavesVisible == ~overtaken => Published = owed

\* The same without the condition, as the comment on put_manifest_snapshot has
\* it: "two writers that read the same base contend for the same key and
\* exactly one wins".  A create that lands on a generation already pruned wins
\* a second time, and its effect is in no later generation.
EveryLandedSaveVisible == Published = owed

\* The published index only ever moves by one writer's merge into exactly what
\* was published before: no update is lost between two generations, whatever
\* is listed, read, created or pruned in between.
PublishedMovesByMerge ==
    [][Published' # Published =>
         \E w \in Writers : /\ pc[w] = "create"
                            /\ Published' = Merge(w, Published, listed[w] = -1)]_vars

\* A swap is published whole or not at all: a save becomes the newest
\* generation only over a base that holds every record it retires, and none of
\* them is left in it.  So two compactors that replaced the same block cannot
\* both land (merge_tenant_shards: publishing over a changed record "would
\* either hide a live block or double-count a retired one").
SwapIsWhole ==
    [][\A w \in Writers :
          (pc[w] = "create" /\ pc'[w] = "prune" /\ \A h \in stored : h <= listed[w]) =>
             /\ removals[w] \subseteq Held(Published)
             /\ removals[w] \cap Held(Published') = {}]_vars

\* A create lands below the newest generation only when at least Retain
\* generations beyond the one it claims were created while it was under way:
\* what Retain buys a slow writer.
LateCreateIsFarBehind ==
    [][\A g \in stored' \ stored :
          \/ \A h \in stored : h < g
          \/ \E h \in stored : g + Retain <= h]_vars

\* A load fails on a manifest pruned between its listing and its read only when
\* Retain generations were created in between.
LoadFailsOnlyFarBehind ==
    [][\A w \in Writers :
          (pc[w] = "load" /\ listed'[w] # -1 /\ pc'[w] = "down") =>
             \E h \in stored : listed[w] + Retain <= h]_vars

\* One registration of a block puts it into the published index at most once,
\* as long as the writer knows which of its creates landed: a block another
\* writer has since retired does not come back.
AdditionLandsOnce ==
    [][\A r \in Held(Published') \ Held(Published) :
          \E w \in Writers :
             r \in landed'[w] /\ (r \in landed[w] => unseen[w])]_vars

\* The same without the condition, as the comment on PendingBlockAdditions has
\* it: "A write that loses the conditional create publishes nothing".
EveryAdditionLandsOnce ==
    [][\A r \in Held(Published') \ Held(Published) :
          \E w \in Writers : r \in landed'[w] \ landed[w]]_vars
=============================================================================
