# Verification of krabka-o11y

krabka-o11y stores four signals (metrics, logs, traces, profiles) the same way.
Distributors append to a write-ahead log (WAL) on a Kafka-compatible broker and
acknowledge after the append. Block builders read the WAL as a consumer group,
write immutable blocks to an object store, publish them in an index and only
then commit their offsets. Compactors merge, expire and delete blocks. Queriers
read the index, the blocks, and the tail of the WAL for what is not yet in a
block.

What makes such a system hard is that nothing is transactional across these
steps. The object store offers a put, a conditional put, a delete and a listing;
the broker offers offsets and group generations; every process may stop between
any two calls. This directory models the part where that matters most: how
blocks get from the WAL into the index, how the index itself is published, how
anything is ever deleted, how a querier joins blocks and WAL tail, and how the
query frontend lets queries in. All paths below are relative to `src/`.

## Contents

| Module | Models | Run from |
|---|---|---|
| `SnapshotChain` | generation-numbered manifests of a trace or profile index: load, merge, conditional create, prune | `MCSnapshotChain` |
| `ShardPayloads` | the payload objects the manifests name, and the orphan sweep over them | `MCShardPayloads` |
| `TracePipeline` | block builder, object store, published index and compactors, from WAL record to deletion | `MCTracePipeline` |
| `WalGroup` | a consumer group of builders: rebalances, fencing, rewinds, commits, the readiness gate | `MCWalGroup` |
| `LogHandover` | abstract: what the logs compactors promise the queriers | by `LogCompactors` and `LogQuerier` |
| `LogCompactors` | the logs compactors: batches, blocks, group commits, the compaction frontier, log deletes | `MCLogCompactors` |
| `LogQuerier` | a logs querier over `LogHandover`: hot tail, frontier refresher, index cache, queries | `MCLogQuerier` |
| `Admission` | the query frontend's admission queue | `MCAdmission` |
| `SnapshotChainProofs`, `ShardPayloadsProofs`, `TracePipelineProofs`, `WalGroupProofs`, `LogCompactorsProofs`, `LogQuerierProofs`, `AdmissionProofs` | proofs about the module each is named after | `tlapm X.tla` |
| `LogLagProofs` | further proofs about `LogCompactors`: how far the frontier may lag | `tlapm X.tla` |

Each MC module extends its specification and adds the symmetry set, where there is one, and, where a
constant is a function, its values for the instance. A run
is `tlc -workers 2 -config X.cfg MCY`; `PROJECT.json` pairs the two and maps
each definition to the lines it translates.

How they fit together: `SnapshotChain` shows that the chain of manifests behaves
as one register, which is how `TracePipeline` uses the published index and
`LogCompactors` the log index; `ShardPayloads` shows that what the manifests
name stays readable. `TracePipeline` has one partition and one builder, and
`WalGroup` the group of builders around it. `LogCompactors` implements
`LogHandover`, and `LogQuerier` is checked and proved over every behaviour
`LogHandover` allows, so the two together cover a log record from the WAL to the
answer of a query.

Definitions whose comment begins with "Fault:" are not part of any
specification. Each is a small, plausible mistake in the definition that follows
it; `PROJECT.json` names the property that fails when it is put in.

## Inventory

The components, the state each keeps, what changes it, and what is hard about
it. "Modelled by" is empty for what is left out (see the last sections).

| Component | State | Operations | Hard because | Modelled by |
|---|---|---|---|---|
| Index snapshots (`crates/blockstore/src/index_snapshot.rs`, `trace_index/`, `profile_index.rs`) | manifests per generation; pending additions and removals in memory | load, add, replace, remove, save, prune | concurrent writers over a store with one conditional operation; prunes free keys; lost responses | `SnapshotChain` |
| Shard payloads (`index_snapshot/sweep_orphan_shard_payloads.rs`) | content-addressed objects, tombstones | put, carry by key, sweep | a sweep decides from a listing that is old by the time it acts | `ShardPayloads` |
| Object store retries (`blockstore/src/retry*`) | none | retried put | a retry can meet its own first attempt | `SnapshotChain` (`CreateUnseen`) |
| Trace block builder (`crates/traces/src/blockbuilder`) | buffer, position | poll, write, save, commit | a crash replays; keys are deterministic so a replay meets its own block | `TracePipeline`, `WalGroup` |
| Trace compactor (`crates/traces/src/compactor`, `bin/krabka-traces/role_runners.rs`, `blockstore/src/lifecycle.rs`) | an index per pass | compact, expire, save, delete, sweep | every step may be the last one; deletes are unconditional | `TracePipeline` |
| Group assignment and catch-up gate (`crates/observability/src/wal_group_assignment`) | assignment, unapplied records, gate | observe, fence, rewind, settle | eager rebalances give partitions back and forth under a member that is writing | `WalGroup` |
| Profiles builder and lifecycle (`crates/profiles`) | as for traces, plus symbol databases | as for traces | as for traces, one more object per block | index only, by `SnapshotChain` and `ShardPayloads` |
| Logs compactor, frontier, hot tail (`crates/observability/src/compactor`, `wal/hot_tail`) | frontier manifest, index shards (generation chains), tail buffer | compact, commit, advance frontier, prune | commit and frontier are two writes; the frontier object is last writer wins; a query reads three things that move | `LogCompactors`, `LogQuerier` |
| Log deletes (`crates/observability/src/deletes*`) | delete requests, materialization state | submit, cancel, materialize | requests change while a pass applies them | submit and materialize, in `LogCompactors` |
| Metrics compactor (`crates/metrics/src/compactor`, `manifest_catalog.rs`) | one manifest per block, deferred deletes | compact, retire, expire, erase | a swap is several writes | |
| HA election (`crates/metrics/src/distributor/ha*.rs`) | lease per cluster, compacted topic | elect, replay | each distributor has its own view | |
| Ruler (`crates/metrics-service/src/ruler_lease.rs`, `run_fenced_ruler_evaluation_loop.rs`) | lease, token, transaction, published state | advance, evaluate, commit, publish | lease loss in the middle of an evaluation | |
| Query admission (`crates/query-frontend/src/admission.rs`) | queue, usage in total and per tenant | acquire, cancel, release, reload | bypass rule, wake-ups | `Admission` |
| Query cache and fan-out (`crates/query-frontend/src/{cache,execute}.rs`) | entries, byte counts | get, put, expire, invalidate | two mutexes | |
| Supervision (`crates/observability/src/supervision*`, `readiness*`) | task states, gates | start, fail, drain in stages | order and timeouts of a stop | gate only, by `WalGroup` |
| Live stores (`crates/traces/src/livestore`, `crates/profiles/src/hot_store`) | window over the WAL tail | ingest, evict | | |
| Metrics generator (`crates/traces/src/metricsgen`) | half-open edges, checkpoint | pair, expire, checkpoint | checkpoint against offsets | |
| Planners (`crates/blockstore/src/compaction.rs`, `crates/verified`) | none | plan, overlap, retain, shard | boundaries | one rung, in `TracePipeline` |
| Query languages, block formats, HTTP, security | none shared | | | |

`PROJECT.json` lists the hazards of this code at the line where each one bites,
with the property that would catch it.

## The models and the code

### SnapshotChain

A manifest is cut into shards on a grid of time slots, and each shard holds block
records. A record is an object key, the slots its time span reaches into, and a rank:
its place in `TraceRecordOrder`, which tells records of one key apart as their
fingerprints do. A record is in every shard of its span. One tenant is modelled,
since tenants are merged independently of each other. `Builders` register records of
`Flushed`, `Compactors` replace and remove blocks and register records of
`Compacted`.

| Action | Code |
|---|---|
| `LoadList`, `LoadRead` | `load_latest_snapshot_or_empty`: list, then read the newest; it may be pruned in between |
| `AddBlock`, `ReplaceBlocks`, `RemoveBlocks` | `add_trace_block`, `replace_trace_blocks`, `remove_trace_blocks`, with the pending additions and pinned removals they record |
| `BeginSave`, `ListBase`, `ReadBase` | one attempt of `put_manifest_snapshot`: list, read the base, merge (`Merge`, `Contributed`, `Refused` are `merge_tenant_shards`) |
| `Create`, `CreateConflict` | the conditional put succeeds, or reports `AlreadyExists` and the attempt starts over, at most `MAX_SNAPSHOT_WRITE_ATTEMPTS` times |
| `CreateUnseen` | the put lands and its response is lost; the retrying store's second put then meets it (`CreateConflict` of the same writer) |
| `PruneList`, `PruneDelete` | `prune_old_index_snapshots`: one listing, then deletes oldest first |
| `CommitPending` | the save returns and pending changes are forgotten |
| `Crash` | the process stops, or any error leaves the save |

Every error of a save is `Crash` because of what the callers do with it: the
builder's role ends, and the compactor drops the index it was saving and loads
a new one for its next pass.

A merge reads and rewrites only the shards that its own records touch (`Touched`,
`Merge`). A key that is registered again with another span, as a builder's replay can
do when its window closes elsewhere, may therefore leave the old record behind in a
shard that is carried unread: a manifest can hold two records of one key, in
different shards. `OneRecordPerShard` is what does hold. A load then keeps the record
of the key that is greatest by its timestamps (`Loaded`), which need not be the one
registered last, and a removal is refused when the first touched shard with the key
holds the other record (`Refused`), although the pinned one is in the manifest.
`crates/blockstore/src/index_snapshot.rs:638-639` takes for granted that a record "can
only be in one of" the shards met by the new spans. The profile index looks for the
pinned record in all touched shards; otherwise it is the same.

Four history variables serve the properties: `owed` folds every landed save in
landing order, `overtaken` records that a create landed below the newest
generation, `landed` what each registration has already contributed, and `unseen`
that a create of the writer landed and the writer does not know.

### ShardPayloads

The same chain seen from its payloads. A manifest names one content per slot; a
payload object is keyed by slot and content. `Merge` picks any content for the
slots it touches, `PutPayload` writes what the base does not already name,
`Create` claims the generation and prunes, and each `SweepInterval`-th
generation runs `SweepListManifests`, `SweepReadManifest`, `SweepListPayloads`,
`Reclaim`, `SweepDone` (`sweep_orphan_shard_payloads`). `Tick` is time: objects
age up to `Grace`, a publication may take up to `PublishTimeout`, and a sweep's
reads up to `SweepBudget`. The last of these is an assumption
(`GraceAssumption`: `PublishTimeout + SweepBudget < Grace`); in the code the
timeout is five minutes and the grace an hour, and the reads are not bounded.

`FreshVersions` says what an object's version is made of. The precondition of a
tombstone compares the ETag and the version of the listing. Where every put makes a
new version (`TRUE`), a payload that is written again is off every sweep's list. Where
the version is derived from the bytes (`FALSE`: the ETag of an S3 object, in a bucket
without object versions), it is not, since a payload's key fixes its bytes: what is
written again has the version it had. Both runs use `FALSE`, which is the store that
`docs/disaster_recovery.md:34` names for the trace index; the theorems hold for both.

### TracePipeline

This composes the builder, the object store, the index and the compactors. The
index is one register that a save reads and writes in a single step: that is
what `SnapshotChain` establishes of the chain behind it (see `NoLostUpdate`
below, and its exception). A block's key fixes its records, as in the code: a
builder's key is its offset range, a compacted key is derived from its input keys
and the version each input object had.

| Action | Code |
|---|---|
| `Append`, `Expiry`, `GrowOld` | the distributor's append; time passing |
| `Poll`, `WriteBlock`, `SaveIndex`, `CommitSync` | `blockbuilder/run.rs`, `flush.rs`: strictly in this order |
| `BuilderCrash`, `BuilderRestart` | any error ends the role; a new process starts from the committed offset |
| `LoadIndex`, `CompactJob`, `InputMissing`, `Expire` | the first half of `run_compactor_once` |
| `PublishPass`, `RefusePass` | its save, which is refused when a removal's record is not in the base |
| `DeleteRetired`, `DeletesDone` | `delete_blocks`, one object at a time, some of which may fail |
| `SweepList`, `SweepDelete`, `PassDone` | `reconcile_orphans`: objects unknown to the pass's own index and old when the pass started |
| `PassFails` | a compactor stops anywhere in a pass |

`PromptPublish` is an operating assumption: a block, once written, is published
before it outlives the sweep's grace, restarts of the builder included. Without
it (`FALSE`), a builder that is down for longer than the grace between writing
and publishing has its rewritten block deleted by a sweep that listed the old
object, and TLC finds `CommittedDurable` violated.

### WalGroup

`Rebalance` is the broker's: it revokes everything and assigns again (eager
protocol). Members that are polling take part; a member that is writing is
overtaken and its commit is refused (`CommitRefused`), which ends its role.
`Poll` is one turn of the loop up to the merge: the listener fences the buffers
of revoked partitions (`Kept`), rewinds partitions that come back to the
committed offset (`Resume`), and `Observe` is `WalAssignmentWatch::observe` with
the gate's flags. `TakeWindows`, `FlushWindows`, `CommitSync` are the flush, and
`Applied` is `observe_applied`. The broker and the consumer client are not part
of the repository and are modelled from how it uses them.

### LogHandover, LogCompactors

`LogHandover` has three variables: the end of each partition, the records a
listed block holds, and the frontier object. Listed records stay listed, and a
put of the frontier covers listed records only. Nothing else is promised: in
particular the frontier may go back, because a put overwrites the whole object
with what one compactor has in memory. `LogCompactors` is the loop behind it, in
`crates/observability/src/compactor`. Under the refinement mapping a record counts
as listed when a block of the index holds it or an active delete request names
it.

| Action | Code |
|---|---|
| `Produce`, `Rebalance` | the distributor; the broker |
| `DeleteRequest`, `Top` | a request becomes active; `materialize_log_deletes_before_compaction` at the top of every turn |
| `Poll`, `StartCompaction` | `poll_accumulated_log_compaction_records`, with fenced and rewound partitions; the window closes |
| `WriteChunk`, `ChunkFails` | one chunk of `wal_compaction_chunks` becomes a block; an error before or after the index update puts the whole batch back |
| `Commit`, `CommitRefused` | `commit_compacted` once per partition of the batch; an overtaken generation ends the role |
| `PersistFrontier` | `advance_and_persist_compaction_frontier`, retried until the put is known to have landed |
| `Crash`, `Restart` | the process stops; a new one starts from the stored frontier |

### LogQuerier

The poller (`TailAppend`, `TailSnapshot`, `TailPrune`) and the refresher
(`RefreshRead`, `RefreshReplace`, `RefreshPrune`) change the hot tail and the
frontier while queries run. A query captures a frontier with its version
(`Capture`), attaches to the index cache of that version (`Attach`), loads the
index from it or from the store (`Load`, `Insert`), reads the tail (`ReadTail`)
and starts over if the version has moved meanwhile (`Answer`): the loop of
`with_request_tenant_index_and_hot_range`. `Expire` is the cache's TTL. The
history in `due` is what the tail had shown by the time it was read, and is what
the answer owes.

### Admission

Every step is one hold of the controller's mutex or one call of its `Notify`.
`Resolve`, `Enqueue`, `Listen`, `TryAdmit`, `Wake` are `acquire_with_limits`;
`Cancel` is the waiter's drop, `Release` the permit's, and both end in
`NotifyWaiters`; `Reload` replaces the limits. Each request runs several batches
of subqueries and queues for each one. Sums are checked against `UsizeMax`, as
`checked_add` does.

## What the runs check

### Runs that pass

| Run | Instance | Shows |
|---|---|---|
| `chain` | 1 builder that registers one key with two spans, 1 compactor with one output, 2 slots, `Retain` 2, 2 attempts, generations 0..2, lost responses | `LandedSavesVisible`: the published index is the fold of all landed saves. `PublishedMovesByMerge`: no update is lost between generations. `OneRecordPerShard`: a shard has one record of a key. `SwapIsWhole`: a swap that lands found all it retires and leaves none of it in the shards it touches. `AdditionLandsOnce`: a retired block does not come back, unless a response was lost. `LateCreateIsFarBehind`, `LoadFailsOnlyFarBehind`: how far behind a create or a load must be to go wrong. |
| `payloads` | 2 writers, 1 slot, 2 contents, `Retain` 2, sweep every 2nd of generations 0..4, timeout 1, budget 1, grace 3 | `RetainedPayloadsIntact`: every payload a retained manifest names is readable, but for the two cases below. |
| `pipeline` | 1 compactor, 2 records, both of which may expire, 1 builder crash, 1 compactor failure, fairness | `CommittedDurable`: no committed record inside the retention window is lost. `CopiesBoundedByCrashes`: a record is published once, plus once per crash. `EverythingCommitted`, `PassesCompleteUnlessStuck`, `OrphansReclaimed`: liveness. |
| `pipeline_two` | 2 compactors, 3 records, 1 expiry, no crash or failure | `CommittedDurable`, no copy at all, and `PublishedObjectsExist`: every key in the index has its object. |
| `group` | 2 members, 2 partitions, 1 record each, 3 generations, 1 crash, fairness | `CommittedPublished`, `BufferIsItsRange`, `CommitsOnlyAdvance`, `ReadyMeansAppliedUnlessRewound`; `RecordsCommitted` and `GatesReopen`: liveness. |
| `logs_compactors` | 2 compactors, 2 partitions, 2 records each, a chunk per record in one and a shared chunk in the other, 1 delete request, 1 crash and the rebalances it forces | `CompactedMeansListed`: nothing committed or covered by a frontier is missing from the blocks. `LagIsExplained`: a record that is served twice, from a block and from the tail, is waiting for a frontier put, or a crash or a stale put has lost that put. `ImplementsHandover`: the refinement. |
| `logs_querier` | 1 partition, 1 record, 2 concurrent queries, 3 frontier versions, any behaviour of `LogHandover` | `AnswersAreComplete`: an answered query has every record the tail had shown. `CacheKeepsUp`: the shared index is never behind the frontier that prunes the tail. |
| `admission` | 3 requests of 2 tenants, two sizes, one request with two batches, one with limits of its own, 1 reload, `UsizeMax` 3, fairness | `UsageIsExact`, `WorkWithinLimits`, `SleepersHaveAWaker`, and `EveryRequestEnds`: liveness. |

Some properties carry a condition, because the code has a sequence of steps after
which they do not hold. The history variables `overtaken`, `unseen`, `blind`,
`restored`, `rewound` and `lapsed` record exactly that such a sequence has happened,
and `PassesCompleteUnlessStuck` and `OrphansReclaimed` assume that the index does not
keep what stops every pass (`Unobstructed`):

* `overtaken`: a create landed below the newest generation (`chain_overtaken`
  below).
* `unseen`: a create landed and its response was lost (`chain_ambiguous` below).
* `blind` (`ShardPayloads`): a sweep skips a listed manifest that was pruned
  before it read it. When that was the newest one it listed, it knows nothing of
  the payloads the newer manifests carry by key, and may reclaim them.
* `restored` (`ShardPayloads`): a payload was put again while a sweep had it on its
  list, and the version it was listed with is still the current one. The sweep takes
  it. A later put under no sweep's eyes ends the exception for that payload.
  `payloads_restored` below is about both.
* `rewound` (`WalGroup`): a rebalance that gives a member back exactly what it had
  rewinds it without resetting `caught_up_after_apply`, and the next flush opens
  the gate before the replay is durable.
* `lapsed` (`LogCompactors`): a compactor stopped between its commit and its
  frontier put, or put a frontier older than the stored one. The records stay
  in the tail beside their block until the partition is compacted again.
* The missing object (`TracePipeline`): a replayed block is published again while
  the compactor that retired it is still in its delete loop. Deletes are
  unconditional and a replay reuses the key, so the index then names a missing
  object; the planner keeps picking it and no pass completes (`PassesComplete`
  fails). It takes a crash of the builder between its index save and its commit.
* The doomed job (`TracePipeline`, `DoomedJob`): a published job whose inputs are all
  outside the retention window. Every pass merges them, expires the output and has its
  save refused (`pipeline_expiry` below), until a block that is inside the window joins
  the job; if none does, no pass completes, nothing else is compacted or expired and no
  orphan is swept.

To see one of these, drop the condition from the property and run its
configuration again.

### Runs that show a disagreement

These check one property each, worded after a comment, a document or a test of
the repository, and TLC finds a behaviour of the modelled code that violates it.

| Run | Property | Behaviour |
|---|---|---|
| `chain_overtaken` | `EveryLandedSaveVisible` | A writer reads base g and is overtaken by more than `Retain` generations. The prune has freed the key of g + 1; its conditional create succeeds, the save returns `Ok`, and no later generation holds its blocks. With the default retention the writer must be that slow; `LateCreateIsFarBehind` says exactly how slow. |
| `chain_ambiguous` | `EveryAdditionLandsOnce` | A create lands, its response is lost, the retry reports `AlreadyExists`, and the save merges again. A block that a compactor retired in between is contributed a second time. |
| `payloads_restored` | `EveryRetainedPayloadIntact` | A sweep lists a payload that an abandoned save left behind. Another save, which has come to the same bytes, puts it again; the listed ETag is still the current one, the tombstone replaces it, and the manifest created next names a tombstone. `sweep_orphan_shard_payloads.rs:40-42` says the precondition fails and the bytes survive; its test puts other bytes under the key, which no writer does. The same property is refuted in a second way, by a blind sweep, against the comment at lines 67-68: set `FreshVersions = TRUE` and `Retain = 2` in the configuration, and TLC shows a sweep that lists generation 0, reads it after generations 1 and 2 were created and 0 was pruned, and reclaims the payload both of them carry. |
| `pipeline_expiry` | `SolePassNeverRefused` | A pass merges two blocks and the output is itself expired: its removal is pinned although it was never published, and the save is refused. The next pass does the same, which is why the liveness properties except it. |

### Bounds, and why they are enough

Every bound is a constant named `Max...` or one of the small sets above, and
appears in a guard.

* Two writers, members or compactors (in `chain` one of each role): every property
  here is about a pair, one that acts and one whose view is out of date. The others
  reach a writer only through what is stored, which one peer can change any number of
  times.
* Generations: what matters is the distance between a base and the newest
  generation against `Retain`. Two or three generations beyond the first, with
  `Retain` 1 or 2, reach both sides of it: the overtaken create needs exactly
  `Retain + 1` and is found. The proofs drop these bounds altogether.
* One key with a narrow and a wide span, in two slots, reaches everything a
  rewrite of a key can do: the wide record replaces the narrow one, the narrow one
  leaves part of the wide one behind, and pins no longer match. The compactor's output,
  over both slots, gives swaps and additions beside removals. Two compactors that swap
  the same blocks are in `pipeline_two`, where a save that ignores the pins breaks
  `CopiesBoundedByCrashes`, and in the theorem `SwapsAreWhole`, for any writers.
* Ages and times are counted up to the first value that nothing tells apart from
  a larger one. A grace of 3 is the least that satisfies `GraceAssumption` with
  a timeout and a budget of 1, so the margin is as thin as it can be.
* Two records give blocks of one and two records, a replay that overlaps a published
  block, and a job that expires as a whole or in part. One crash gives a replay, one
  failure a torn pass; with one of each they also combine. `pipeline_two` has three
  records, so that a compaction has an uncompacted block beside it, and the safety
  properties of both runs are proved for any number.
* One record in each of two partitions reaches every order of fence, rewind and
  commit across partitions. An instance of one partition with three records and
  four generations has been checked as well, without a violation, and the proofs
  drop the bound.
* Two partitions of two records give a logs compactor batches of several chunks,
  chunks of several records, and descriptors of two partitions to persist. The
  one crash lets another compactor take a partition over with an older frontier
  in memory, which is how the frontier goes back.
* One log record is all a query can lose, and three versions of the frontier let
  it advance, go back and advance again under a query; two queries share the
  cache. The proof drops all of these bounds.
* Three requests are one that runs, one that sleeps and one that passes it; the
  sizes and limits are such that the total and the tenant's limit each keep two
  of them apart.

Symmetry is used for interchangeable writers, contents, compactors and queries, in runs without liveness properties only. Deadlock is
checked in every run but `admission`, whose finitely many requests all end.

### Fairness

`SnapshotChain` and `ShardPayloads` make no fairness assumption. `TracePipeline`
assumes weak fairness of the builder's steps, of each compactor's pass steps and
of objects growing old; `WalGroup` of each member's steps; `Admission` of each
request's steps other than its cancellation. The log modules assume none. The code justifies
them: both roles are endless loops, the compactor runs on an interval and
survives a failed pass, a role that exits is started again (the deployments under
`deploy/` restart it), a task of the frontend is scheduled again and its batch
comes to an end, and time passes. A call to the store or to the broker is
assumed to return, with a result or with an error. Nothing is assumed of crashes, failures,
appends or rebalances; the bounds on them say that they stop, which is what
"once appends stop" means in the liveness properties.

## What is proved

Each theorem holds for every value of the constants that satisfies the named
assumptions of its module: any number of writers, compactors, partitions,
records and requests, and any bounds. The few that need more say so. Every
invariant and every action property that a passing run checks has its theorem.

| Theorem | Statement | In words |
|---|---|---|
| `SnapshotChainProofs`: `TypeCorrect` | `Spec => []TypeOK` | types; no save exceeds its attempts |
| `LandedSavesStayVisible` | `Spec => []LandedSavesVisible` | the published index is the fold of every landed save, until a create lands below the newest generation |
| `NoLostUpdate` | `Spec => PublishedMovesByMerge` | what readers see moves only by one writer's merge into what they saw before |
| `LateCreates` | `Spec => LateCreateIsFarBehind` | a create lands below the newest generation only when `Retain` generations beyond its claim exist |
| `FailedLoads` | `Spec => LoadFailsOnlyFarBehind` | a load loses its manifest only to `Retain` newer generations |
| `SwapsAreWhole` | `Spec => SwapIsWhole` | a swap lands over a base that holds all it retires, and leaves none of it |
| `RecordsAreUnique` | `Spec => []OneRecordPerShard` | no shard of a stored manifest and no loaded index has two records of one key, whatever spans a key is registered with |
| `AdditionsLandOnce` | `Spec => AdditionLandsOnce` | a registration is published once, unless the response of a create that published it was lost (`chain_ambiguous` shows why) |
| `ShardPayloadsProofs`: `PayloadsStay` | `Spec => []RetainedPayloadsIntact` | whatever versions are made of, no sweep takes a payload a retained manifest names, until one is blind, except a payload whose last put left a sweep's version current |
| `ShardPayloadsProofs`: `TypeCorrect` | `Spec => []TypeOK` | types; no save or sweep runs past its time |
| `TracePipelineProofs`: `CommittedStay`, `ObjectsStay` | `Spec => []CommittedDurable`, `[]PublishedObjectsExist` | if the builder does not crash (`MaxCrashes = 0`) and blocks are published within the sweep's grace (`PromptPublish`), no record inside the retention window is lost and no published block lacks its object, beside any number of compactors |
| `CommittedSurvive` | `Spec => []CommittedDurable` | beside one compactor (or none), and with `PromptPublish`, no committed record inside the retention window is lost through any number of crashes, replays, failed passes and failed deletes |
| `NoCopies` | `Spec => []CopiesBoundedByCrashes` | a record is published at most once more than the builder crashes, for any compactors and any crashes, prompt or not |
| `TracePipelineProofs`: `TypeCorrect` | `Spec => []TypeOK` | types, for any number of crashes: keys name ranges of the log and versions that were written, a range is written at most once more than the builder crashes, and a pass that has ended holds nothing |
| `WalGroupProofs`: `CommitsArePublished`, `BuffersAreRanges`, `CommitsAdvance`, `ReadyIsCaughtUp` | `Spec => []CommittedPublished`, `[]BufferIsItsRange`, `CommitsOnlyAdvance`, `[]ReadyMeansAppliedUnlessRewound` | commits never pass an unpublished record and never go back; a block's key names what it holds; a ready gate means the catch-up is durable, unless rewound |
| `WalGroupProofs`: `TypeCorrect` | `Spec => []TypeOK` | types; nobody reads, publishes or commits beyond the end of the log |
| `LogCompactorsProofs`: `CommittedIsListed` | `Spec => []CompactedMeansListed` | nothing committed or covered by any frontier is missing from the blocks |
| `LogCompactorsProofs`: `Refinement` | `Spec => ImplementsHandover` | the compactors keep the promise of `LogHandover` |
| `LogLagProofs`: `LagExplained` | `Spec => []LagIsExplained` | whatever is committed and listed but not covered by the frontier object has a live compactor that still owes the put, or its partition was left behind by a crash or a stale put |
| `LogLagProofs`: `TypeCorrect` | `Spec => []TypeOK` | types |
| `LogQuerierProofs`: `CompleteAnswers`, `CurrentCache` | `Spec => []AnswersAreComplete`, `[]CacheKeepsUp` | no query misses a record that the tail had shown |
| `LogQuerierProofs`: `TypeCorrect` | `Spec => []TypeOK` | types |
| `AdmissionProofs`: `SleepersWake` | `Spec => []SleepersHaveAWaker` | no wake-up is lost |
| `AdmissionProofs`: `UsageExact`, `WithinLimits` | `Spec => []UsageIsExact`, `[]WorkWithinLimits` | the usage counters are what the permits hold, in total and per tenant; and what runs is within the limits of one of the requests that run |
| `AdmissionProofs`: `TypeCorrect` | `Spec => []TypeOK` | types |

### The arguments

None of these is inductive by itself. Each proof has an inductive invariant, which
TLC checked on small instances before it was proved, one lemma per action or
group of actions, and a last step that is temporal.

**`ChainInv`**: that a create merges into what is published depends on what the
writer read some steps ago, and on the prunes since. It is the conjunction of

* `TypeOK`;
* `NewestExists`: as soon as anything is stored there is a newest generation
  (a prune never empties the store);
* `Window`: the newest `Retain` generations are all stored;
* `StaleBelowWindow`: what a prune has still to delete lies `Retain` or more
  below some stored generation, however old its listing is;
* `ListedNotAhead`: nothing a writer has listed is above the newest generation,
  pruned or not, so the chain never moves back;
* `MergedIntoBase`: as long as a writer's base is still the newest generation,
  what it is about to create is its merge into what is published;
* `LandedSavesVisible`.

The heart is a case split on a create that lands on g + 1. If g is still the
newest generation, `MergedIntoBase` makes the new manifest a merge into what is
published (`LandInTurn`). If it is not, g + 1 is at most the newest generation and
is free, so by `Window` it lies `Retain` or more below it, readers see no change,
and `overtaken` is set (`LandLate`). A prune keeps the window because it deletes
below it only (`DeleteStep`), and that a generation with `Retain` stored ones
above it lies that far below is the counting lemma `StaleIsFarBehind`. All other
steps create and delete nothing (`QuietStep`). `SwapsAreWhole` needs one more fact,
that no key is pending both as an addition and as a pinned removal
(`PinsNotPending`, kept by `PinsStep`); otherwise a merge could bring back the
very record it retires. `RecordsAreUnique` follows from `KeysDistinct`, which asks the
same of every shard of a manifest and of a merge on its way, and of every index. `AdditionsLandOnce` rests on
`NothingTwice`: what a writer has had published is no longer pending, except
between its create and the acknowledgement, when it publishes nothing, or when it has
lost the response and goes back to merging (`unseen`).

**`PayloadInv`** (`ShardPayloads`): the stored manifests are a window below the
newest one. A save that may still name a payload has put it since it merged,
so it is young and has its bytes or is `restored` (`Written`), or has taken it over
from its base, which then names it too (`Carried`). A sweep that has not found a payload named so far either finds it
too young, or has still to read the newest manifest it listed, which names it
(`Reads`): this is where `GraceAssumption` is used, and where a manifest that is
pruned under the sweep sets `blind`. So what it reclaims nobody names, nor will,
other than by taking it over, unless it was put again since the listing and is
`restored` (`Reclaims`).

**`PipelineInv`** (`TracePipeline`): without crashes the builder writes disjoint
ranges in order, each once (`Ordered`, `Placed`), and the published blocks
cover them and share none (`Sound`). A pass accounts for everything it retires,
by an output or by the retention cutoff (`Merges`). The hard part is the orphan
sweep of one compactor against the outputs of another, which are not published
yet and may even be left over from a torn pass, under the same key. An output whose
inputs are no longer all published is doomed: its save will be refused, so
anybody may delete it. One that is not doomed is young, or was written again
since (`Merges`); and if a sweep still held it as old, its inputs would be in the
sweeping pass's own index, where two blocks of one time bucket are a job, but a
pass sweeps only when it has no jobs left (`Sweeps`, `SweepListKeeps`). A key
that a pass is about to delete is not published and never will be (`Deletes`).
With crashes a replay republishes keys, and the last claim is false: see the
missing object above.

**`DurableInv`** (`TracePipeline`) is the argument with crashes, when there is one
compactor. Ranges overlap now and a published built block may lack its object, so
the invariant asks less of built blocks and everything of merged ones: a published
merged block exists, and a built block that is deleted is `Backed`, which means that
published merged blocks hold what the retention window leaves of it, or `Dead`, which
means that it is not published and starts below the committed offset, so that no
replay will publish it. Both last: a save replaces a merged block by others with the
same records, and the builder publishes only ranges that start at the committed
offset. What a sweep has found old is still in its index, about to be replaced, or one
of the two (`Settles`). This uses that nobody else changes the index between a pass's
load and its sweep. **With two compactors and crashes it is false**, and so is
`CommittedDurable`. The script that TLC followed has 54 steps, 3 records, 5 crashes
and 3 failures. Three ranges that start at one uncommitted offset are published by
builders that crash before the commit. A compactor merges all three and fails; the
merged object grows old. The other, which loaded only two of them, publishes the
merge of those two, fails to delete them, and in its next pass lists the first
merged object as an orphan. The first compactor, whose new pass has the three blocks
in its index, writes that object again under the same key. The builder, started
again, replays the three ranges and commits, so the save of the first compactor
finds every record it retires. Then the sweep deletes its output and it deletes its
inputs. `ObjectsStay` and `CommittedStay` hold for any number of compactors because
without crashes ranges do not overlap.

**`CopyInv`** (`TracePipeline`): every copy of a record costs the builder a crash.
A record at or above `Bound`, which the builder has still to publish, has at most
`crashes` copies, so the save that publishes it stays within `crashes + 1`
(`Counted`). A pass replaces copies one for one: its outputs hold only built blocks it
retires, each once (`Accounts`), and a save is refused unless everything retired is
still published. So the copies that a save adds inject into those it removes
(`SwapCounts`).

**`TypeInv`** (`TracePipeline`) does without that assumption. What needs an
argument is how often a range is written (`BuilderTypes`): a range that starts
where the builder has not yet committed has been written at most once per crash,
so the write that follows is within `crashes + 1`, and a commit moves on to ranges
that were never written. Versions in merged keys are bounded by it, and keys only
move between the index, the objects and the passes (`PassTypesStep`).

**`GroupInv`** (`WalGroup`): as long as no rebalance has overtaken a member, its
buffer is exactly what it has read past the commit, in order (`Holds`); once
overtaken, its commit is refused. `Watches` says what the flags of the assignment
watch stand for. `WithinLog` adds that positions, also those of members that
have been overtaken, stay within the log.

**`CompactorInv`** (`LogCompactors`): what a compactor has polled and not written is in the
rest of its batch (`Pending`), the batch has each partition's records in order
(`InOrder`) and ends where polling stopped (`UpTo`). So when the last chunk is
written every polled position is covered by blocks, in whatever order
chunks failed and were written again, and whatever a descriptor or a frontier in
memory claims is covered (`Claims`), stale or not. Materialized deletes keep this because a
deleted row counts as covered. The refinement follows: an index update adds to
what is listed, and a frontier put covers listed records only.

**`LagInv`** (`LogCompactors`, over `CompactorInv`): `CompactorInv` says what a
frontier may cover, `LagInv` what it must. A member of the current generation
holds what the broker gave it (`Holds`), and its batch has everything it polled
and has not committed (`InBatch`). What it has written of the batch has a
descriptor, or is deleted (`Described`). So a commit, which takes a partition to the
polled position, owes only what the descriptors already reach, and the compactor
stays `Paying` until the put. Each committed record is then `Excused`: covered,
deleted, reached by somebody who is paying, or in a partition that `lapsed`. A
crash or a put of a stale frontier puts the partitions it fails in `lapsed`; this is
where `LagIsExplained` is as weak as the code.

**`QuerierInv`** (`LogQuerier`): the index that any user of the current frontier version
holds, cached or captured, has everything a prune dropped or may still drop
before the next version (`Holds`, `Fits`). This is why a late load must not fill a newer
generation of the cache.

**`SleepInv`** (`Admission`): the queue holds each waiting request once, and a sleeper
that could be admitted has a waker. Admissions wake nobody, but can only make
others wait longer; what makes room ends in a notification.

**`UsageInv`** (`Admission`): the counters and the sums agree (`Exact`), and the
last of the running requests to be admitted checked the sum against its own
limits, which a release of another one can only lower (`Bounded`). When that
request ends itself, the one admitted last among the others takes its place, so
`Bounded` is stated for every set of running requests. The sum over a set
of requests is the number of units they hold (`Used`), so that the library's
theorems on cardinalities apply.

### Only model-checked

* Every liveness property (`EverythingCommitted`, `PassesCompleteUnlessStuck`,
  `OrphansReclaimed`, `RecordsCommitted`, `GatesReopen`, `EveryRequestEnds`).
  Fairness and `ENABLED` are outside what the prover supports.
* The properties of the runs that show a disagreement: they are false of the code.

## What could come next

* The metrics compactor's catalog, with one manifest per block and deferred
  deletes: readers see every sample throughout a swap.
* The ruler's lease, fencing token and transactional output; the election of HA
  replicas through a compacted topic.
* `CommittedDurable` of `TracePipeline` with several compactors and crashes: what the
  code would have to promise (a merged key that names the pass, say, or a sweep that
  lists the versions it deletes) for it to hold.
* The planner of `crates/blockstore/src/compaction.rs` and the kernels of
  `crates/verified` against reference definitions over bounded inputs.
* Profiles: the variant of `TracePipeline` with a symbol database per block.
* Staged drain and supervision; the service-graph edge store with its checkpoint.

## What is not modelled

* Query languages, block formats and codecs, HTTP and gRPC, configuration:
  sequential functions over large data, or plumbing without protocol state. The
  repository tests them against conformance corpora and fuzzes them.
* Request validation, limits and sharding in the distributors: an append is one
  step here.
* Offline tools (recovery, storage audit, erasure): they run on a quiesced store.
* The metrics compactor and WAL consumer, HA election, the ruler, the query cache,
  the live stores, the metrics generator and the staged drain: `PROJECT.json`
  gives the reason for each.
* In the log modules: the retention sweep, the local-manifest mode, requests to
  delete that are cancelled, and time ranges of queries. A poll with a record that does not
  decode drops the whole poll from the hot tail, and the model has it so
  (`TailAppend`); the records are served once they are in a block.
* In `Admission`: the wording of errors and `retry_after`. Requests are finitely
  many; with an endless stream of small ones the bypass rule can keep a large
  one waiting, which is what the code allows and no property here excludes.
* Within what is modelled: several tenants in one index; the caps of the
  compaction planner and its upper rungs; size limits on manifests; partial
  listings of an object store (a listing is one step); clock skew between
  processes.

The repository has verification of its own: Creusot contracts for the kernels in
`crates/verified`, and Stateright models of the storage, snapshot and deletion
protocols in `crates/metrics/tests` (see `docs/verification.md`). The modules here
differ in what they include: prunes and sweeps that interleave with saves, lost
responses, rebalances, liveness, and proofs without bounds.
