----------------------------- MODULE LogQuerier -----------------------------
(***************************************************************************)
(* A logs querier (crates/observability/src/{wal/hot_tail,querier/state}): *)
(* its poller appends WAL records to the hot tail, its refresher reads the *)
(* compaction frontier and prunes what the blocks took over, and each      *)
(* query joins one frontier, one index and one tail snapshot.  The         *)
(* compactors are what LogHandover promises.                               *)
(*                                                                         *)
(* Abstractions.  An index is the set of records its blocks hold.  The     *)
(* querier's consumer is alone in its group, so its polls never go back.   *)
(* A query covers all records: tenant, time range and delete filters       *)
(* select from both sides alike.                                           *)
(***************************************************************************)
EXTENDS LogHandover

CONSTANTS
    Requests,     \* queries the querier runs at a time
    MaxVersion    \* bound: frontiers the refresher installs

ASSUME MaxVersionAssumption == MaxVersion \in Nat

VARIABLES
    tail,         \* records in the hot tail buffer
    polled,       \* polled[p]: last offset the hot tail's consumer returned
    shown,        \* records ever appended to the hot tail
    poller,       \* the hot-tail poller: "poll", "snapshot" or "prune", and a frontier
    refresher,    \* the refresher: "read", "replace" or "prune", and a frontier
    view,         \* the querier's SharedCompactionFrontier
    version,      \* its version
    cacheVersion, \* version the current index cache generation is for
    cache,        \* the index it holds: a singleton, or empty
    request       \* request[r]: what query r has captured so far

querier == <<tail, polled, shown, poller, refresher, view, version, cacheVersion,
             cache, request>>
vars == <<end, listed, stored, tail, polled, shown, poller, refresher, view, version,
          cacheVersion, cache, request>>

Idle == [pc |-> "idle", version |-> 0, frontier |-> Zero, index |-> {},
         tail |-> {}, due |-> {}]

\* A querier that starts: the frontier it loads is the stored one, here the
\* initial one.
Init ==
    /\ HandoverInit
    /\ tail = {}
    /\ polled = Zero
    /\ shown = {}
    /\ poller = [pc |-> "poll", frontier |-> Zero]
    /\ refresher = [pc |-> "read", frontier |-> Zero]
    /\ view = Zero
    /\ version = 0
    /\ cacheVersion = -1
    /\ cache = {}
    /\ request = [r \in Requests |-> Idle]
-----------------------------------------------------------------------------
(* The querier's hot tail: its poller and its frontier refresher. *)

\* Fault: a poll returns one record past the end.
PollCountsPastEnd(p) == 1..(end[p] - polled[p] + 1)

\* How many records of p a poll may return.
PollCounts(p) == 1..(end[p] - polled[p])

\* poll_log_hot_tail_once_with_frontier: append_records, then a snapshot of the
\* frontier, then prune_compacted.  A poll with a record that does not decode
\* appends nothing, and the consumer is past it.
TailAppend(p) ==
    /\ poller.pc = "poll"
    /\ \E n \in PollCounts(p) :
        LET records == {<<p, polled[p] + i>> : i \in 1..n} IN
        /\ polled' = [polled EXCEPT ![p] = @ + n]
        /\ \/ UNCHANGED <<tail, shown, poller>>
           \/ /\ tail' = tail \cup records
              /\ shown' = shown \cup records
              /\ poller' = [poller EXCEPT !.pc = "snapshot"]
    /\ UNCHANGED <<handover, refresher, view, version, cacheVersion, cache, request>>

TailSnapshot ==
    /\ poller.pc = "snapshot"
    /\ poller' = [pc |-> "prune", frontier |-> view]
    /\ UNCHANGED <<handover, tail, polled, shown, refresher, view, version,
                   cacheVersion, cache, request>>

\* HotTailBuffer::prune_compacted.
Pruned(frontier) == {r \in tail : ~IsCompacted(frontier, r)}

TailPrune ==
    /\ poller.pc = "prune"
    /\ tail' = Pruned(poller.frontier)
    /\ poller' = [pc |-> "poll", frontier |-> Zero]
    /\ UNCHANGED <<handover, polled, shown, refresher, view, version, cacheVersion,
                   cache, request>>

\* refresh_compaction_frontier_and_prune: read, replace, prune.
RefreshRead ==
    /\ refresher.pc = "read" /\ version < MaxVersion
    /\ refresher' = [pc |-> "replace", frontier |-> stored]
    /\ UNCHANGED <<handover, tail, polled, shown, poller, view, version,
                   cacheVersion, cache, request>>

\* SharedCompactionFrontier::replace: only a frontier that differs is a new version.
RefreshReplace ==
    /\ refresher.pc = "replace"
    /\ view' = refresher.frontier
    /\ version' = IF refresher.frontier = view THEN version ELSE version + 1
    /\ refresher' = [refresher EXCEPT !.pc = "prune"]
    /\ UNCHANGED <<handover, tail, polled, shown, poller, cacheVersion, cache, request>>

RefreshPrune ==
    /\ refresher.pc = "prune"
    /\ tail' = Pruned(refresher.frontier)
    /\ refresher' = [pc |-> "read", frontier |-> Zero]
    /\ UNCHANGED <<handover, polled, shown, poller, view, version, cacheVersion,
                   cache, request>>
-----------------------------------------------------------------------------
(* with_request_tenant_index_and_hot_range, the loop of one query. *)

others == <<handover, tail, polled, shown, poller, refresher, view, version>>

\* snapshot_with_version.
Capture(r) ==
    /\ request[r].pc \in {"idle", "answered"}
    /\ request' = [request EXCEPT ![r] =
           [Idle EXCEPT !.pc = "attach", !.version = version, !.frontier = view]]
    /\ UNCHANGED <<others, cacheVersion, cache>>

\* DynamicIndexCache::for_frontier: a newer version starts an empty generation,
\* an older one gets maps of its own that nobody else sees.
Attach(r) ==
    /\ request[r].pc = "attach"
    /\ request' = [request EXCEPT ![r].pc = "load"]
    /\ IF cacheVersion < request[r].version
       THEN cacheVersion' = request[r].version /\ cache' = {}
       ELSE UNCHANGED <<cacheVersion, cache>>
    /\ UNCHANGED others

Attached(r) == cacheVersion = request[r].version

\* with_loaded_tenant_index: the cached index, or the one the store lists.
Load(r) ==
    /\ request[r].pc = "load"
    /\ \/ /\ Attached(r) /\ cache # {}
          /\ request' = [request EXCEPT ![r].pc = "tail",
                                       ![r].index = CHOOSE i \in cache : TRUE]
       \/ /\ ~Attached(r) \/ cache = {}
          /\ request' = [request EXCEPT ![r].pc = "insert", ![r].index = listed]
    /\ UNCHANGED <<others, cacheVersion, cache>>

\* Fault: a late load fills whatever generation is current.
InsertIntoCurrent(r) == TRUE

\* The maps a request inserts into are those of its own version.
InsertIsSeen(r) == Attached(r)

Insert(r) ==
    /\ request[r].pc = "insert"
    /\ request' = [request EXCEPT ![r].pc = "tail"]
    /\ cache' = IF InsertIsSeen(r) THEN {request[r].index} ELSE cache
    /\ UNCHANGED <<others, cacheVersion>>

\* The TTL of a cached index runs out.
Expire ==
    /\ cache # {}
    /\ cache' = {}
    /\ UNCHANGED <<others, cacheVersion, request>>

\* records_shared_in_range.  due: what had ever been in the tail by then.
ReadTail(r) ==
    /\ request[r].pc = "tail"
    /\ request' = [request EXCEPT ![r].pc = "check", ![r].tail = tail,
                                  ![r].due = shown]
    /\ UNCHANGED <<others, cacheVersion, cache>>

\* Fault: the captures are used whatever happened to the frontier meanwhile.
StillCurrentAlways(r) == TRUE

\* The frontier has had the captured version all along.
StillCurrent(r) == request[r].version = version

Answer(r) ==
    /\ request[r].pc = "check"
    /\ request' = [request EXCEPT ![r] =
           IF StillCurrent(r) THEN [@ EXCEPT !.pc = "answered"] ELSE Idle]
    /\ UNCHANGED <<others, cacheVersion, cache>>

\* What a query scans: the rows of the listed blocks, and the tail records its
\* frontier does not cover (append_matching_hot_log_record and
\* append_matching_hot_metric_record).
Cold(r) == request[r].index
Hot(r) == {s \in request[r].tail : ~IsCompacted(request[r].frontier, s)}
-----------------------------------------------------------------------------
Environment == HandoverNext /\ UNCHANGED querier
Poller == (\E p \in Partitions : TailAppend(p)) \/ TailSnapshot \/ TailPrune
Refresher == RefreshRead \/ RefreshReplace \/ RefreshPrune
Query(r) ==
    Capture(r) \/ Attach(r) \/ Load(r) \/ Insert(r) \/ ReadTail(r) \/ Answer(r)

Next ==
    Environment \/ Poller \/ Refresher \/ Expire \/ \E r \in Requests : Query(r)

Spec == Init /\ [][Next]_vars
-----------------------------------------------------------------------------
Progress(steps) == [pc : steps, frontier : Frontiers]
QueryStates ==
    [pc : {"idle", "attach", "load", "insert", "tail", "check", "answered"},
     version : 0..MaxVersion, frontier : Frontiers, index : SUBSET Records,
     tail : SUBSET Records, due : SUBSET Records]

\* Every variable keeps its type.
TypeOK ==
    /\ end \in Frontiers /\ stored \in Frontiers
    /\ polled \in Frontiers /\ view \in Frontiers
    /\ listed \subseteq Records /\ tail \subseteq Records /\ shown \subseteq Records
    /\ poller \in Progress({"poll", "snapshot", "prune"})
    /\ refresher \in Progress({"read", "replace", "prune"})
    /\ version \in 0..MaxVersion /\ cacheVersion \in -1..MaxVersion
    /\ cache \subseteq SUBSET Records
    /\ request \in [Requests -> QueryStates]

\* The index that queries of the current frontier version share from the cache
\* lists everything that frontier covers: a load that began under an older
\* frontier never fills a newer generation, so what pruning drops is cold.
CacheKeepsUp ==
    cacheVersion = version => \A i \in cache : CoveredBy(view) \subseteq i

\* Every answered query returns every record the hot tail had shown by the time
\* it was read, from a block or from the tail, whatever the refresher, the
\* poller's pruning, the index cache and the compactors did in between.
AnswersAreComplete ==
    \A r \in Requests : request[r].pc = "answered" =>
        request[r].due \subseteq Cold(r) \cup Hot(r)
=============================================================================
