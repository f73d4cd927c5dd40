-------------------------- MODULE LogQuerierProofs --------------------------
(***************************************************************************)
(* TLAPS proof that the answers of a logs querier are complete, for any    *)
(* partitions, records, frontier versions and concurrent queries.          *)
(***************************************************************************)
EXTENDS LogQuerier, TLAPS

\* Index i, loaded under the current frontier version, holds whatever a prune of
\* the tail dropped or may still drop before the next version.
Holds(i) ==
    /\ CoveredBy(view) \subseteq i
    /\ poller.pc = "prune" => CoveredBy(poller.frontier) \subseteq i
    /\ shown \subseteq tail \cup i

\* What query r has captured fits together as long as its version is current.
Fits(r) ==
    request[r].version = version =>
        /\ request[r].pc # "idle" => request[r].frontier = view
        /\ request[r].pc \in {"insert", "tail"} => Holds(request[r].index)
        /\ request[r].pc = "check" =>
              /\ CoveredBy(view) \subseteq request[r].index
              /\ request[r].due \subseteq request[r].index \cup request[r].tail

\* The inductive invariant.  Every frontier in flight covers listed records
\* only; what the tail has polled is in the tail or listed; and the same holds
\* for the index, shared or captured, of every user of the current version.
QuerierInv ==
    /\ TypeOK
    /\ CoveredBy(stored) \subseteq listed
    /\ refresher.pc # "read" => CoveredBy(refresher.frontier) \subseteq listed
    /\ refresher.pc = "replace" => version < MaxVersion
    /\ refresher.pc = "prune" => refresher.frontier = view
    /\ Holds(listed)
    /\ cacheVersion <= version
    /\ cacheVersion = version => \A i \in cache : Holds(i)
    /\ \A r \in Requests : request[r].version <= version
    /\ \A r \in Requests : Fits(r)
    /\ AnswersAreComplete
-----------------------------------------------------------------------------
\* The querier starts within its types.
LEMMA InitTypes == Init => TypeOK
  BY MaxRecordsAssumption, MaxVersionAssumption
     DEF Init, HandoverInit, TypeOK, Frontiers, Zero, Progress, QueryStates, Idle

\* Every step stays within the types.
LEMMA TypeStep ==
    ASSUME TypeOK, [Next]_vars, refresher.pc = "replace" => version < MaxVersion
    PROVE  TypeOK'
<1> USE MaxRecordsAssumption, MaxVersionAssumption DEF TypeOK
<1>1. CASE Environment
  <2>1. CASE \E p \in Partitions : Produce(p)
    BY <1>1, <2>1 DEF Environment, querier, Produce, Frontiers
  <2>2. CASE List
    BY <1>1, <2>2, Zenon DEF Environment, querier, List
  <2>3. CASE Put
    BY <1>1, <2>3, Zenon DEF Environment, querier, Put
  <2> QED BY <1>1, <2>1, <2>2, <2>3, Zenon DEF Environment, HandoverNext
<1>2. ASSUME NEW p \in Partitions, TailAppend(p)
      PROVE  TypeOK'
  BY <1>2 DEF TailAppend, handover, PollCounts, Frontiers, Progress, Records, Offsets
<1>3. CASE TailSnapshot
  BY <1>3, Zenon DEF TailSnapshot, handover, Progress
<1>4. CASE TailPrune
  BY <1>4 DEF TailPrune, Pruned, handover, Progress, Frontiers, Zero
<1>5. CASE RefreshRead
  BY <1>5, Zenon DEF RefreshRead, handover, Progress
<1>6. CASE RefreshReplace
  BY <1>6 DEF RefreshReplace, handover, Progress
<1>7. CASE RefreshPrune
  BY <1>7 DEF RefreshPrune, Pruned, handover, Progress, Frontiers, Zero
<1>8. CASE Expire
  BY <1>8, Zenon DEF Expire, others, handover
<1>9. ASSUME NEW r \in Requests, Query(r)
      PROVE  TypeOK'
  <2> USE DEF others, handover, QueryStates
  <2>1. CASE Capture(r)
    BY <2>1, Zenon DEF Capture, Idle, Frontiers, Zero
  <2>2. CASE Attach(r)
    BY <2>2 DEF Attach
  <2>3. CASE Load(r)
    BY <2>3 DEF Load
  <2>4. CASE Insert(r)
    BY <2>4 DEF Insert
  <2>5. CASE ReadTail(r)
    <3>1. shown \in SUBSET Records
      BY Zenon
    <3>2. request'[r] = [request[r] EXCEPT !.pc = "check", !.tail = tail, !.due = shown]
      BY <2>5, Zenon DEF ReadTail
    <3>3. request'[r] \in QueryStates
      BY <3>1, <3>2, Zenon
    <3>4. request' \in [Requests -> QueryStates]
      BY <2>5, <3>3, Zenon DEF ReadTail
    <3> QED BY <2>5, <3>4, Zenon DEF ReadTail
  <2>6. CASE Answer(r)
    <3>1. Idle \in QueryStates
      BY DEF Idle, Frontiers, Zero
    <3>2. CASE StillCurrent(r)
      BY <2>6, <3>2 DEF Answer
    <3>3. CASE ~StillCurrent(r)
      BY <2>6, <3>1, <3>3, Zenon DEF Answer
    <3> QED BY <3>2, <3>3, Zenon
  <2> QED BY <1>9, <2>1, <2>2, <2>3, <2>4, <2>5, <2>6, Zenon DEF Query
<1>10. CASE UNCHANGED vars
  BY <1>10, Zenon DEF vars
<1> QED BY <1>1, <1>2, <1>3, <1>4, <1>5, <1>6, <1>7, <1>8, <1>9, <1>10, Zenon
        DEF Next, Poller, Refresher

\* A step of a compactor, of the poller or of the refresher keeps the current
\* version and what an index holds under it, or moves on to a new version.
LEMMA TasksStep ==
    ASSUME QuerierInv,
           Environment \/ Poller \/ Refresher
    PROVE  /\ UNCHANGED <<cacheVersion, cache, request>>
           /\ \/ /\ version' = version /\ view' = view
                 /\ \A i : Holds(i) => Holds(i)'
              \/ version' > version
           /\ CoveredBy(stored)' \subseteq listed'
           /\ refresher'.pc # "read" => CoveredBy(refresher'.frontier) \subseteq listed'
           /\ refresher'.pc = "replace" => version' < MaxVersion
           /\ refresher'.pc = "prune" => refresher'.frontier = view'
           /\ Holds(listed)'
<1> USE DEF QuerierInv
<1>1. CASE Environment
  <2>1. UNCHANGED querier /\ listed \subseteq listed'
    BY <1>1, Zenon DEF Environment, HandoverNext, Produce, List, Put
  <2>2. CoveredBy(stored)' \subseteq listed'
    <3>1. CASE \E p \in Partitions : Produce(p)
      BY <3>1, Zenon DEF Produce, CoveredBy, IsCompacted
    <3>2. CASE List
      BY <3>2, Zenon DEF List, CoveredBy, IsCompacted
    <3>3. CASE Put
      BY <3>3, Zenon DEF Put, CoveredBy, IsCompacted
    <3> QED BY <1>1, <3>1, <3>2, <3>3, Zenon DEF Environment, HandoverNext
  <2>3. \A i : Holds(i) => Holds(i)'
    BY <2>1, Zenon DEF querier, Holds, CoveredBy, IsCompacted
  <2>4. Holds(listed)'
    BY <2>1, Zenon DEF querier, Holds, CoveredBy, IsCompacted
  <2> QED BY <2>1, <2>2, <2>3, <2>4, Zenon DEF querier
<1>2. CASE \E p \in Partitions : TailAppend(p)
  <2> PICK p \in Partitions : TailAppend(p)
    BY <1>2, Zenon
  <2>1. shown' \subseteq tail' \cup shown /\ tail \subseteq tail'
    BY Zenon DEF TailAppend
  <2>2. \A i : Holds(i) => Holds(i)'
    BY <2>1 DEF TailAppend, Holds, CoveredBy, IsCompacted, TypeOK, Progress
  <2> QED BY <2>2, Zenon DEF TailAppend, handover, CoveredBy, IsCompacted
<1>3. CASE TailSnapshot
  <2>1. \A i : Holds(i) => Holds(i)'
    BY <1>3, Zenon DEF TailSnapshot, Holds, CoveredBy, IsCompacted
  <2> QED BY <1>3, <2>1, Zenon DEF TailSnapshot, handover, CoveredBy, IsCompacted
<1>4. CASE TailPrune
  <2>1. \A i : Holds(i) => Holds(i)'
    BY <1>4, Zenon DEF TailPrune, Pruned, Holds, CoveredBy, IsCompacted, TypeOK
  <2> QED BY <1>4, <2>1, Zenon DEF TailPrune, handover, CoveredBy, IsCompacted
<1>5. CASE RefreshRead
  <2>1. \A i : Holds(i) => Holds(i)'
    BY <1>5, Zenon DEF RefreshRead, Holds, CoveredBy, IsCompacted
  <2> QED BY <1>5, <2>1, Zenon DEF RefreshRead, handover, CoveredBy, IsCompacted
<1>6. CASE RefreshReplace
  <2>1. Holds(listed)'
    BY <1>6, Zenon DEF RefreshReplace, handover, Holds, CoveredBy, IsCompacted
  <2>2. CASE refresher.frontier = view
    <3>1. \A i : Holds(i) => Holds(i)'
      BY <1>6, <2>2, Zenon DEF RefreshReplace, Holds, CoveredBy, IsCompacted
    <3> QED BY <1>6, <2>1, <2>2, <3>1, Zenon
            DEF RefreshReplace, handover, CoveredBy, IsCompacted, TypeOK, Progress
  <2>3. CASE refresher.frontier # view
    BY <1>6, <2>1, <2>3, MaxVersionAssumption
       DEF RefreshReplace, handover, CoveredBy, IsCompacted, TypeOK, Progress
  <2> QED BY <2>2, <2>3, Zenon
<1>7. CASE RefreshPrune
  <2>1. \A i : Holds(i) => Holds(i)'
    BY <1>7, Zenon DEF RefreshPrune, Pruned, Holds, CoveredBy, IsCompacted, TypeOK
  <2> QED BY <1>7, <2>1, Zenon DEF RefreshPrune, handover, CoveredBy, IsCompacted
<1> QED BY <1>1, <1>2, <1>3, <1>4, <1>5, <1>6, <1>7, Zenon DEF Poller, Refresher

\* A step of query r, or the expiry of a cached index, moves no frontier and no
\* tail, so it keeps what every index holds.
LEMMA QueryKeeps ==
    ASSUME UNCHANGED others
    PROVE  /\ UNCHANGED <<listed, stored, refresher, view, version>>
           /\ \A i : Holds(i)' <=> Holds(i)
           /\ \A i : (CoveredBy(view) \subseteq i)' <=> CoveredBy(view) \subseteq i
  BY Zenon DEF others, handover, Holds, CoveredBy, IsCompacted

\* A step of query r keeps its own captures together, and the cache.
LEMMA QueryStep ==
    ASSUME QuerierInv, NEW r \in Requests, Query(r)
    PROVE  /\ UNCHANGED others
           /\ \A q \in Requests \ {r} : request'[q] = request[q]
           /\ cacheVersion' <= version
           /\ cacheVersion' = version => \A i \in cache' : Holds(i)
           /\ request'[r].version <= version
           /\ request'[r].version = version =>
                /\ request'[r].pc # "idle" => request'[r].frontier = view
                /\ request'[r].pc \in {"insert", "tail"} => Holds(request'[r].index)
                /\ request'[r].pc = "check" =>
                     /\ CoveredBy(view) \subseteq request'[r].index
                     /\ request'[r].due \subseteq request'[r].index \cup request'[r].tail
           /\ request'[r].pc = "answered" =>
                request'[r].due \subseteq request'[r].index \cup
                    {s \in request'[r].tail : ~IsCompacted(request'[r].frontier, s)}
<1> USE MaxVersionAssumption DEF QuerierInv, TypeOK, QueryStates, Fits
<1>1. CASE Capture(r)
  BY <1>1 DEF Capture, Idle
<1>2. CASE Attach(r)
  BY <1>2 DEF Attach
<1>3. CASE Load(r)
  <2>1. CASE Attached(r) /\ cache # {}
    BY <1>3, <2>1 DEF Load, Attached
  <2>2. CASE ~Attached(r) \/ cache = {}
    BY <1>3, <2>2 DEF Load
  <2> QED BY <2>1, <2>2, Zenon
<1>4. CASE Insert(r)
  BY <1>4 DEF Insert, InsertIsSeen, Attached
<1>5. CASE ReadTail(r)
  <2>1. request'[r] = [request[r] EXCEPT !.pc = "check", !.tail = tail, !.due = shown]
    BY <1>5, Zenon DEF ReadTail
  <2> QED BY <1>5, <2>1 DEF ReadTail, Holds
<1>6. CASE Answer(r)
  <2>1. CASE StillCurrent(r)
    <3>1. request'[r] = [request[r] EXCEPT !.pc = "answered"]
      BY <1>6, <2>1, Zenon DEF Answer
    <3>2. request[r].frontier = view /\ CoveredBy(view) \subseteq request[r].index
          /\ request[r].due \subseteq request[r].index \cup request[r].tail
          /\ request[r].due \subseteq Records
      BY <1>6, <2>1, Zenon DEF Answer, StillCurrent
    <3>3. request[r].due \subseteq request[r].index \cup
              {s \in request[r].tail : ~IsCompacted(request[r].frontier, s)}
      BY <3>2, Zenon DEF CoveredBy
    <3> QED BY <1>6, <3>1, <3>2, <3>3 DEF Answer
  <2>2. CASE ~StillCurrent(r)
    BY <1>6, <2>2 DEF Answer, Idle
  <2> QED BY <2>1, <2>2, Zenon
<1> QED BY <1>1, <1>2, <1>3, <1>4, <1>5, <1>6, Zenon DEF Query
-----------------------------------------------------------------------------
\* QuerierInv is inductive.
LEMMA InvStep ==
    ASSUME QuerierInv, [Next]_vars
    PROVE  QuerierInv'
<1>1. TypeOK'
  BY TypeStep, Zenon DEF QuerierInv
<1>2. CASE Environment \/ Poller \/ Refresher
  <2>1. /\ \A r \in Requests : request'[r].version <= version'
        /\ cacheVersion' <= version'
    BY <1>1, <1>2, TasksStep, MaxVersionAssumption DEF QuerierInv, TypeOK, QueryStates
  <2>2. cacheVersion' = version' => \A i \in cache' : Holds(i)'
    BY <1>1, <1>2, TasksStep, MaxVersionAssumption DEF QuerierInv, TypeOK
  <2>3. \A r \in Requests : Fits(r)'
    <3> SUFFICES ASSUME NEW r \in Requests, request'[r].version = version'
                 PROVE  Fits(r)'
      BY Zenon DEF Fits
    <3>1. /\ version' = version /\ view' = view /\ request' = request
          /\ \A i : Holds(i) => Holds(i)'
      BY <1>1, <1>2, TasksStep, MaxVersionAssumption DEF QuerierInv, TypeOK, QueryStates
    <3> QED BY <3>1, Zenon DEF QuerierInv, Fits, CoveredBy, IsCompacted
  <2>4. AnswersAreComplete'
    BY <1>2, TasksStep, Zenon DEF QuerierInv, AnswersAreComplete, Cold, Hot
  <2> QED BY <1>1, <1>2, <2>1, <2>2, <2>3, <2>4, TasksStep, Zenon DEF QuerierInv
<1>3. CASE Expire
  <2>1. UNCHANGED others /\ cache' = {} /\ UNCHANGED <<cacheVersion, request>>
    BY <1>3, Zenon DEF Expire
  <2> QED BY <1>1, <2>1, QueryKeeps
          DEF QuerierInv, Fits, AnswersAreComplete, Cold, Hot, CoveredBy, IsCompacted
<1>4. CASE \E r \in Requests : Query(r)
  <2> PICK r \in Requests : Query(r)
    BY <1>4, Zenon
  <2>1. UNCHANGED others
    BY QueryStep, Zenon
  <2>2. \A q \in Requests : Fits(q)' /\ request'[q].version <= version'
    BY <2>1, QueryKeeps, QueryStep DEF QuerierInv, Fits
  <2>3. AnswersAreComplete'
    BY QueryStep, Zenon DEF QuerierInv, AnswersAreComplete, Cold, Hot
  <2> QED BY <1>1, <2>1, <2>2, <2>3, QueryKeeps, QueryStep
          DEF QuerierInv, CoveredBy, IsCompacted
<1>5. CASE UNCHANGED vars
  BY <1>5, Zenon DEF vars, QuerierInv, TypeOK, Holds, Fits, AnswersAreComplete, Cold, Hot,
              CoveredBy, IsCompacted
<1> QED BY <1>2, <1>3, <1>4, <1>5, Zenon DEF Next

\* QuerierInv holds when the querier starts.
LEMMA InitInv == Init => QuerierInv
<1> SUFFICES ASSUME Init PROVE QuerierInv
  BY Zenon
<1>1. TypeOK
  BY InitTypes, Zenon
<1>2. CoveredBy(Zero) = {} /\ shown = {}
  BY MaxRecordsAssumption DEF Init, CoveredBy, IsCompacted, Zero, Records, Offsets
<1> QED BY <1>1, <1>2, MaxVersionAssumption
        DEF Init, HandoverInit, QuerierInv, Holds, Fits, AnswersAreComplete, Idle,
            Cold, Hot

\* QuerierInv holds throughout.
THEOREM QuerierInvariant == Spec => []QuerierInv
  BY InitInv, InvStep, PTL DEF Spec

\* AnswersAreComplete for all constants: with_request_tenant_index_and_hot_range
\* joins a frontier, an index and a tail that miss no polled record.
THEOREM CompleteAnswers == Spec => []AnswersAreComplete
<1>1. QuerierInv => AnswersAreComplete
  BY Zenon DEF QuerierInv
<1> QED BY <1>1, QuerierInvariant, PTL

\* CacheKeepsUp for all constants: DynamicIndexCache::for_frontier keeps loads
\* of older frontiers out of the current generation.
THEOREM CurrentCache == Spec => []CacheKeepsUp
<1>1. QuerierInv => CacheKeepsUp
  BY Zenon DEF QuerierInv, CacheKeepsUp, Holds
<1> QED BY <1>1, QuerierInvariant, PTL

\* Every variable of a querier keeps its type, the refresher's version bound and
\* the captures of running queries included.
THEOREM TypeCorrect == Spec => []TypeOK
<1>1. QuerierInv => TypeOK
  BY Zenon DEF QuerierInv
<1> QED BY <1>1, QuerierInvariant, PTL
=============================================================================
