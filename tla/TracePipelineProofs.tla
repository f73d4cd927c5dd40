------------------------ MODULE TracePipelineProofs ------------------------
(***************************************************************************)
(* TLAPS proofs about the life of a span block, for any number of records, *)
(* failed passes and expiries.  Without crashes of the block builder, and  *)
(* with publishing within the sweep's grace, any number of compactors lose *)
(* no record and no object.  With any number of crashes the types hold and *)
(* a record has at most one copy more than there were crashes, and one     *)
(* compactor still loses no committed record.                              *)
(***************************************************************************)
EXTENDS TracePipeline, FiniteSetTheorems, TLAPS

\* What a pass writes for the built blocks of the ranges in T, each put once.
Merged(T) == [level |-> 1, from |-> {<<r[1], r[2], 1>> : r \in T}]

Keys == {BuiltKey(r) : r \in Ranges} \cup {Merged(T) : T \in SUBSET Ranges}

\* The built blocks that make up a block.
Parts(k) == {r \in Ranges : \E v \in {0, 1} : <<r[1], r[2], v>> \in k.from}

\* The records below it are in published blocks or will be with no help of the
\* builder.
Bound == IF builder = "commit" THEN position ELSE committed

Below(k) == \A r \in Parts(k) : r[2] < Bound

\* A merged block comes from two or more built ones of one time bucket.
FromJob(K) ==
    /\ \E r, q \in Parts(K) : r # q
    /\ \A r, q \in Parts(K) : r[1] \div Window = q[1] \div Window

\* Somebody has already published other blocks for some, or for all, of the
\* inputs of a merged block.
Doomed(K) == \E r \in Parts(K) : BuiltKey(r) \notin published
AllGone(K) == \A r \in Parts(K) : BuiltKey(r) \notin published

Known(c) == index[c] \cup added[c] \cup retired[c] \cup aged[c] \cup stale[c]

Types ==
    /\ appended \in Nat /\ committed \in Nat /\ position \in Nat
    /\ committed <= position /\ position <= appended /\ appended <= MaxRecords
    /\ builder \in {"poll", "save", "commit"}
    /\ builder # "poll" => committed < position
    /\ old \in [Objects -> BOOLEAN] /\ Objects \subseteq Keys
    /\ puts \in [Ranges -> {0, 1}]
    /\ published \subseteq Keys
    /\ pc \in [Compactors -> {"idle", "compact", "save", "delete", "sweep", "reclaim"}]
    /\ index \in [Compactors -> SUBSET Keys] /\ added \in [Compactors -> SUBSET Keys]
    /\ retired \in [Compactors -> SUBSET Keys] /\ aged \in [Compactors -> SUBSET Keys]
    /\ stale \in [Compactors -> SUBSET Keys]
    /\ horizon \in Nat /\ until \in [Compactors -> Nat]
    /\ \A c \in Compactors : until[c] <= horizon
    /\ crashes = 0

\* Ranges are written once, one after the other.
Ordered ==
    /\ \A r \in Ranges : puts[r] = 1 =>
          r[2] < Bound \/ (builder = "save" /\ r = FlushRange)
    /\ \A r, q \in Ranges : puts[r] = 1 /\ puts[q] = 1 /\ r # q => r[2] < q[1] \/ q[2] < r[1]
    /\ builder = "save" => BuiltKey(FlushRange) \in Objects

\* Every key is of ranges that were written; only the block the builder is about
\* to publish is above the bound, and it is young.
Stamped(k) ==
    /\ \A r \in Parts(k) : puts[r] = 1
    /\ k.level = 1 => FromJob(k)

Placed ==
    /\ \A k \in Objects :
          /\ Stamped(k)
          /\ Below(k) \/ (builder = "save" /\ k = BuiltKey(FlushRange) /\ ~old[k])
    /\ \A k \in published : Stamped(k) /\ Below(k)
    /\ \A c \in Compactors : \A k \in Known(c) : Stamped(k) /\ Below(k)

\* The published blocks exist, hold every record inside the retention window,
\* and share none.
Sound ==
    /\ published \subseteq Objects
    /\ \A o \in horizon..(Bound - 1) : \E k \in published : Has(k, o)
    /\ \A k, j \in published : Parts(k) \cap Parts(j) # {} => k = j
    /\ \A k \in published : k.level = 1 => AllGone(k)

\* Before its save, a pass accounts for all it retires, and what it will publish
\* is safe from every sweep unless the save is going to be refused.
Merges(c) ==
    /\ pc[c] \notin {"compact", "save"} => added[c] = {}
    /\ \A K \in added[c] :
          /\ K.level = 1
          /\ \A r \in Parts(K) : BuiltKey(r) \in retired[c]
          /\ Doomed(K) \/ (K \in Objects /\ ~old[K] /\ \A d \in Compactors : K \notin aged[d])
    /\ \A J, K \in added[c] : Parts(J) \cap Parts(K) # {} => J = K
    /\ pc[c] \in {"compact", "save"} =>
          /\ \A k \in index[c] : k.level = 0 => k \notin retired[c]
          /\ \A k \in retired[c] : \A r \in Parts(k) :
                r[2] < until[c] \/ \E K \in added[c] : r \in Parts(K)

\* What a pass is about to delete is not published and never will be.
Deletes(c) ==
    /\ pc[c] = "idle" => retired[c] = {}
    /\ pc[c] = "delete" => \A k \in retired[c] :
          k \notin published /\ (k.level = 1 => AllGone(k))
    /\ pc[c] = "reclaim" => \A k \in stale[c] :
          k \notin published /\ (k.level = 1 => Doomed(k))

\* What was old when the pass began and is published, or is an input that is
\* published, was in the index the pass loaded.
Sweeps(c) ==
    LET seen == IF pc[c] \in {"compact", "save"} THEN index[c] \cup retired[c] ELSE index[c]
    IN  /\ pc[c] \in {"compact", "save", "delete", "sweep"} => \A k \in aged[c] :
              /\ k \in published => k \in seen
              /\ k.level = 1 => \A r \in Parts(k) : BuiltKey(r) \in published => BuiltKey(r) \in seen
        /\ pc[c] \in {"save", "delete", "sweep"} => Jobs(c) = {}

\* The inductive invariant.
PipelineInv ==
    /\ Types /\ Ordered /\ Placed /\ Sound
    /\ \A c \in Compactors : Merges(c) /\ Deletes(c) /\ Sweeps(c)

-----------------------------------------------------------------------------
\* An offset range is a pair of offsets, the first at most the last.
LEMMA RangeFacts ==
    ASSUME NEW r \in Ranges
    PROVE  /\ r[1] \in Nat /\ r[2] \in Nat /\ r[1] <= r[2] /\ r[2] < MaxRecords
           /\ r = <<r[1], r[2]>>
BY BoundsAssumption DEF Ranges

\* The key of a built block names its range.
LEMMA BuiltFacts ==
    ASSUME NEW r \in Ranges
    PROVE  /\ BuiltKey(r) \in Keys /\ BuiltKey(r).level = 0
           /\ BuiltKey(r).from = {<<r[1], r[2], 0>>}
           /\ Parts(BuiltKey(r)) = {r}
<1>1. BuiltKey(r) \in Keys /\ BuiltKey(r).level = 0 /\ BuiltKey(r).from = {<<r[1], r[2], 0>>}
  BY Zenon DEF Keys, BuiltKey
<1>2. \A q \in Ranges : q \in Parts(BuiltKey(r)) <=> q[1] = r[1] /\ q[2] = r[2]
  BY <1>1, Zenon DEF Parts
<1>3. \A q \in Ranges : q = <<q[1], q[2]>>
  BY RangeFacts, Zenon
<1>4. Parts(BuiltKey(r)) \subseteq Ranges
  BY Zenon DEF Parts
<1> QED BY <1>1, <1>2, <1>3, <1>4

\* The key of a merged block names the ranges it merged.
LEMMA MergedFacts ==
    ASSUME NEW T \in SUBSET Ranges
    PROVE  /\ Merged(T) \in Keys /\ Merged(T).level = 1
           /\ Merged(T).from = {<<r[1], r[2], 1>> : r \in T}
           /\ Parts(Merged(T)) = T
<1>1. /\ Merged(T) \in Keys /\ Merged(T).level = 1
      /\ Merged(T).from = {<<r[1], r[2], 1>> : r \in T}
  BY Zenon DEF Keys, Merged
<1>2. \A q \in Ranges : q \in Parts(Merged(T)) <=> \E r \in T : q[1] = r[1] /\ q[2] = r[2]
  BY <1>1, Zenon DEF Parts
<1>3. \A q \in Ranges : q = <<q[1], q[2]>>
  BY RangeFacts, Zenon
<1>4. Parts(Merged(T)) \subseteq Ranges
  BY Zenon DEF Parts
<1>5. \A q \in Ranges : q \in Parts(Merged(T)) <=> q \in T
  BY <1>2, <1>3
<1> QED BY <1>1, <1>4, <1>5, Zenon

\* What a block holds is what its parts hold.
LEMMA KeyFacts ==
    ASSUME NEW k \in Keys
    PROVE  /\ Parts(k) \subseteq Ranges /\ k.level \in {0, 1}
           /\ k.level = 0 => \E r \in Ranges : k = BuiltKey(r)
           /\ k.level = 1 => k = Merged(Parts(k))
           /\ \A b \in k.from : <<b[1], b[2]>> \in Parts(k) /\ b = <<b[1], b[2], k.level>>
           /\ \A r \in Parts(k) : <<r[1], r[2], k.level>> \in k.from
           /\ \A o : Has(k, o) <=> \E r \in Parts(k) : r[1] <= o /\ o <= r[2]
<1>1. CASE \E r \in Ranges : k = BuiltKey(r)
  <2>1. PICK r \in Ranges : k = BuiltKey(r)
    BY <1>1, Zenon
  <2>2. k.level = 0 /\ k.from = {<<r[1], r[2], 0>>} /\ Parts(k) = {r} /\ r = <<r[1], r[2]>>
    BY <2>1, BuiltFacts, RangeFacts, Zenon
  <2> QED BY <2>1, <2>2 DEF Has, Holds
<1>2. CASE \E T \in SUBSET Ranges : k = Merged(T)
  <2>1. PICK T \in SUBSET Ranges : k = Merged(T)
    BY <1>2, Zenon
  <2>2. k.level = 1 /\ k.from = {<<r[1], r[2], 1>> : r \in T} /\ Parts(k) = T
    BY <2>1, MergedFacts, Zenon
  <2>3. \A r \in T : r = <<r[1], r[2]>>
    BY RangeFacts, Zenon
  <2>4. \A b \in k.from : <<b[1], b[2]>> \in T /\ b = <<b[1], b[2], 1>>
    BY <2>2, <2>3
  <2>5. \A r \in T : <<r[1], r[2], 1>> \in k.from
    BY <2>2, Zenon
  <2>6. ASSUME NEW o  PROVE Has(k, o) <=> \E r \in T : r[1] <= o /\ o <= r[2]
    <3>1. ASSUME NEW r \in T, r[1] <= o, o <= r[2]  PROVE Has(k, o)
      <4>1. <<r[1], r[2], 1>>[1] = r[1] /\ <<r[1], r[2], 1>>[2] = r[2]
        BY Zenon
      <4> QED BY <2>5, <3>1, <4>1, Zenon DEF Has, Holds
    <3>2. ASSUME NEW b \in k.from, b[1] <= o, o <= b[2]
          PROVE  \E r \in T : r[1] <= o /\ o <= r[2]
      <4>1. <<b[1], b[2]>>[1] = b[1] /\ <<b[1], b[2]>>[2] = b[2]
        BY Zenon
      <4> QED BY <2>4, <3>2, <4>1, Zenon
    <3> QED BY <3>1, <3>2, Zenon DEF Has, Holds
  <2> QED BY <2>1, <2>2, <2>4, <2>5, <2>6
<1> QED BY <1>1, <1>2, Zenon DEF Keys

\* There are finitely many built blocks.
LEMMA FiniteBuilt == IsFiniteSet({BuiltKey(r) : r \in Ranges})
<1> DEFINE I == 0..(MaxRecords - 1)
           B == {BuiltKey(r) : r \in Ranges}
           f == [r \in Ranges |-> BuiltKey(r)]
<1>1. IsFiniteSet(I)
  BY BoundsAssumption, FS_Interval
<1>2. Ranges \in SUBSET (I \X I)
  BY Zenon DEF Ranges
<1> HIDE DEF I
<1>3. IsFiniteSet(I \X I)
  BY <1>1, FS_Product, Zenon
<1>4. IsFiniteSet(Ranges)
  BY <1>2, <1>3, FS_Subset, Zenon
<1>5. f \in Surjection(Ranges, B)
  BY Zenon DEF Surjection
<1> HIDE DEF f, B
<1>6. IsFiniteSet(B)
  BY <1>4, <1>5, FS_Surjection, Zenon
<1> QED BY <1>6, Zenon DEF B

\* A time bucket has a number the planner looks at.
LEMMA BucketBound ==
    ASSUME NEW a \in Nat, a < MaxRecords
    PROVE  a \div Window \in 0..(MaxRecords - 1)
<1>1. Window \in Nat /\ Window > 0 /\ MaxRecords \in Nat
  BY WindowAssumption, BoundsAssumption
<1>2. PICK d \in Int : d = a \div Window
  BY <1>1
<1>3. Window * d <= a /\ a < Window * d + Window /\ d >= 0
  BY <1>1, <1>2
<1>4. d <= Window * d
  BY <1>1, <1>3
<1> QED BY <1>1, <1>2, <1>3, <1>4

\* A planned job is of two or more built blocks of one bucket.
LEMMA JobFacts ==
    ASSUME NEW I, I \subseteq Keys, NEW S \in JobsIn(I)
    PROVE  /\ S \subseteq I /\ \A k \in S : k.level = 0
           /\ \E j, k \in S : j # k
           /\ \A j, k \in S : \A r \in Parts(j), q \in Parts(k) :
                 r[1] \div Window = q[1] \div Window
<1>1. PICK t : S = {k \in I : k.level = 0 /\ (\E b \in k.from : b[1] \div Window = t)}
  BY Zenon DEF JobsIn
<1>2. Cardinality(S) >= 2
  BY Zenon DEF JobsIn
<1>3. ASSUME NEW k \in S
      PROVE  \E r \in Ranges : k = BuiltKey(r) /\ \A q \in Parts(k) : q[1] \div Window = t
  <2>1. PICK r \in Ranges : k = BuiltKey(r)
    BY <1>1, KeyFacts, Zenon
  <2>2. k.from = {<<r[1], r[2], 0>>} /\ Parts(k) = {r}
    BY <2>1, BuiltFacts, Zenon
  <2>3. PICK b \in k.from : b[1] \div Window = t
    BY <1>1, Zenon
  <2>4. b[1] = r[1]
    BY <2>2, <2>3
  <2> QED BY <2>1, <2>2, <2>3, <2>4, Zenon
<1>4. S \subseteq {BuiltKey(r) : r \in Ranges}
  BY <1>3, Zenon
<1>5. IsFiniteSet(S)
  BY <1>4, FiniteBuilt, FS_Subset, Zenon
<1>6. \E j, k \in S : j # k
  <2> SUFFICES ASSUME \A j, k \in S : j = k  PROVE FALSE
    BY Zenon
  <2>1. CASE S = {}
    BY <1>2, <2>1, FS_EmptySet
  <2>2. CASE S # {}
    <3>1. PICK x : S = {x}
      BY <2>2
    <3>2. Cardinality({x}) = 1
      BY FS_Singleton, Zenon
    <3>3. Cardinality(S) = 1
      BY <3>1, <3>2, Zenon
    <3> QED BY <1>2, <3>3
  <2> QED BY <2>1, <2>2, Zenon
<1>7. \A j, k \in S : \A r \in Parts(j), q \in Parts(k) : r[1] \div Window = q[1] \div Window
  BY <1>3, Zenon
<1> QED BY <1>1, <1>6, <1>7, Zenon

\* Two built blocks of one bucket are part of a job.
LEMMA JobsFound ==
    ASSUME NEW I, I \subseteq Keys, NEW r \in Ranges, NEW q \in Ranges, r # q,
           BuiltKey(r) \in I, BuiltKey(q) \in I,
           r[1] \div Window = q[1] \div Window
    PROVE  JobsIn(I) # {}
<1> DEFINE t == r[1] \div Window
           S == {k \in I : k.level = 0 /\ (\E b \in k.from : b[1] \div Window = t)}
<1>1. t \in 0..(MaxRecords - 1)
  <2>1. r[1] \in Nat /\ r[1] < MaxRecords
    BY RangeFacts, BoundsAssumption
  <2> QED BY <2>1, BucketBound, Zenon
<1>2. BuiltKey(r) \in S /\ BuiltKey(q) \in S
  <2>1. <<r[1], r[2], 0>>[1] = r[1] /\ <<q[1], q[2], 0>>[1] = q[1]
    BY Zenon
  <2>2. <<r[1], r[2], 0>> \in BuiltKey(r).from /\ <<q[1], q[2], 0>> \in BuiltKey(q).from
    BY BuiltFacts, Zenon
  <2>3. BuiltKey(r).level = 0 /\ BuiltKey(q).level = 0
    BY BuiltFacts, Zenon
  <2> QED BY <2>1, <2>2, <2>3, Zenon
<1>3. BuiltKey(r) # BuiltKey(q)
  <2>1. Parts(BuiltKey(r)) = {r} /\ Parts(BuiltKey(q)) = {q}
    BY BuiltFacts, Zenon
  <2> QED BY <2>1, Zenon
<1>4. IsFiniteSet(S)
  <2>1. S \subseteq {BuiltKey(p) : p \in Ranges}
    BY KeyFacts, Zenon
  <2> HIDE DEF S
  <2> QED BY <2>1, FiniteBuilt, FS_Subset, Zenon
<1>5. Cardinality(S) >= 2
  <2> HIDE DEF S
  <2>1. Cardinality(S) \in Nat
    BY <1>4, FS_CardinalityType, Zenon
  <2>2. Cardinality(S) # 0
    BY <1>2, <1>4, FS_EmptySet, Zenon
  <2>3. Cardinality(S) # 1
    <3>1. ~\E x : S = {x}
      BY <1>2, <1>3
    <3> QED BY <1>4, <3>1, FS_Singleton, Zenon
  <2> QED BY <2>1, <2>2, <2>3
<1>6. S \in JobsIn(I)
  BY <1>1, <1>5, Zenon DEF JobsIn
<1> QED BY <1>6, Zenon

\* The key of a job's output.
LEMMA CompactedIs ==
    ASSUME NEW S, \A k \in S : k \in Keys /\ \A r \in Parts(k) : puts[r] = 1
    PROVE  CompactedKey(S) = Merged({q \in Ranges : BuiltKey(q) \in S})
<1> DEFINE T == {q \in Ranges : BuiltKey(q) \in S}
<1>1. \A q \in T : puts[q] = 1
  BY BuiltFacts, Zenon
<1>2. {<<r[1], r[2], puts[r]>> : r \in T} = {<<r[1], r[2], 1>> : r \in T}
  <2> HIDE DEF T
  <2> QED BY <1>1, Zenon
<1> QED BY <1>2, Zenon DEF CompactedKey, Merged

\* The newest record of a block decides when it expires.
LEMMA ExpiredIs ==
    ASSUME NEW c, NEW k \in Keys
    PROVE  Expired(c, k) <=> \A r \in Parts(k) : r[2] < until[c]
<1>1. ASSUME NEW b \in k.from, \A r \in Parts(k) : r[2] < until[c]  PROVE b[2] < until[c]
  <2>1. <<b[1], b[2]>> \in Parts(k) /\ <<b[1], b[2]>>[2] = b[2]
    BY KeyFacts, Zenon
  <2> QED BY <1>1, <2>1, Zenon
<1>2. ASSUME NEW r \in Parts(k), \A b \in k.from : b[2] < until[c]  PROVE r[2] < until[c]
  <2>1. <<r[1], r[2], k.level>> \in k.from /\ <<r[1], r[2], k.level>>[2] = r[2]
    BY KeyFacts, Zenon
  <2> QED BY <1>2, <2>1, Zenon
<1> QED BY <1>1, <1>2, Zenon DEF Expired

-----------------------------------------------------------------------------
\* Every block has a part, and a block is known by its parts and its level.
LEMMA PartsOf ==
    ASSUME PipelineInv, NEW k, Stamped(k), k.level = 1
    PROVE  /\ \E r \in Parts(k) : r \in Ranges
           /\ AllGone(k) => Doomed(k)
BY Zenon DEF Stamped, FromJob, AllGone, Doomed, Parts

\* A compactor whose own state a step leaves alone keeps what it relies on, if
\* no old block comes back to the index and no object it counts on goes.
LEMMA OthersKeep ==
    ASSUME PipelineInv, NEW d \in Compactors,
           pc'[d] = pc[d], index'[d] = index[d], added'[d] = added[d],
           retired'[d] = retired[d], until'[d] = until[d], stale'[d] = stale[d],
           aged'[d] \subseteq aged[d],
           \A r \in Ranges : r[2] < Bound /\ BuiltKey(r) \in published' => BuiltKey(r) \in published,
           \A k \in aged[d] : k \in published' => k \in published,
           pc[d] = "delete" => \A k \in retired[d] : k \in published' => k \in published,
           pc[d] = "reclaim" => \A k \in stale[d] : k \in published' => k \in published,
           \A K \in added[d] : Doomed(K)' \/ (/\ K \in Objects' /\ ~old'[K]
                                              /\ \A e \in Compactors : K \notin aged'[e])
    PROVE  (Merges(d) /\ Deletes(d) /\ Sweeps(d))'
<1>1. \A k \in Known(d) : Below(k) /\ Parts(k) \subseteq Ranges
  BY Zenon DEF PipelineInv, Placed, Parts
<1>2. \A k \in Known(d) : (AllGone(k) => AllGone(k)') /\ (Doomed(k) => Doomed(k)')
  BY <1>1, Zenon DEF AllGone, Doomed, Below
<1>3. Merges(d)'
  BY DEF PipelineInv, Merges
<1>4. Deletes(d)'
  BY <1>2 DEF PipelineInv, Deletes, Known
<1>5. Sweeps(d)'
  <2>1. Jobs(d)' = Jobs(d)
    BY DEF Jobs
  <2>2. ASSUME pc[d] \in {"compact", "save", "delete", "sweep"}, NEW k \in aged[d],
               k.level = 1, NEW r \in Parts(k), BuiltKey(r) \in published'
        PROVE  BuiltKey(r) \in published
    BY <1>1, <2>2, Zenon DEF Known, Below
  <2> QED BY <2>1, <2>2 DEF PipelineInv, Sweeps
<1> QED BY <1>3, <1>4, <1>5, Zenon

\* The bound, and the range the builder has buffered.
LEMMA BoundFacts ==
    ASSUME PipelineInv
    PROVE  /\ Bound \in Nat /\ committed <= Bound /\ Bound <= position
           /\ committed < position =>
                 /\ FlushRange \in Ranges
                 /\ FlushRange[1] = committed /\ FlushRange[2] = position - 1
           /\ builder # "commit" => Bound = committed
BY BoundsAssumption DEF PipelineInv, Types, Bound, Ranges, FlushRange

\* Records arrive, are read and expire without touching a block.
LEMMA WorldKeeps ==
    ASSUME PipelineInv, Append \/ Expiry \/ Poll \/ CommitSync
    PROVE  PipelineInv'
<1>1. UNCHANGED <<old, puts, published, pc, index, added, retired, until, aged, stale, crashes>>
  BY Zenon DEF Append, Expiry, Poll, CommitSync, build, wal, pass
<1>2. /\ appended' \in Nat /\ committed' \in Nat /\ position' \in Nat /\ horizon' \in Nat
      /\ committed' <= position' /\ position' <= appended' /\ appended' <= MaxRecords
      /\ horizon' >= horizon /\ Bound' = Bound
      /\ builder' \in {"poll", "save", "commit"}
      /\ builder' # "poll" => committed' < position'
      /\ builder' = "save" <=> builder = "save"
      /\ builder' = "save" => FlushRange' = FlushRange
  <2> USE DEF PipelineInv, Types, Bound, FlushRange
  <2>1. CASE Append
    BY <2>1, BoundsAssumption DEF Append, build
  <2>2. CASE Expiry
    BY <2>2 DEF Expiry, wal, build
  <2>3. CASE Poll
    BY <2>3, BoundsAssumption DEF Poll, wal
  <2>4. CASE CommitSync
    BY <2>4 DEF CommitSync
  <2> QED BY <2>1, <2>2, <2>3, <2>4, Zenon
<1>3. Types'
  BY <1>1, <1>2 DEF PipelineInv, Types, Objects
<1>4. Ordered'
  BY <1>1, <1>2, Zenon DEF PipelineInv, Ordered, Objects
<1>5. Placed'
  BY <1>1, <1>2 DEF PipelineInv, Placed, Objects, Stamped, Below, Known
<1>6. Sound'
  <2>1. horizon \in Nat /\ Bound \in Nat
    BY BoundFacts DEF PipelineInv, Types
  <2>2. \A o \in horizon'..(Bound' - 1) : o \in horizon..(Bound - 1)
    BY <1>2, <2>1
  <2> QED BY <1>1, <2>2, Zenon DEF PipelineInv, Sound, Objects, AllGone
<1>7. ASSUME NEW d \in Compactors  PROVE (Merges(d) /\ Deletes(d) /\ Sweeps(d))'
  <2>1. \A K \in added[d] : Doomed(K) \/ (/\ K \in Objects /\ ~old[K]
                                          /\ \A e \in Compactors : K \notin aged[e])
    BY Zenon DEF PipelineInv, Merges
  <2>2. \A K \in added[d] : Doomed(K)' \/ (/\ K \in Objects' /\ ~old'[K]
                                           /\ \A e \in Compactors : K \notin aged'[e])
    BY <1>1, <2>1 DEF Doomed, Objects
  <2> QED BY <1>1, <2>2, OthersKeep, Zenon
<1> QED BY <1>3, <1>4, <1>5, <1>6, <1>7, Zenon DEF PipelineInv

\* A block that somebody has still to publish does not outlive the grace.
LEMMA GrowOldKeeps ==
    ASSUME PipelineInv, PromptPublish, NEW k \in Objects, GrowOld(k)
    PROVE  PipelineInv'
<1>1. /\ UNCHANGED <<appended, committed, position, builder, puts, published, pc, index, added,
                     retired, until, aged, stale, horizon, crashes>>
      /\ old' = [old EXCEPT ![k] = TRUE] /\ ~BeingPublished(k)
  BY Zenon DEF GrowOld, wal, build, pass
<1>2. /\ Objects' = Objects /\ old' \in [Objects -> BOOLEAN]
      /\ \A j \in Objects : j # k => old'[j] = old[j]
      /\ Bound' = Bound /\ FlushRange' = FlushRange
  BY <1>1 DEF PipelineInv, Types, Objects, Bound, FlushRange
<1>3. Types'
  BY <1>1, <1>2, Zenon DEF PipelineInv, Types
<1>4. Ordered'
  BY <1>1, <1>2, Zenon DEF PipelineInv, Ordered
<1>5. ~(builder = "save" /\ k = BuiltKey(FlushRange))
  <2> SUFFICES ASSUME builder = "save", k = BuiltKey(FlushRange)  PROVE FALSE
    OBVIOUS
  <2>1. FlushRange \in Ranges /\ FlushRange[1] = committed /\ FlushRange[2] = position - 1
    BY BoundsAssumption DEF PipelineInv, Types, Ranges, FlushRange
  <2>2. k.level = 0 /\ k.from = {<<FlushRange[1], FlushRange[2], 0>>} /\ Parts(k) = {FlushRange}
    BY <2>1, BuiltFacts, Zenon
  <2>3. k \notin published
    <3>1. ~Below(k)
      BY <2>1, <2>2 DEF Below, Bound, PipelineInv, Types
    <3> QED BY <3>1 DEF PipelineInv, Placed
  <2>4. \A b \in k.from : b[1] >= committed
    BY <2>1, <2>2 DEF PipelineInv, Types
  <2> QED BY <1>1, <2>2, <2>3, <2>4, Zenon DEF BeingPublished
<1>6. Placed'
  <2>1. ASSUME NEW j \in Objects'
        PROVE  Stamped(j)' /\ (Below(j)' \/ (builder' = "save" /\ j = BuiltKey(FlushRange') /\ ~old'[j]))
    BY <1>1, <1>2, <1>5 DEF PipelineInv, Placed, Stamped, Below
  <2>2. /\ \A j \in published' : Stamped(j)' /\ Below(j)'
        /\ \A c \in Compactors : \A j \in Known(c)' : Stamped(j)' /\ Below(j)'
    BY <1>1, <1>2 DEF PipelineInv, Placed, Stamped, Below, Known
  <2>3. BuiltKey(FlushRange)' = BuiltKey(FlushRange')
    BY Zenon DEF BuiltKey
  <2> QED BY <2>1, <2>2, <2>3 DEF Placed
<1>7. Sound'
  BY <1>1, <1>2, Zenon DEF PipelineInv, Sound, AllGone
<1>8. ASSUME NEW d \in Compactors  PROVE (Merges(d) /\ Deletes(d) /\ Sweeps(d))'
  <2>1. ASSUME NEW K \in added[d]
        PROVE  Doomed(K)' \/ (/\ K \in Objects' /\ ~old'[K]
                              /\ \A e \in Compactors : K \notin aged'[e])
    <3>1. Doomed(K) \/ (/\ K \in Objects /\ ~old[K]
                        /\ \A e \in Compactors : K \notin aged[e])
      BY Zenon DEF PipelineInv, Merges
    <3>2. Doomed(K) => Doomed(K)'
      BY <1>1, Zenon DEF Doomed
    <3>3. K \in published => Doomed(K)
      <4>1. Stamped(K) /\ K.level = 1
        BY Zenon DEF PipelineInv, Placed, Known, Merges
      <4> QED BY <4>1, PartsOf DEF PipelineInv, Sound
    <3>4. K = k => Doomed(K)
      BY <1>1, <3>3 DEF BeingPublished
    <3> QED BY <1>1, <1>2, <3>1, <3>2, <3>4
  <2> QED BY <1>1, <2>1, OthersKeep, Zenon
<1> QED BY <1>3, <1>4, <1>6, <1>7, <1>8, Zenon DEF PipelineInv

\* A built block is written under a key nobody has used.
LEMMA WriteBlockKeeps ==
    ASSUME PipelineInv, WriteBlock
    PROVE  PipelineInv'
<1>0. PICK f, k0 : f = FlushRange /\ k0 = BuiltKey(f)
  BY Zenon
<1>1. /\ builder = "poll" /\ position > committed /\ builder' = "save"
      /\ old' = [j \in Objects \cup {k0} |-> j # k0 /\ old[j]]
      /\ aged' = [c \in Compactors |-> aged[c] \ {k0}]
      /\ puts' = [puts EXCEPT ![f] = @ + 1]
      /\ UNCHANGED <<appended, committed, position, published, pc, index, added, retired, until,
                     stale, horizon, crashes>>
  BY <1>0, Zenon DEF WriteBlock, Put, wal
<1>2. /\ committed \in Nat /\ position \in Nat /\ Bound = committed /\ Bound' = Bound
      /\ FlushRange' = f
  BY <1>0, <1>1 DEF PipelineInv, Types, Bound, FlushRange
<1>3. f \in Ranges /\ f[1] = Bound /\ f[2] = position - 1 /\ f[2] >= Bound
  BY <1>0, <1>1, <1>2, BoundFacts
<1>4. k0 \in Keys /\ k0.level = 0 /\ Parts(k0) = {f} /\ BuiltKey(FlushRange)' = k0
  BY <1>0, <1>2, <1>3, BuiltFacts DEF BuiltKey
<1>5. ~Below(k0) /\ k0 \notin Objects
  <2>1. ~Below(k0)
    BY <1>2, <1>3, <1>4 DEF Below
  <2> QED BY <1>1, <2>1, Zenon DEF PipelineInv, Placed
<1>6. /\ Objects' = Objects \cup {k0} /\ old' \in [Objects' -> BOOLEAN] /\ ~old'[k0]
      /\ \A j \in Objects : old'[j] = old[j]
  <2>1. Objects' = Objects \cup {k0}
    BY <1>1 DEF Objects
  <2>2. \A j \in Objects' : old'[j] = (j # k0 /\ old[j])
    BY <1>1, <2>1, Zenon
  <2>3. old' \in [Objects' -> BOOLEAN]
    BY <1>1, <2>1
  <2>4. \A j \in Objects : old[j] \in BOOLEAN
    BY Zenon DEF PipelineInv, Types
  <2> QED BY <1>5, <2>1, <2>2, <2>3, <2>4, Zenon
<1>7. /\ puts[f] = 0 /\ puts'[f] = 1 /\ puts' \in [Ranges -> {0, 1}]
      /\ \A r \in Ranges : r # f => puts'[r] = puts[r]
  <2>1. puts[f] \in {0, 1} /\ puts[f] # 1
    BY <1>1, <1>2, <1>3 DEF PipelineInv, Types, Ordered
  <2> QED BY <1>1, <1>3, <2>1 DEF PipelineInv, Types
<1>8. Types'
  <2>1. aged' \in [Compactors -> SUBSET Keys]
    BY <1>1 DEF PipelineInv, Types
  <2> QED BY <1>1, <1>4, <1>6, <1>7, <2>1 DEF PipelineInv, Types
<1>9. Ordered'
  <2>1. \A r \in Ranges : puts'[r] = 1 => r = f \/ (puts[r] = 1 /\ r[2] < Bound)
    BY <1>1, <1>7 DEF PipelineInv, Ordered
  <2>2. \A r, q \in Ranges : puts'[r] = 1 /\ puts'[q] = 1 /\ r # q => r[2] < q[1] \/ q[2] < r[1]
    BY <1>3, <2>1 DEF PipelineInv, Ordered
  <2> QED BY <1>1, <1>2, <1>4, <1>6, <2>1, <2>2, Zenon DEF Ordered
<1>10. Placed'
  <2>1. \A k : (Stamped(k) => Stamped(k)') /\ (Below(k) => Below(k)')
    BY <1>2, <1>7, ZenonT(60) DEF Stamped, Below, FromJob, Parts
  <2>2. Stamped(k0)'
    BY <1>4, <1>7 DEF Stamped
  <2>3. \A c \in Compactors : Known(c)' \subseteq Known(c)
    BY <1>1 DEF Known
  <2>4. \A k \in Objects : Below(k)
    BY <1>1, Zenon DEF PipelineInv, Placed
  <2> QED BY <1>1, <1>4, <1>6, <2>1, <2>2, <2>3, <2>4, Zenon DEF PipelineInv, Placed
<1>11. Sound'
  BY <1>1, <1>2, <1>6, Zenon DEF PipelineInv, Sound, AllGone
<1>12. ASSUME NEW d \in Compactors  PROVE (Merges(d) /\ Deletes(d) /\ Sweeps(d))'
  <2>1. \A K \in added[d] : Doomed(K) \/ (/\ K \in Objects /\ ~old[K]
                                          /\ \A e \in Compactors : K \notin aged[e])
    BY DEF PipelineInv, Merges
  <2>2. \A K \in added[d] : Doomed(K)' \/ (/\ K \in Objects' /\ ~old'[K]
                                           /\ \A e \in Compactors : K \notin aged'[e])
    BY <1>1, <1>6, <2>1, Zenon DEF Doomed
  <2>3. aged'[d] \subseteq aged[d]
    BY <1>1, Zenon
  <2> QED BY <1>1, <2>2, <2>3, OthersKeep, Zenon
<1> QED BY <1>8, <1>9, <1>10, <1>11, <1>12 DEF PipelineInv

\* The builder publishes a block that exists and that no pass has met.
LEMMA SaveIndexKeeps ==
    ASSUME PipelineInv, SaveIndex
    PROVE  PipelineInv'
<1>0. PICK f, k0 : f = FlushRange /\ k0 = BuiltKey(f)
  BY Zenon
<1>1. /\ builder = "save" /\ builder' = "commit" /\ published' = published \cup {k0}
      /\ UNCHANGED <<appended, committed, position, puts, crashes, old, pc, index, added, retired,
                     until, aged, stale, horizon>>
  BY <1>0, Zenon DEF SaveIndex, wal, pass
<1>2. /\ committed \in Nat /\ position \in Nat /\ committed < position
      /\ Bound = committed /\ Bound' = position /\ Objects' = Objects
  BY <1>1, Zenon DEF PipelineInv, Types, Bound, Objects
<1>3. f \in Ranges /\ f[1] = committed /\ f[2] = position - 1
  BY <1>0, <1>2, BoundFacts, Zenon
<1>4. k0 \in Keys /\ k0.level = 0 /\ Parts(k0) = {f} /\ k0 \in Objects
  BY <1>0, <1>1, <1>3, BuiltFacts, Zenon DEF PipelineInv, Ordered
<1>5. \A r \in Ranges : BuiltKey(r) = k0 => r = f
  <2>1. \A r \in Ranges : Parts(BuiltKey(r)) = {r}
    BY BuiltFacts, Zenon
  <2> QED BY <1>4, <2>1, Zenon
<1>6. \A k : Below(k) => k # k0 /\ f \notin Parts(k) /\ Below(k)'
  BY <1>2, <1>3, <1>4, RangeFacts DEF Below, Parts
<1>7. Types'
  BY <1>1, <1>2, <1>4, Zenon DEF PipelineInv, Types
<1>8. Ordered'
  BY <1>0, <1>1, <1>2, <1>3, RangeFacts DEF PipelineInv, Ordered
<1>9. Placed'
  <2>1. \A k : Stamped(k) => Stamped(k)'
    BY <1>1, Zenon DEF Stamped
  <2>2. Below(k0)'
    BY <1>2, <1>3, <1>4 DEF Below
  <2>3. \A k \in Objects : Stamped(k)' /\ Below(k)'
    BY <1>0, <1>6, <2>1, <2>2, Zenon DEF PipelineInv, Placed
  <2>4. \A c \in Compactors : Known(c)' = Known(c)
    BY <1>1, Zenon DEF Known
  <2> QED BY <1>1, <1>2, <1>4, <1>6, <2>1, <2>2, <2>3, <2>4, Zenon DEF PipelineInv, Placed
<1>10. Sound'
  <2>1. published' \subseteq Objects'
    BY <1>1, <1>2, <1>4, Zenon DEF PipelineInv, Sound
  <2>2. ASSUME NEW o \in horizon..(position - 1)  PROVE \E k \in published' : Has(k, o)
    <3>0. horizon \in Nat
      BY Zenon DEF PipelineInv, Types
    <3>1. CASE o < committed
      BY <1>1, <1>2, <3>0, <3>1 DEF PipelineInv, Sound
    <3>2. CASE o >= committed
      <4>1. Has(k0, o)
        BY <1>2, <1>3, <1>4, <3>0, <3>2, KeyFacts
      <4> QED BY <1>1, <4>1, Zenon
    <3> QED BY <1>2, <3>0, <3>1, <3>2
  <2>3. \A k \in published : Below(k)
    BY Zenon DEF PipelineInv, Placed
  <2>4. \A k, j \in published' : Parts(k) \cap Parts(j) # {} => k = j
    <3>1. \A k \in published : Parts(k) \cap Parts(k0) = {}
      BY <1>4, <1>6, <2>3, Zenon
    <3> QED BY <1>1, <3>1, Zenon DEF PipelineInv, Sound
  <2>5. \A k \in published' : k.level = 1 => AllGone(k)'
    <3>1. ASSUME NEW k \in published, k.level = 1  PROVE AllGone(k)'
      <4>1. AllGone(k) /\ f \notin Parts(k) /\ Parts(k) \subseteq Ranges
        BY <1>6, <2>3, <3>1, Zenon DEF PipelineInv, Sound, Parts
      <4> QED BY <1>1, <1>5, <4>1, Zenon DEF AllGone
    <3> QED BY <1>1, <1>4, <3>1
  <2> QED BY <1>1, <1>2, <2>1, <2>2, <2>4, <2>5, Zenon DEF Sound
<1>11. ASSUME NEW d \in Compactors  PROVE (Merges(d) /\ Deletes(d) /\ Sweeps(d))'
  <2>1. \A k \in Known(d) : Below(k)
    BY Zenon DEF PipelineInv, Placed
  <2>2. \A k \in Known(d) : k \in published' => k \in published
    BY <1>1, <1>6, <2>1, Zenon
  <2>3. \A r \in Ranges : r[2] < Bound /\ BuiltKey(r) \in published' => BuiltKey(r) \in published
    BY <1>1, <1>2, <1>3, <1>5
  <2>4. ASSUME NEW K \in added[d]
        PROVE  Doomed(K)' \/ (/\ K \in Objects' /\ ~old'[K]
                              /\ \A e \in Compactors : K \notin aged'[e])
    <3>1. Doomed(K) \/ (/\ K \in Objects /\ ~old[K] /\ \A e \in Compactors : K \notin aged[e])
      BY Zenon DEF PipelineInv, Merges
    <3>2. Doomed(K) => Doomed(K)'
      BY <2>1, <2>3, Zenon DEF Known, Below, Doomed, Parts
    <3> QED BY <1>1, <1>2, <3>1, <3>2, Zenon
  <2> QED BY <1>1, <2>2, <2>3, <2>4, OthersKeep, Zenon DEF Known
<1> QED BY <1>7, <1>8, <1>9, <1>10, <1>11 DEF PipelineInv

-----------------------------------------------------------------------------
\* What a step of one compactor's own plan leaves alone.
Still ==
    UNCHANGED <<appended, committed, position, builder, puts, crashes, horizon>>

\* A step that leaves the builder alone keeps ranges, bounds and key stamps.
LEMMA StillFacts ==
    ASSUME PipelineInv, Still
    PROVE  /\ Bound' = Bound /\ FlushRange' = FlushRange
           /\ BuiltKey(FlushRange)' = BuiltKey(FlushRange)
           /\ \A k : (Stamped(k)' <=> Stamped(k)) /\ (Below(k)' <=> Below(k))
           /\ builder = "save" =>
                 /\ ~Below(BuiltKey(FlushRange)) /\ BuiltKey(FlushRange).level = 0
                 /\ BuiltKey(FlushRange) \in Objects
<1>1. Bound' = Bound /\ FlushRange' = FlushRange
  BY Zenon DEF Still, Bound, FlushRange
<1>2. BuiltKey(FlushRange)' = BuiltKey(FlushRange)
  BY <1>1, Zenon DEF BuiltKey
<1>3. \A k : (Stamped(k)' <=> Stamped(k)) /\ (Below(k)' <=> Below(k))
  BY <1>1, Zenon DEF Still, Stamped, Below
<1>4. ASSUME builder = "save"
      PROVE  /\ ~Below(BuiltKey(FlushRange)) /\ BuiltKey(FlushRange).level = 0
             /\ BuiltKey(FlushRange) \in Objects
  <2>1. committed < position /\ position \in Nat /\ committed \in Nat
    BY <1>4, Zenon DEF PipelineInv, Types
  <2>2. FlushRange \in Ranges /\ FlushRange[2] = position - 1 /\ Bound = committed
    BY <1>4, <2>1, BoundFacts, Zenon
  <2>3. Parts(BuiltKey(FlushRange)) = {FlushRange} /\ BuiltKey(FlushRange).level = 0
    BY <2>2, BuiltFacts, Zenon
  <2> QED BY <1>4, <2>1, <2>2, <2>3 DEF Below, PipelineInv, Ordered
<1> QED BY <1>1, <1>2, <1>3, <1>4, Zenon

\* However a pass ends, nothing of it is left to do harm.
LEMMA EndPassKeeps ==
    ASSUME PipelineInv, NEW c \in Compactors, EndPass(c), Still, UNCHANGED <<old, published>>
    PROVE  PipelineInv'
<1>1. /\ pc'[c] = "idle" /\ index'[c] = {} /\ added'[c] = {} /\ retired'[c] = {}
      /\ aged'[c] = {} /\ stale'[c] = {} /\ Objects' = Objects
      /\ \A d \in Compactors : d # c =>
            /\ pc'[d] = pc[d] /\ index'[d] = index[d] /\ added'[d] = added[d]
            /\ retired'[d] = retired[d] /\ until'[d] = until[d] /\ aged'[d] = aged[d]
            /\ stale'[d] = stale[d]
  BY Zenon DEF EndPass, Goto, PipelineInv, Types, Objects
<1>2. Types'
  <2>1. /\ pc' \in [Compactors -> {"idle", "compact", "save", "delete", "sweep", "reclaim"}]
        /\ index' \in [Compactors -> SUBSET Keys] /\ added' \in [Compactors -> SUBSET Keys]
        /\ retired' \in [Compactors -> SUBSET Keys] /\ aged' \in [Compactors -> SUBSET Keys]
        /\ stale' \in [Compactors -> SUBSET Keys]
    BY Zenon DEF EndPass, Goto, PipelineInv, Types
  <2>2. until' \in [Compactors -> Nat] /\ \A d \in Compactors : until'[d] <= horizon
    BY DEF EndPass, PipelineInv, Types
  <2> QED BY <1>1, <2>1, <2>2, Zenon DEF Still, PipelineInv, Types
<1>3. Ordered'
  BY <1>1, StillFacts, Zenon DEF Still, PipelineInv, Ordered
<1>4. Placed'
  <2>1. \A d \in Compactors : Known(d)' \subseteq Known(d)
    BY <1>1, Zenon DEF Known
  <2> QED BY <1>1, <2>1, StillFacts, Zenon DEF Still, PipelineInv, Placed
<1>5. Sound'
  BY <1>1, StillFacts, Zenon DEF Still, PipelineInv, Sound, AllGone
<1>6. ASSUME NEW d \in Compactors  PROVE (Merges(d) /\ Deletes(d) /\ Sweeps(d))'
  <2>1. CASE d = c
    BY <1>1, <2>1, Zenon DEF Merges, Deletes, Sweeps
  <2>2. CASE d # c
    <3>1. \A e \in Compactors : aged'[e] \subseteq aged[e]
      BY <1>1, Zenon
    <3>2. \A K \in added[d] : Doomed(K) \/ (/\ K \in Objects /\ ~old[K]
                                            /\ \A e \in Compactors : K \notin aged[e])
      BY Zenon DEF PipelineInv, Merges
    <3>3. \A K \in added[d] : Doomed(K)' \/ (/\ K \in Objects' /\ ~old'[K]
                                             /\ \A e \in Compactors : K \notin aged'[e])
      BY <1>1, <3>1, <3>2, Zenon DEF Doomed
    <3> QED BY <1>1, <2>2, <3>1, <3>3, OthersKeep, Zenon
  <2> QED BY <2>1, <2>2, Zenon
<1> QED BY <1>2, <1>3, <1>4, <1>5, <1>6, Zenon DEF PipelineInv

\* A pass begins with what is published and what is old.
LEMMA LoadIndexKeeps ==
    ASSUME PipelineInv, NEW c \in Compactors, LoadIndex(c)
    PROVE  PipelineInv'
<1>0. /\ pc[c] = "idle" /\ pc' = [pc EXCEPT ![c] = "compact"]
      /\ index' = [index EXCEPT ![c] = published] /\ until' = [until EXCEPT ![c] = horizon]
      /\ aged' = [aged EXCEPT ![c] = {k \in Objects : old[k]}]
      /\ UNCHANGED <<old, published, added, retired, stale>> /\ Still
  BY Zenon DEF LoadIndex, Goto, Still, wal, build
<1>1. /\ pc'[c] = "compact" /\ index'[c] = published /\ added'[c] = {} /\ retired'[c] = {}
      /\ aged'[c] = {k \in Objects : old[k]} /\ Objects' = Objects
      /\ \A d \in Compactors : d # c =>
            /\ pc'[d] = pc[d] /\ index'[d] = index[d]
            /\ until'[d] = until[d] /\ aged'[d] = aged[d]
  BY <1>0, Zenon DEF PipelineInv, Types, Objects, Merges, Deletes
<1>2. Types'
  <2>1. /\ pc' \in [Compactors -> {"idle", "compact", "save", "delete", "sweep", "reclaim"}]
        /\ index' \in [Compactors -> SUBSET Keys] /\ aged' \in [Compactors -> SUBSET Keys]
    BY <1>0, Zenon DEF PipelineInv, Types
  <2>2. until' \in [Compactors -> Nat] /\ \A d \in Compactors : until'[d] <= horizon
    BY <1>0 DEF PipelineInv, Types
  <2> QED BY <1>0, <1>1, <2>1, <2>2, Zenon DEF Still, PipelineInv, Types
<1>3. Ordered'
  BY <1>0, <1>1, StillFacts, Zenon DEF Still, PipelineInv, Ordered
<1>4. Placed'
  <2>1. \A k \in aged'[c] : Stamped(k) /\ Below(k)
    BY <1>1, Zenon DEF PipelineInv, Placed
  <2>2. \A d \in Compactors : \A k \in Known(d)' : Stamped(k) /\ Below(k)
    BY <1>0, <1>1, <2>1, Zenon DEF Known, PipelineInv, Placed
  <2> QED BY <1>0, <1>1, <2>2, StillFacts, Zenon DEF Still, PipelineInv, Placed
<1>5. Sound'
  BY <1>0, <1>1, StillFacts, Zenon DEF Still, PipelineInv, Sound, AllGone
<1>6. ASSUME NEW d \in Compactors  PROVE (Merges(d) /\ Deletes(d) /\ Sweeps(d))'
  <2>1. CASE d = c
    BY <1>0, <1>1, <2>1, Zenon DEF Merges, Deletes, Sweeps
  <2>2. CASE d # c
    <3>1. \A K \in added[d] : Doomed(K) \/ (/\ K \in Objects /\ ~old[K]
                                            /\ \A e \in Compactors : K \notin aged[e])
      BY Zenon DEF PipelineInv, Merges
    <3>2. \A K \in added[d] : Doomed(K)' \/ (/\ K \in Objects' /\ ~old'[K]
                                             /\ \A e \in Compactors : K \notin aged'[e])
      BY <1>0, <1>1, <3>1, Zenon DEF Doomed
    <3> QED BY <1>0, <1>1, <2>2, <3>2, OthersKeep, Zenon
  <2> QED BY <2>1, <2>2, Zenon
<1> QED BY <1>2, <1>3, <1>4, <1>5, <1>6, Zenon DEF PipelineInv

\* The output of a job is a key of the ranges its inputs hold.
LEMMA JobOutput ==
    ASSUME PipelineInv, NEW c \in Compactors, NEW S \in Jobs(c)
    PROVE  \E K \in Keys :
              /\ K = CompactedKey(S) /\ K.level = 1 /\ Stamped(K) /\ Below(K)
              /\ S \subseteq index[c] /\ \A k \in S : k.level = 0
              /\ \A r \in Parts(K) : BuiltKey(r) \in S
              /\ \A k \in S : Parts(k) \subseteq Parts(K)
<1>1. S \in JobsIn(index[c]) /\ index[c] \subseteq Keys
  BY Zenon DEF Jobs, PipelineInv, Types
<1>2. /\ S \subseteq index[c] /\ \A k \in S : k.level = 0
      /\ \E j, k \in S : j # k
      /\ \A j, k \in S : \A r \in Parts(j), q \in Parts(k) :
            r[1] \div Window = q[1] \div Window
  BY <1>1, JobFacts
<1>3. \A k \in S : k \in Keys /\ Stamped(k) /\ Below(k)
  BY <1>1, <1>2, Zenon DEF PipelineInv, Placed, Known
<1>4. PICK T : T = {q \in Ranges : BuiltKey(q) \in S}
  BY Zenon
<1>5. CompactedKey(S) = Merged(T)
  BY <1>3, <1>4, CompactedIs, Zenon DEF Stamped
<1>6. PICK K : K = Merged(T)
  BY Zenon
<1>7. K \in Keys /\ K.level = 1 /\ Parts(K) = T
  BY <1>4, <1>6, MergedFacts, Zenon
<1>8. \A r \in T : r \in Ranges /\ BuiltKey(r) \in S /\ Parts(BuiltKey(r)) = {r}
  BY <1>4, BuiltFacts, Zenon
<1>9. \A k \in S : \E r \in T : k = BuiltKey(r) /\ Parts(k) = {r}
  <2> SUFFICES ASSUME NEW k \in S  PROVE \E r \in T : k = BuiltKey(r) /\ Parts(k) = {r}
    BY Zenon
  <2>1. PICK r \in Ranges : k = BuiltKey(r)
    BY <1>2, <1>3, KeyFacts, Zenon
  <2> QED BY <1>4, <1>8, <2>1, Zenon
<1>10. Below(K)
  BY <1>3, <1>7, <1>8, Zenon DEF Below
<1>11. FromJob(K)
  <2>1. \E r, q \in T : r # q
    BY <1>2, <1>9, Zenon
  <2>2. \A r, q \in T : r[1] \div Window = q[1] \div Window
    <3> SUFFICES ASSUME NEW r \in T, NEW q \in T
                 PROVE  r[1] \div Window = q[1] \div Window
      BY Zenon
    <3>1. r \in Parts(BuiltKey(r)) /\ q \in Parts(BuiltKey(q))
      BY <1>8, Zenon
    <3>2. BuiltKey(r) \in S /\ BuiltKey(q) \in S
      BY <1>8, Zenon
    <3> QED BY <1>2, <3>1, <3>2
  <2> QED BY <1>7, <2>1, <2>2, Zenon DEF FromJob
<1>12. Stamped(K)
  BY <1>3, <1>7, <1>8, <1>11, Zenon DEF Stamped
<1> QED BY <1>2, <1>5, <1>6, <1>7, <1>8, <1>9, <1>10, <1>12

\* A job's output is young, and stands for exactly the inputs it replaces.
LEMMA CompactJobKeeps ==
    ASSUME PipelineInv, NEW c \in Compactors, CompactJob(c)
    PROVE  PipelineInv'
<1>0. PICK S \in Jobs(c) :
        /\ S \subseteq Objects /\ Put(CompactedKey(S))
        /\ index' = [index EXCEPT ![c] = (@ \ S) \cup {CompactedKey(S)}]
        /\ added' = [added EXCEPT ![c] = @ \cup {CompactedKey(S)}]
        /\ retired' = [retired EXCEPT ![c] = @ \cup S]
  BY Zenon DEF CompactJob
<1>u. pc[c] = "compact" /\ Still /\ UNCHANGED <<published, pc, until, stale>>
  BY Zenon DEF CompactJob, Still, wal, build
<1>1. PICK K \in Keys :
              /\ K = CompactedKey(S) /\ K.level = 1 /\ Stamped(K) /\ Below(K)
              /\ S \subseteq index[c] /\ \A k \in S : k.level = 0
              /\ \A r \in Parts(K) : BuiltKey(r) \in S
              /\ \A k \in S : Parts(k) \subseteq Parts(K)
  BY JobOutput, Zenon
<1>2. /\ old' = [j \in Objects \cup {K} |-> j # K /\ old[j]]
      /\ aged' = [d \in Compactors |-> aged[d] \ {K}]
      /\ index' = [index EXCEPT ![c] = (@ \ S) \cup {K}]
      /\ added' = [added EXCEPT ![c] = @ \cup {K}]
      /\ retired' = [retired EXCEPT ![c] = @ \cup S]
  BY <1>0, <1>1, Zenon DEF Put
<1>3. /\ index'[c] = (index[c] \ S) \cup {K} /\ added'[c] = added[c] \cup {K}
      /\ retired'[c] = retired[c] \cup S
      /\ \A d \in Compactors : aged'[d] = aged[d] \ {K}
      /\ \A d \in Compactors : d # c =>
            index'[d] = index[d] /\ added'[d] = added[d] /\ retired'[d] = retired[d]
  BY <1>2, Zenon DEF PipelineInv, Types
<1>4. /\ Objects' = Objects \cup {K} /\ ~old'[K]
      /\ \A j \in Objects : ~old[j] => ~old'[j]
      /\ \A j \in Objects : j # K => old'[j] = old[j]
  BY <1>2, Zenon DEF PipelineInv, Types, Objects
<1>5. Types'
  <2>1. old' \in [Objects' -> BOOLEAN]
    <3>1. \A j \in Objects \cup {K} : (j # K /\ old[j]) \in BOOLEAN
      BY Zenon
    <3> QED BY <1>2, <1>4, <3>1, Zenon
  <2>2. /\ index' \in [Compactors -> SUBSET Keys] /\ added' \in [Compactors -> SUBSET Keys]
        /\ retired' \in [Compactors -> SUBSET Keys] /\ aged' \in [Compactors -> SUBSET Keys]
    BY <1>1, <1>2 DEF PipelineInv, Types
  <2> QED BY <1>u, <1>4, <2>1, <2>2, Zenon DEF Still, PipelineInv, Types
<1>6. Ordered'
  BY <1>u, <1>4, StillFacts, Zenon DEF Still, PipelineInv, Ordered
<1>7. Placed'
  <2>1. \A d \in Compactors : \A k \in Known(d)' : k = K \/ k \in Known(d)
    BY <1>u, <1>1, <1>3 DEF Known
  <2>2. \A k \in published : Stamped(k) /\ Below(k)
    BY Zenon DEF PipelineInv, Placed
  <2>3. \A d \in Compactors : \A k \in Known(d)' : Stamped(k) /\ Below(k)
    BY <1>1, <2>1, Zenon DEF PipelineInv, Placed
  <2>4. \A k \in Objects' :
          /\ Stamped(k)
          /\ Below(k) \/ (builder = "save" /\ k = BuiltKey(FlushRange) /\ ~old'[k])
    BY <1>1, <1>4, Zenon DEF PipelineInv, Placed
  <2>5. \A k : (Stamped(k)' <=> Stamped(k)) /\ (Below(k)' <=> Below(k))
    BY <1>u, StillFacts, Zenon
  <2>6. BuiltKey(FlushRange)' = BuiltKey(FlushRange) /\ builder' = builder /\ published' = published
    BY <1>u, StillFacts, Zenon DEF Still
  <2> QED BY <2>2, <2>3, <2>4, <2>5, <2>6, Zenon DEF Placed
<1>8. Sound'
  BY <1>u, <1>4, StillFacts, Zenon DEF Still, PipelineInv, Sound, AllGone
<1>9. ASSUME NEW d \in Compactors  PROVE (Merges(d) /\ Deletes(d) /\ Sweeps(d))'
  <2>0. \A J \in added[d] : Doomed(J) \/ (/\ J \in Objects /\ ~old[J]
                                          /\ \A e \in Compactors : J \notin aged[e])
    BY Zenon DEF PipelineInv, Merges
  <2>1. \A J \in added[d] : Doomed(J)' \/ (/\ J \in Objects' /\ ~old'[J]
                                           /\ \A e \in Compactors : J \notin aged'[e])
    BY <1>u, <1>3, <1>4, <2>0, ZenonT(60) DEF Doomed
  <2>2. CASE d # c
    BY <1>u, <1>3, <2>1, <2>2, OthersKeep, Zenon
  <2>3. CASE d = c
    <3>0. /\ \A J \in added[c] : J.level = 1 /\ \A r \in Parts(J) : BuiltKey(r) \in retired[c]
          /\ \A I, J \in added[c] : Parts(I) \cap Parts(J) # {} => I = J
          /\ \A k \in index[c] : k.level = 0 => k \notin retired[c]
          /\ \A k \in retired[c] : \A r \in Parts(k) :
                r[2] < until[c] \/ \E J \in added[c] : r \in Parts(J)
      BY <1>u, Zenon DEF PipelineInv, Merges
    <3>1. \A J \in added'[c] : J.level = 1 /\ \A r \in Parts(J) : BuiltKey(r) \in retired'[c]
      BY <1>1, <1>3, <3>0, Zenon
    <3>2. \A J \in added'[c] : Doomed(J)' \/ (/\ J \in Objects' /\ ~old'[J]
                                              /\ \A e \in Compactors : J \notin aged'[e])
      BY <1>3, <1>4, <2>1, <2>3, ZenonT(60)
    <3>3. \A I, J \in added'[c] : Parts(I) \cap Parts(J) # {} => I = J
      <4>1. ASSUME NEW J \in added[c], NEW r \in Parts(J), r \in Parts(K)  PROVE FALSE
        <5>1. BuiltKey(r) \in S /\ BuiltKey(r) \in retired[c]
          BY <1>1, <3>0, <4>1, Zenon
        <5> QED BY <1>1, <3>0, <5>1, Zenon
      <4> QED BY <1>3, <3>0, <4>1, Zenon
    <3>4. \A k \in index'[c] : k.level = 0 => k \notin retired'[c]
      BY <1>1, <1>3, <3>0
    <3>5. \A k \in retired'[c] : \A r \in Parts(k) :
                r[2] < until'[c] \/ \E J \in added'[c] : r \in Parts(J)
      BY <1>u, <1>1, <1>3, <3>0, Zenon
    <3>6. Merges(c)'
      BY <1>u, <3>1, <3>2, <3>3, <3>4, <3>5, Zenon DEF Merges
    <3>7. Deletes(c)'
      BY <1>u, Zenon DEF Deletes
    <3>8. Sweeps(c)'
      BY <1>u, <1>3, ZenonT(60) DEF Sweeps, PipelineInv
    <3> QED BY <2>3, <3>6, <3>7, <3>8, Zenon
  <2> QED BY <2>2, <2>3, Zenon
<1> QED BY <1>5, <1>6, <1>7, <1>8, <1>9, Zenon DEF PipelineInv

\* Expired blocks move from the index of the pass to what it retires.
LEMMA ExpireKeeps ==
    ASSUME PipelineInv, NEW c \in Compactors, Expire(c)
    PROVE  PipelineInv'
<1>0. PICK gone : gone = {k \in index[c] : Expired(c, k)}
  BY Zenon
<1>1. /\ pc[c] = "compact" /\ Jobs(c) = {}
      /\ index' = [index EXCEPT ![c] = @ \ gone]
      /\ added' = [added EXCEPT ![c] = @ \ gone]
      /\ retired' = [retired EXCEPT ![c] = @ \cup gone]
      /\ pc' = [pc EXCEPT ![c] = IF retired[c] \cup gone = {} THEN "sweep" ELSE "save"]
      /\ UNCHANGED <<old, published, until, aged, stale>> /\ Still
  BY <1>0, Zenon DEF Expire, Goto, Still, wal, build
<1>2. /\ index'[c] = index[c] \ gone /\ added'[c] = added[c] \ gone
      /\ retired'[c] = retired[c] \cup gone
      /\ pc'[c] = IF retired[c] \cup gone = {} THEN "sweep" ELSE "save"
      /\ Objects' = Objects
      /\ \A d \in Compactors : d # c =>
            /\ pc'[d] = pc[d] /\ index'[d] = index[d]
            /\ added'[d] = added[d] /\ retired'[d] = retired[d]
  BY <1>1, Zenon DEF PipelineInv, Types, Objects
<1>3. gone \subseteq index[c] /\ \A k \in gone : k \in Keys /\ \A r \in Parts(k) : r[2] < until[c]
  <2>1. \A k \in gone : k \in index[c] /\ k \in Keys /\ Expired(c, k)
    BY <1>0, Zenon DEF PipelineInv, Types
  <2> QED BY <2>1, ExpiredIs, Zenon
<1>4. Types'
  <2>1. /\ index' \in [Compactors -> SUBSET Keys] /\ added' \in [Compactors -> SUBSET Keys]
        /\ retired' \in [Compactors -> SUBSET Keys]
        /\ pc' \in [Compactors -> {"idle", "compact", "save", "delete", "sweep", "reclaim"}]
    BY <1>1, <1>3, ZenonT(60) DEF PipelineInv, Types
  <2> QED BY <1>1, <1>2, <2>1, Zenon DEF Still, PipelineInv, Types
<1>5. Ordered'
  BY <1>1, <1>2, StillFacts, Zenon DEF Still, PipelineInv, Ordered
<1>6. Placed'
  <2>1. \A d \in Compactors : Known(d)' \subseteq Known(d)
    BY <1>1, <1>2, <1>3, ZenonT(60) DEF Known
  <2> QED BY <1>1, <1>2, <2>1, StillFacts, Zenon DEF Still, PipelineInv, Placed
<1>7. Sound'
  BY <1>1, <1>2, StillFacts, Zenon DEF Still, PipelineInv, Sound, AllGone
<1>8. ASSUME NEW d \in Compactors  PROVE (Merges(d) /\ Deletes(d) /\ Sweeps(d))'
  <2>0. \A J \in added[d] : Doomed(J) \/ (/\ J \in Objects /\ ~old[J]
                                          /\ \A e \in Compactors : J \notin aged[e])
    BY Zenon DEF PipelineInv, Merges
  <2>1. \A J \in added[d] : Doomed(J)' \/ (/\ J \in Objects' /\ ~old'[J]
                                           /\ \A e \in Compactors : J \notin aged'[e])
    BY <1>1, <1>2, <2>0, Zenon DEF Doomed
  <2>2. CASE d # c
    BY <1>1, <1>2, <2>1, <2>2, OthersKeep, Zenon
  <2>3. CASE d = c
    <3>0. /\ \A J \in added[c] : J.level = 1 /\ \A r \in Parts(J) : BuiltKey(r) \in retired[c]
          /\ \A I, J \in added[c] : Parts(I) \cap Parts(J) # {} => I = J
          /\ \A k \in index[c] : k.level = 0 => k \notin retired[c]
          /\ \A k \in retired[c] : \A r \in Parts(k) :
                r[2] < until[c] \/ \E J \in added[c] : r \in Parts(J)
      BY <1>1, Zenon DEF PipelineInv, Merges
    <3>1. pc'[c] # "save" => added'[c] = {} /\ retired[c] = {} /\ index'[c] = index[c]
      <4>1. ASSUME NEW J \in added[c]  PROVE retired[c] # {}
        <5>1. Stamped(J) /\ J.level = 1
          BY <3>0, <4>1, Zenon DEF PipelineInv, Placed, Known
        <5> QED BY <3>0, <5>1, PartsOf, Zenon
      <4> QED BY <1>2, <4>1, Zenon
    <3>2. \A k \in retired'[c] : \A r \in Parts(k) :
                r[2] < until'[c] \/ \E J \in added'[c] : r \in Parts(J)
      <4> SUFFICES ASSUME NEW k \in retired'[c], NEW r \in Parts(k), ~(r[2] < until[c])
                   PROVE  \E J \in added'[c] : r \in Parts(J)
        BY <1>1, Zenon
      <4>1. PICK J \in added[c] : r \in Parts(J)
        BY <1>2, <1>3, <3>0, Zenon
      <4> QED BY <1>2, <1>3, <4>1, Zenon
    <3>3. Merges(c)'
      BY <1>1, <1>2, <1>3, <2>1, <2>3, <3>0, <3>1, <3>2, Zenon DEF Merges
    <3>4. Deletes(c)'
      BY <1>2, Zenon DEF Deletes
    <3>5. Jobs(c)' = {}
      <4>1. JobsIn(index[c]) = {} /\ Jobs(c)' = JobsIn(index'[c]) /\ index[c] \subseteq Keys
        BY <1>1, Zenon DEF Jobs, PipelineInv, Types
      <4>2. index'[c] \subseteq index[c]
        BY <1>2, Zenon
      <4>3. ASSUME NEW S \in JobsIn(index'[c])  PROVE FALSE
        <5>1. /\ S \subseteq index'[c] /\ \A k \in S : k.level = 0
              /\ \E j, k \in S : j # k
              /\ \A j, k \in S : \A r \in Parts(j), q \in Parts(k) :
                    r[1] \div Window = q[1] \div Window
          BY <4>1, <4>2, <4>3, JobFacts
        <5>2. PICK j \in S, k \in S : j # k
          BY <5>1, Zenon
        <5>3. PICK r \in Ranges : j = BuiltKey(r)
          BY <4>1, <4>2, <5>1, KeyFacts, Zenon
        <5>4. PICK q \in Ranges : k = BuiltKey(q)
          BY <4>1, <4>2, <5>1, KeyFacts, Zenon
        <5>5. r \in Parts(j) /\ q \in Parts(k)
          BY <5>3, <5>4, BuiltFacts, Zenon
        <5>6. r[1] \div Window = q[1] \div Window
          BY <5>1, <5>5
        <5> QED BY <4>1, <4>2, <5>1, <5>2, <5>3, <5>4, <5>6, JobsFound, Zenon
      <4> QED BY <4>1, <4>3, Zenon
    <3>6. Sweeps(c)'
      <4>1. \A k \in aged[c] :
              /\ k \in published => k \in index[c] \cup retired[c]
              /\ k.level = 1 => \A r \in Parts(k) :
                    BuiltKey(r) \in published => BuiltKey(r) \in index[c] \cup retired[c]
        BY <1>1, Zenon DEF PipelineInv, Sweeps
      <4>2. CASE pc'[c] = "save"
        BY <1>1, <1>2, <1>3, <3>5, <4>1, <4>2, Zenon DEF Sweeps
      <4>3. CASE pc'[c] # "save"
        BY <1>1, <1>2, <1>3, <3>1, <3>5, <4>1, <4>3, Zenon DEF Sweeps
      <4> QED BY <4>2, <4>3, Zenon
    <3> QED BY <2>3, <3>3, <3>4, <3>6, Zenon
  <2> QED BY <2>2, <2>3, Zenon
<1> QED BY <1>4, <1>5, <1>6, <1>7, <1>8, Zenon DEF PipelineInv

\* What a pass publishes exists, is in nobody's sweep, and shares no record with
\* what stays published.
LEMMA PublishFacts ==
    ASSUME PipelineInv, NEW c \in Compactors, pc[c] = "save", ~SaveRefused(c)
    PROVE  /\ retired[c] \subseteq published
           /\ \A K \in added[c] :
                 /\ K \in Keys /\ K.level = 1 /\ Stamped(K) /\ Below(K)
                 /\ Parts(K) # {} /\ \A r \in Parts(K) : BuiltKey(r) \in retired[c]
                 /\ ~Doomed(K) /\ ~AllGone(K) /\ K \notin published
                 /\ K \in Objects /\ \A d \in Compactors : K \notin aged[d]
<1>1. retired[c] \subseteq published
  BY Zenon DEF SaveRefused
<1>2. \A K \in added[c] :
         /\ K \in Keys /\ K.level = 1 /\ Stamped(K) /\ Below(K)
         /\ \A r \in Parts(K) : BuiltKey(r) \in retired[c]
         /\ Doomed(K) \/ (K \in Objects /\ \A d \in Compactors : K \notin aged[d])
  <2>1. \A K \in added[c] : K \in Keys /\ Stamped(K) /\ Below(K)
    BY Zenon DEF PipelineInv, Types, Placed, Known
  <2> QED BY <2>1, Zenon DEF PipelineInv, Merges
<1>3. \A K \in added[c] : ~Doomed(K)
  BY <1>1, <1>2, Zenon DEF Doomed
<1>4. \A K \in added[c] : Parts(K) # {} /\ ~AllGone(K)
  BY <1>2, <1>3, PartsOf, Zenon
<1>5. \A K \in added[c] : K \notin published
  BY <1>2, <1>4, Zenon DEF PipelineInv, Sound
<1> QED BY <1>1, <1>2, <1>3, <1>4, <1>5, Zenon

\* A save replaces what the pass retires by what it merged.
LEMMA PublishPassKeeps ==
    ASSUME PipelineInv, NEW c \in Compactors, PublishPass(c)
    PROVE  PipelineInv'
<1>1. /\ pc[c] = "save" /\ ~SaveRefused(c)
      /\ published' = (published \ retired[c]) \cup added[c]
      /\ added' = [added EXCEPT ![c] = {}] /\ pc' = [pc EXCEPT ![c] = "delete"]
      /\ UNCHANGED <<old, index, retired, until, aged, stale>> /\ Still
  BY Zenon DEF PublishPass, Goto, Still, wal, build
<1>2. /\ added'[c] = {} /\ pc'[c] = "delete" /\ Objects' = Objects
      /\ \A d \in Compactors : d # c => added'[d] = added[d] /\ pc'[d] = pc[d]
  BY <1>1, Zenon DEF PipelineInv, Types, Objects
<1>3. /\ retired[c] \subseteq published
      /\ \A K \in added[c] :
            /\ K \in Keys /\ K.level = 1 /\ Stamped(K) /\ Below(K)
            /\ Parts(K) # {} /\ \A r \in Parts(K) : BuiltKey(r) \in retired[c]
            /\ ~Doomed(K) /\ ~AllGone(K) /\ K \notin published
            /\ K \in Objects /\ \A d \in Compactors : K \notin aged[d]
  BY <1>1, PublishFacts, Zenon
<1>4. \A r \in Ranges : BuiltKey(r) \in published' => BuiltKey(r) \in published \ retired[c]
  <2>1. \A r \in Ranges : BuiltKey(r).level = 0
    BY BuiltFacts, Zenon
  <2> QED BY <1>1, <1>3, <2>1
<1>5. \A k : (AllGone(k) => AllGone(k)') /\ (Doomed(k) => Doomed(k)')
  BY <1>4, Zenon DEF AllGone, Doomed, Parts
<1>6. Types'
  <2>1. /\ added' \in [Compactors -> SUBSET Keys]
        /\ pc' \in [Compactors -> {"idle", "compact", "save", "delete", "sweep", "reclaim"}]
    BY <1>1, Zenon DEF PipelineInv, Types
  <2>2. published' \subseteq Keys
    BY <1>1, <1>3, Zenon DEF PipelineInv, Types
  <2> QED BY <1>1, <1>2, <2>1, <2>2, Zenon DEF Still, PipelineInv, Types
<1>7. Ordered'
  BY <1>1, <1>2, StillFacts, Zenon DEF Still, PipelineInv, Ordered
<1>8. Placed'
  <2>1. \A d \in Compactors : Known(d)' \subseteq Known(d)
    BY <1>1, <1>2, ZenonT(60) DEF Known
  <2>2. \A k \in published' : Stamped(k) /\ Below(k)
    BY <1>1, <1>3, Zenon DEF PipelineInv, Placed
  <2> QED BY <1>1, <1>2, <2>1, <2>2, StillFacts, Zenon DEF Still, PipelineInv, Placed
<1>9. Sound'
  <2>1. published' \subseteq Objects'
    BY <1>1, <1>2, <1>3, Zenon DEF PipelineInv, Sound
  <2>2. ASSUME NEW o \in horizon..(Bound - 1)  PROVE \E k \in published' : Has(k, o)
    <3>0. horizon \in Nat /\ Bound \in Nat /\ until[c] \in Nat /\ until[c] <= horizon
      BY BoundFacts, Zenon DEF PipelineInv, Types
    <3>1. PICK k \in published : Has(k, o)
      BY Zenon DEF PipelineInv, Sound
    <3>2. CASE k \notin retired[c]
      BY <1>1, <3>1, <3>2, Zenon
    <3>3. CASE k \in retired[c]
      <4>1. k \in Keys
        BY Zenon DEF PipelineInv, Types
      <4>2. PICK r \in Parts(k) : r[1] <= o /\ o <= r[2]
        BY <3>1, <4>1, KeyFacts, Zenon
      <4>3. r[2] \in Nat
        BY RangeFacts, Zenon DEF Parts
      <4>4. ~(r[2] < until[c])
        BY <3>0, <4>2, <4>3
      <4>5. PICK K \in added[c] : r \in Parts(K)
        BY <1>1, <3>3, <4>4, Zenon DEF PipelineInv, Merges
      <4>6. Has(K, o)
        BY <1>3, <4>2, <4>5, KeyFacts, Zenon
      <4> QED BY <1>1, <4>6, Zenon
    <3> QED BY <3>2, <3>3, Zenon
  <2>3. \A k, j \in published' : Parts(k) \cap Parts(j) # {} => k = j
    <3>1. ASSUME NEW K \in added[c], NEW j \in published \ retired[c],
                 NEW r \in Parts(K), r \in Parts(j)
          PROVE  FALSE
      <4>1. BuiltKey(r) \in retired[c] /\ BuiltKey(r) \in published /\ r \in Parts(BuiltKey(r))
        BY <1>3, <3>1, BuiltFacts DEF Parts
      <4> QED BY <3>1, <4>1, Zenon DEF PipelineInv, Sound
    <3>2. \A J, K \in added[c] : Parts(J) \cap Parts(K) # {} => J = K
      BY Zenon DEF PipelineInv, Merges
    <3>3. \A k, j \in published : Parts(k) \cap Parts(j) # {} => k = j
      BY Zenon DEF PipelineInv, Sound
    <3> QED BY <1>1, <3>1, <3>2, <3>3, ZenonT(60)
  <2>4. \A k \in published' : k.level = 1 => AllGone(k)'
    <3>1. \A K \in added[c] : AllGone(K)'
      BY <1>3, <1>4, Zenon DEF AllGone, Parts
    <3> QED BY <1>1, <1>5, <3>1, Zenon DEF PipelineInv, Sound
  <2>5. horizon' = horizon /\ Bound' = Bound
    BY <1>1, StillFacts, Zenon DEF Still
  <2> QED BY <2>1, <2>2, <2>3, <2>4, <2>5, Zenon DEF Sound
<1>10. ASSUME NEW d \in Compactors  PROVE (Merges(d) /\ Deletes(d) /\ Sweeps(d))'
  <2>2. CASE d # c
    <3>0. \A J \in added[d] : Doomed(J) \/ (/\ J \in Objects /\ ~old[J]
                                          /\ \A e \in Compactors : J \notin aged[e])
      BY Zenon DEF PipelineInv, Merges
    <3>1. \A J \in added[d] : Doomed(J)' \/ (/\ J \in Objects' /\ ~old'[J]
                                           /\ \A e \in Compactors : J \notin aged'[e])
      BY <1>1, <1>2, <1>5, <3>0, Zenon
    <3>2. \A k \in aged[d] : k \in published' => k \in published
      BY <1>1, <1>3, Zenon
    <3>3. pc[d] = "delete" => \A k \in retired[d] : k \in published' => k \in published
      BY <1>1, <1>3, Zenon DEF PipelineInv, Deletes
    <3>4. pc[d] = "reclaim" => \A k \in stale[d] : k \in published' => k \in published
      BY <1>1, <1>3, Zenon DEF PipelineInv, Deletes
    <3> QED BY <1>1, <1>2, <1>4, <2>2, <3>1, <3>2, <3>3, <3>4, OthersKeep, Zenon
  <2>3. CASE d = c
    <3>1. Merges(c)'
      BY <1>2, Zenon DEF Merges
    <3>2. Deletes(c)'
      BY <1>1, <1>2, <1>3, <1>5, Zenon DEF PipelineInv, Deletes, Sound
    <3>3. Sweeps(c)'
      <4>1. Jobs(c)' = Jobs(c)
        BY <1>1, Zenon DEF Jobs
      <4>2. Jobs(c) = {} /\ \A k \in aged[c] :
              /\ k \in published => k \in index[c] \cup retired[c]
              /\ k.level = 1 => \A r \in Parts(k) :
                    BuiltKey(r) \in published => BuiltKey(r) \in index[c] \cup retired[c]
        BY <1>1, Zenon DEF PipelineInv, Sweeps
      <4>3. \A k \in aged[c] :
              /\ k \in published' => k \in index[c]
              /\ k.level = 1 => \A r \in Parts(k) :
                    BuiltKey(r) \in published' => BuiltKey(r) \in index[c]
        BY <1>1, <1>3, <1>4, <4>2, Zenon DEF Parts
      <4> QED BY <1>1, <1>2, <4>1, <4>2, <4>3, Zenon DEF Sweeps
    <3> QED BY <2>3, <3>1, <3>2, <3>3, Zenon
  <2> QED BY <2>2, <2>3, Zenon
<1> QED BY <1>6, <1>7, <1>8, <1>9, <1>10, Zenon DEF PipelineInv

\* A pass that has published may stop deleting, or delete, what nobody names.
LEMMA DropKeeps ==
    ASSUME PipelineInv, NEW c \in Compactors, pc[c] \in {"delete", "reclaim"}, NEW G,
           Still, UNCHANGED <<published, pc, index, added, until, aged>>,
           retired' \in [Compactors -> SUBSET Keys], stale' \in [Compactors -> SUBSET Keys],
           retired'[c] \subseteq retired[c], stale'[c] \subseteq stale[c],
           \A d \in Compactors : d # c => retired'[d] = retired[d] /\ stale'[d] = stale[d],
           old' = [j \in Objects \ G |-> old[j]],
           \A k \in G : k \notin published /\ Below(k) /\ (k.level = 1 => Doomed(k))
    PROVE  PipelineInv'
<1>1. /\ Objects' = Objects \ G /\ \A j \in Objects' : old'[j] = old[j]
      /\ old' \in [Objects' -> BOOLEAN]
  BY Zenon DEF PipelineInv, Types, Objects
<1>2. Types'
  BY <1>1, Zenon DEF Still, PipelineInv, Types
<1>3. builder = "save" => BuiltKey(FlushRange) \in Objects'
  BY <1>1, StillFacts, Zenon
<1>4. Ordered'
  BY <1>3, StillFacts, Zenon DEF Still, PipelineInv, Ordered
<1>5. Placed'
  <2>1. \A d \in Compactors : Known(d)' \subseteq Known(d)
    BY ZenonT(60) DEF Known
  <2>2. \A k \in Objects' :
          /\ Stamped(k)
          /\ Below(k) \/ (builder = "save" /\ k = BuiltKey(FlushRange) /\ ~old'[k])
    BY <1>1, Zenon DEF PipelineInv, Placed
  <2> QED BY <2>1, <2>2, StillFacts, Zenon DEF Still, PipelineInv, Placed
<1>6. Sound'
  BY <1>1, StillFacts, Zenon DEF Still, PipelineInv, Sound, AllGone
<1>7. ASSUME NEW d \in Compactors  PROVE (Merges(d) /\ Deletes(d) /\ Sweeps(d))'
  <2>1. CASE d # c
    <3>0. \A J \in added[d] : J.level = 1 /\ (Doomed(J) \/ (/\ J \in Objects /\ ~old[J]
                                          /\ \A e \in Compactors : J \notin aged[e]))
      BY Zenon DEF PipelineInv, Merges
    <3>1. \A J \in added[d] : Doomed(J)' \/ (/\ J \in Objects' /\ ~old'[J]
                                           /\ \A e \in Compactors : J \notin aged'[e])
      BY <1>1, <3>0, Zenon DEF Doomed
    <3> QED BY <2>1, <3>1, OthersKeep, Zenon
  <2>2. CASE d = c
    <3>1. Merges(c)'
      BY Zenon DEF PipelineInv, Merges
    <3>2. Deletes(c)'
      BY Zenon DEF PipelineInv, Deletes, AllGone, Doomed
    <3>3. Sweeps(c)'
      <4>1. Jobs(c)' = Jobs(c)
        BY Zenon DEF Jobs
      <4> QED BY <4>1, Zenon DEF PipelineInv, Sweeps
    <3> QED BY <2>2, <3>1, <3>2, <3>3, Zenon
  <2> QED BY <2>1, <2>2, Zenon
<1> QED BY <1>2, <1>4, <1>5, <1>6, <1>7, Zenon DEF PipelineInv

\* A retired object goes after the save that retired it, or stays.
LEMMA DeleteRetiredKeeps ==
    ASSUME PipelineInv, NEW c \in Compactors, DeleteRetired(c)
    PROVE  PipelineInv'
<1>1. PICK k \in retired[c] :
        /\ retired' = [retired EXCEPT ![c] = @ \ {k}]
        /\ Delete(k) \/ UNCHANGED old
  BY Zenon DEF DeleteRetired
<1>2. pc[c] = "delete" /\ Still /\ UNCHANGED <<published, pc, index, added, until, aged, stale>>
  BY Zenon DEF DeleteRetired, Still, wal, build, plan
<1>3. /\ retired' \in [Compactors -> SUBSET Keys] /\ retired'[c] \subseteq retired[c]
      /\ \A d \in Compactors : d # c => retired'[d] = retired[d]
  BY <1>1, Zenon DEF PipelineInv, Types
<1>4. stale' \in [Compactors -> SUBSET Keys] /\ stale' = stale
  BY <1>2, Zenon DEF PipelineInv, Types
<1>5. k \notin published /\ Stamped(k) /\ Below(k) /\ (k.level = 1 => AllGone(k))
  BY <1>2, Zenon DEF PipelineInv, Deletes, Placed, Known
<1>6. k.level = 1 => Doomed(k)
  BY <1>5, PartsOf, Zenon
<1>7. CASE Delete(k)
  <2>1. PICK G : G = {k}
    BY Zenon
  <2>2. old' = [j \in Objects \ G |-> old[j]]
    BY <1>7, <2>1, Zenon DEF Delete
  <2>3. \A j \in G : j \notin published /\ Below(j) /\ (j.level = 1 => Doomed(j))
    BY <1>5, <1>6, <2>1, Zenon
  <2> QED BY <1>2, <1>3, <1>4, <2>2, <2>3, DropKeeps, Zenon
<1>8. CASE UNCHANGED old
  <2>1. PICK G : G = {}
    BY Zenon
  <2>2. old' = [j \in Objects \ G |-> old[j]]
    BY <1>8, <2>1, Zenon DEF PipelineInv, Types
  <2>3. \A j \in G : j \notin published /\ Below(j) /\ (j.level = 1 => Doomed(j))
    BY <2>1, Zenon
  <2> QED BY <1>2, <1>3, <1>4, <2>2, <2>3, DropKeeps, Zenon
<1> QED BY <1>1, <1>7, <1>8, Zenon

\* An orphan goes.
LEMMA SweepDeleteKeeps ==
    ASSUME PipelineInv, NEW c \in Compactors, SweepDelete(c)
    PROVE  PipelineInv'
<1>1. PICK k \in stale[c] : Delete(k) /\ stale' = [stale EXCEPT ![c] = @ \ {k}]
  BY Zenon DEF SweepDelete
<1>2. pc[c] = "reclaim" /\ Still /\ UNCHANGED <<published, pc, index, added, until, aged, retired>>
  BY Zenon DEF SweepDelete, Still, wal, build, plan
<1>3. /\ stale' \in [Compactors -> SUBSET Keys] /\ stale'[c] \subseteq stale[c]
      /\ \A d \in Compactors : d # c => stale'[d] = stale[d]
  BY <1>1, Zenon DEF PipelineInv, Types
<1>4. retired' \in [Compactors -> SUBSET Keys] /\ retired' = retired
  BY <1>2, Zenon DEF PipelineInv, Types
<1>5. k \notin published /\ Below(k) /\ (k.level = 1 => Doomed(k))
  BY <1>2, Zenon DEF PipelineInv, Deletes, Placed, Known
<1>6. PICK G : G = {k}
  BY Zenon
<1>7. old' = [j \in Objects \ G |-> old[j]]
  BY <1>1, <1>6, Zenon DEF Delete
<1>8. \A j \in G : j \notin published /\ Below(j) /\ (j.level = 1 => Doomed(j))
  BY <1>5, <1>6, Zenon
<1> QED BY <1>2, <1>3, <1>4, <1>7, <1>8, DropKeeps, Zenon

\* A pass that has deleted what it retired goes on to the sweep, and the sweep
\* lists only objects that are not published and never will be: an output of
\* another pass that may still be published has its inputs in this pass's index,
\* and a pass that is past its jobs has no two inputs of one job left there.
LEMMA SweepListKeeps ==
    ASSUME PipelineInv, NEW c \in Compactors, DeletesDone(c) \/ SweepList(c)
    PROVE  PipelineInv'
<1>1. /\ Still /\ UNCHANGED <<old, published, index, added, until, retired, aged>>
      /\ \/ pc[c] = "delete" /\ retired[c] = {} /\ stale' = stale
            /\ pc' = [pc EXCEPT ![c] = "sweep"]
         \/ pc[c] = "sweep" /\ pc' = [pc EXCEPT ![c] = "reclaim"]
            /\ stale' = [stale EXCEPT ![c] = {k \in Objects \ index[c] : k \in aged[c]}]
  BY Zenon DEF DeletesDone, SweepList, Goto, Still, wal, build, plan
<1>2. /\ \/ pc[c] = "delete" /\ retired[c] = {} /\ stale'[c] = stale[c] /\ pc'[c] = "sweep"
         \/ pc[c] = "sweep" /\ pc'[c] = "reclaim"
            /\ stale'[c] = {k \in Objects \ index[c] : k \in aged[c]}
      /\ Objects' = Objects
      /\ \A d \in Compactors : d # c => stale'[d] = stale[d] /\ pc'[d] = pc[d]
  BY <1>1, Zenon DEF PipelineInv, Types, Objects
<1>3. Types'
  <2>1. /\ stale' \in [Compactors -> SUBSET Keys]
        /\ pc' \in [Compactors -> {"idle", "compact", "save", "delete", "sweep", "reclaim"}]
    BY <1>1, ZenonT(60) DEF PipelineInv, Types
  <2> QED BY <1>1, <1>2, <2>1, Zenon DEF Still, PipelineInv, Types
<1>4. Ordered'
  BY <1>1, <1>2, StillFacts, Zenon DEF Still, PipelineInv, Ordered
<1>5. Placed'
  <2>1. \A d \in Compactors : Known(d)' \subseteq Known(d)
    BY <1>1, <1>2, Zenon DEF Known
  <2> QED BY <1>1, <1>2, <2>1, StillFacts, Zenon DEF Still, PipelineInv, Placed
<1>6. Sound'
  BY <1>1, <1>2, StillFacts, Zenon DEF Still, PipelineInv, Sound, AllGone
<1>7. ASSUME NEW d \in Compactors  PROVE (Merges(d) /\ Deletes(d) /\ Sweeps(d))'
  <2>1. CASE d # c
    <3>0. \A J \in added[d] : Doomed(J) \/ (/\ J \in Objects /\ ~old[J]
                                          /\ \A e \in Compactors : J \notin aged[e])
      BY Zenon DEF PipelineInv, Merges
    <3>1. \A J \in added[d] : Doomed(J)' \/ (/\ J \in Objects' /\ ~old'[J]
                                           /\ \A e \in Compactors : J \notin aged'[e])
      BY <1>1, <1>2, <3>0, Zenon DEF Doomed
    <3> QED BY <1>1, <1>2, <2>1, <3>1, OthersKeep, Zenon
  <2>2. CASE d = c
    <3>0. Jobs(c)' = Jobs(c) /\ Jobs(c) = JobsIn(index[c]) /\ index[c] \subseteq Keys
      BY <1>1 DEF Jobs, PipelineInv, Types
    <3>1. Merges(c)'
      BY <1>1, <1>2, Zenon DEF PipelineInv, Merges
    <3>2. Sweeps(c)'
      BY <1>1, <1>2, <3>0, Zenon DEF PipelineInv, Sweeps
    <3>3. ASSUME pc[c] = "sweep", NEW k \in Objects \ index[c], k \in aged[c]
          PROVE  k \notin published /\ (k.level = 1 => Doomed(k))
      <4>1. /\ Jobs(c) = {} /\ k \notin published
            /\ k.level = 1 => \A r \in Parts(k) : BuiltKey(r) \in published => BuiltKey(r) \in index[c]
        BY <3>3, Zenon DEF PipelineInv, Sweeps
      <4>2. ASSUME k.level = 1, ~Doomed(k)  PROVE FALSE
        <5>1. FromJob(k)
          BY <4>2, Zenon DEF PipelineInv, Placed, Stamped
        <5>2. PICK r \in Parts(k), q \in Parts(k) : r # q
          BY <5>1, Zenon DEF FromJob
        <5>3. r[1] \div Window = q[1] \div Window
          BY <5>1, <5>2, Zenon DEF FromJob
        <5>4. r \in Ranges /\ q \in Ranges
          BY Zenon DEF Parts
        <5>5. BuiltKey(r) \in index[c] /\ BuiltKey(q) \in index[c]
          BY <4>1, <4>2, Zenon DEF Doomed
        <5> QED BY <3>0, <4>1, <5>2, <5>3, <5>4, <5>5, JobsFound, Zenon
      <4> QED BY <4>1, <4>2, Zenon
    <3>4. Deletes(c)'
      BY <1>1, <1>2, <3>3, Zenon DEF Deletes, Doomed
    <3> QED BY <2>2, <3>1, <3>2, <3>4, Zenon
  <2> QED BY <2>1, <2>2, Zenon
<1> QED BY <1>3, <1>4, <1>5, <1>6, <1>7, Zenon DEF PipelineInv

-----------------------------------------------------------------------------
\* The pipeline starts empty.
LEMMA InvInit ==
    ASSUME Init
    PROVE  PipelineInv
<1>1. Objects = {} /\ old \in [Objects -> BOOLEAN]
  BY Zenon DEF Init, Objects
<1>2. Types
  BY <1>1, BoundsAssumption DEF Init, Types
<1>3. Bound = 0
  BY Zenon DEF Init, Bound
<1>4. Ordered /\ Placed
  BY <1>1 DEF Init, Ordered, Placed, Known
<1>5. Sound
  BY <1>1, <1>3 DEF Init, Sound
<1>6. \A c \in Compactors : Merges(c) /\ Deletes(c) /\ Sweeps(c)
  BY Zenon DEF Init, Merges, Deletes, Sweeps
<1> QED BY <1>2, <1>4, <1>5, <1>6, Zenon DEF PipelineInv

\* Every step keeps the invariant: what a sweep lists nobody will publish, and
\* what a pass retires it has accounted for.
LEMMA InvStep ==
    ASSUME MaxCrashes = 0, PromptPublish, PipelineInv, [Next]_vars
    PROVE  PipelineInv'
<1>1. CASE Append \/ Expiry \/ Poll \/ CommitSync
  BY <1>1, WorldKeeps, Zenon
<1>2. ASSUME NEW k \in Objects, GrowOld(k)  PROVE PipelineInv'
  BY <1>2, GrowOldKeeps, Zenon
<1>3. CASE WriteBlock
  BY <1>3, WriteBlockKeeps, Zenon
<1>4. CASE SaveIndex
  BY <1>4, SaveIndexKeeps, Zenon
<1>5. CASE BuilderCrash \/ BuilderRestart
  BY <1>5 DEF BuilderCrash, BuilderRestart, PipelineInv, Types
<1>6. ASSUME NEW c \in Compactors, PassStep(c) \/ PassFails(c)  PROVE PipelineInv'
  <2>1. CASE InputMissing(c) \/ RefusePass(c) \/ PassDone(c) \/ PassFails(c)
    <3>1. EndPass(c) /\ Still /\ UNCHANGED <<old, published>>
      BY <2>1, Zenon DEF InputMissing, RefusePass, PassDone, PassFails, Still, wal, build
    <3> QED BY <3>1, EndPassKeeps, Zenon
  <2> QED BY <1>6, <2>1, LoadIndexKeeps, CompactJobKeeps, ExpireKeeps, PublishPassKeeps,
             DeleteRetiredKeeps, SweepListKeeps, SweepDeleteKeeps, Zenon DEF PassStep
<1>7. CASE UNCHANGED vars
  <2>1. Bound' = Bound /\ FlushRange' = FlushRange /\ Objects' = Objects
    BY <1>7, Zenon DEF vars, Bound, FlushRange, Objects
  <2>2. BuiltKey(FlushRange)' = BuiltKey(FlushRange)
    BY <2>1, Zenon DEF BuiltKey
  <2>3. \A k : (Stamped(k)' <=> Stamped(k)) /\ (Below(k)' <=> Below(k))
    BY <1>7, <2>1, Zenon DEF vars, Stamped, Below
  <2>4. Types' /\ Ordered' /\ Placed' /\ Sound'
    BY <1>7, <2>1, <2>2, <2>3, Zenon DEF vars, PipelineInv, Types, Ordered, Placed, Known, Sound, AllGone
  <2>5. \A c \in Compactors : (Merges(c) /\ Deletes(c) /\ Sweeps(c))'
    <3>1. \A k : Doomed(k)' <=> Doomed(k)
      BY <1>7, <2>1, Zenon DEF vars, Doomed
    <3>2. \A c \in Compactors : Jobs(c)' = Jobs(c)
      BY <1>7 DEF vars, Jobs
    <3> TAKE c \in Compactors
    <3>3. Merges(c)'
      BY <1>7, <2>1, <3>1, <3>2, Zenon DEF vars, PipelineInv, Merges
    <3>4. Deletes(c)'
      BY <1>7, <2>1, <3>1, <3>2, Zenon DEF vars, PipelineInv, Deletes, AllGone
    <3>5. Sweeps(c)'
      BY <1>7, <2>1, <3>1, <3>2, Zenon DEF vars, PipelineInv, Sweeps
    <3> QED BY <3>3, <3>4, <3>5, Zenon
  <2> QED BY <2>4, <2>5, Zenon DEF PipelineInv
<1> QED BY <1>1, <1>2, <1>3, <1>4, <1>5, <1>6, <1>7, Zenon DEF Next, BuilderStep

\* The inductive invariant holds in every behaviour in which the builder does not
\* crash and blocks are published within the sweep's grace.
THEOREM Invariant ==
    ASSUME MaxCrashes = 0, PromptPublish
    PROVE  Spec => []PipelineInv
<1>1. Init => PipelineInv
  BY InvInit, Zenon
<1>2. PipelineInv /\ [Next]_vars => PipelineInv'
  BY InvStep, Zenon
<1> QED BY <1>1, <1>2, PTL DEF Spec

\* Passes and sweeps of any number of compactors, with any number of failures,
\* never lose the last copy of a committed record inside the retention window.
THEOREM CommittedStay ==
    ASSUME MaxCrashes = 0, PromptPublish
    PROVE  Spec => []CommittedDurable
<1>1. PipelineInv => CommittedDurable
  <2> SUFFICES ASSUME PipelineInv, NEW o \in horizon..(committed - 1)
               PROVE  \E k \in published \cap Objects : Has(k, o)
    BY Zenon DEF CommittedDurable
  <2>1. horizon \in Nat /\ committed \in Nat /\ Bound \in Nat /\ committed <= Bound
    BY BoundFacts, Zenon DEF PipelineInv, Types
  <2>2. o \in horizon..(Bound - 1)
    BY <2>1
  <2> QED BY <2>2, Zenon DEF PipelineInv, Sound
<1> QED BY <1>1, Invariant, PTL

\* No published block lacks its object, whoever deletes and sweeps.
THEOREM ObjectsStay ==
    ASSUME MaxCrashes = 0, PromptPublish
    PROVE  Spec => []PublishedObjectsExist
<1>1. PipelineInv => PublishedObjectsExist
  BY Zenon DEF PipelineInv, Sound, PublishedObjectsExist
<1> QED BY <1>1, Invariant, PTL
-----------------------------------------------------------------------------
(* Types, through any number of crashes of the block builder. *)

Labels == {"idle", "compact", "save", "delete", "sweep", "reclaim"}

\* A block of offset ranges, whose objects had one of the versions there can be.
Formed(k) ==
    /\ k.level \in {0, 1}
    /\ \A b \in k.from : <<b[1], b[2]>> \in Ranges /\ b[3] \in 0..(MaxCrashes + 1)

\* A range that starts here or later has been written only by builders that have
\* crashed since.
Fresh == IF builder \in {"poll", "down"} THEN committed ELSE position

BuilderTypes ==
    /\ appended \in Nat /\ committed \in Nat /\ position \in Nat
    /\ committed <= position /\ position <= appended /\ appended <= MaxRecords
    /\ builder \in {"down", "poll", "save", "commit"}
    /\ builder \in {"save", "commit"} => committed < position
    /\ crashes \in 0..MaxCrashes
    /\ puts \in [Ranges -> Nat]
    /\ \A r \in Ranges : puts[r] <= crashes + 1 /\ (r[1] >= Fresh => puts[r] <= crashes)

PassTypes(c) ==
    /\ \A k \in Known(c) : Formed(k)
    /\ pc[c] = "idle" => Known(c) = {}
    /\ until[c] <= horizon

Passes ==
    /\ pc \in [Compactors -> Labels] /\ until \in [Compactors -> Nat]
    /\ DOMAIN index = Compactors /\ DOMAIN added = Compactors /\ DOMAIN retired = Compactors
    /\ DOMAIN aged = Compactors /\ DOMAIN stale = Compactors

TypeInv ==
    /\ BuilderTypes /\ Passes
    /\ \A k \in Objects \cup published : Formed(k)
    /\ \A c \in Compactors : PassTypes(c)
    /\ horizon \in 0..MaxHorizon /\ failures \in 0..MaxFailures

\* The key of what the builder is about to write, or has written, is well formed.
LEMMA FlushFormed ==
    ASSUME BuilderTypes, committed < position
    PROVE  FlushRange \in Ranges /\ Formed(BuiltKey(FlushRange))
<1>1. FlushRange \in Ranges
  BY BoundsAssumption DEF BuilderTypes, FlushRange, Ranges
<1>2. 0 \in 0..(MaxCrashes + 1)
  BY BoundsAssumption
<1>3. PICK r \in Ranges : r = FlushRange
  BY <1>1, Zenon
<1>4. BuiltKey(r).level = 0 /\ BuiltKey(r).from = {<<r[1], r[2], 0>>} /\ <<r[1], r[2]>> = r
  BY BuiltFacts, RangeFacts, Zenon
<1>5. Formed(BuiltKey(r))
  BY <1>2, <1>4 DEF Formed
<1> QED BY <1>3, <1>5, Zenon

\* So is the key of a merged block, whatever the versions of its inputs.
LEMMA CompactedFormed ==
    ASSUME BuilderTypes, NEW S
    PROVE  Formed(CompactedKey(S))
<1>1. \A r \in Ranges : puts[r] \in 0..(MaxCrashes + 1) /\ <<r[1], r[2]>> = r
  <2>1. ASSUME NEW r \in Ranges  PROVE puts[r] \in 0..(MaxCrashes + 1)
    <3>1. puts[r] \in Nat /\ puts[r] <= crashes + 1 /\ crashes \in 0..MaxCrashes
      BY Zenon DEF BuilderTypes
    <3> QED BY <3>1, BoundsAssumption
  <2> QED BY <2>1, RangeFacts, Zenon
<1>2. ASSUME NEW b \in CompactedKey(S).from
      PROVE  <<b[1], b[2]>> \in Ranges /\ b[3] \in 0..(MaxCrashes + 1)
  <2>1. PICK r \in Ranges : b = <<r[1], r[2], puts[r]>>
    BY <1>2, Zenon DEF CompactedKey
  <2>2. b[1] = r[1] /\ b[2] = r[2] /\ b[3] = puts[r]
    BY <2>1
  <2> QED BY <1>1, <2>2, Zenon
<1>3. CompactedKey(S).level = 1
  BY Zenon DEF CompactedKey
<1> QED BY <1>2, <1>3, Zenon DEF Formed

\* The builder's and the group's steps: a range is written again only after a
\* crash.
LEMMA BuilderTypesStep ==
    ASSUME BuilderTypes, Append \/ BuilderStep \/ BuilderCrash
    PROVE  BuilderTypes'
<1>1. /\ appended \in Nat /\ committed \in Nat /\ position \in Nat /\ MaxRecords \in Nat
      /\ committed <= position /\ position <= appended /\ appended <= MaxRecords
      /\ builder \in {"down", "poll", "save", "commit"}
      /\ builder \in {"save", "commit"} => committed < position
      /\ crashes \in 0..MaxCrashes /\ puts \in [Ranges -> Nat]
      /\ \A r \in Ranges : puts[r] <= crashes + 1 /\ (r[1] >= Fresh => puts[r] <= crashes)
      /\ crashes \in Nat /\ MaxCrashes \in Nat
  BY BoundsAssumption DEF BuilderTypes
<1>2. CASE Append
  <2>1. appended' = appended + 1 /\ appended < MaxRecords
        /\ UNCHANGED <<committed, position, builder, puts, crashes>>
    BY <1>2, Zenon DEF Append, build
  <2>2. appended' \in Nat /\ position <= appended' /\ appended' <= MaxRecords
    BY <1>1, <2>1
  <2> QED BY <1>1, <2>1, <2>2, Zenon DEF BuilderTypes, Fresh
<1>3. CASE Poll
  <2>1. PICK n \in (position + 1)..appended : position' = n
    BY <1>3, Zenon DEF Poll
  <2>2. /\ UNCHANGED <<appended, committed, builder, puts, crashes>> /\ builder = "poll"
    BY <1>3, Zenon DEF Poll, wal
  <2>3. position' \in Nat /\ committed <= position' /\ position' <= appended
    BY <1>1, <2>1
  <2> QED BY <1>1, <2>2, <2>3, Zenon DEF BuilderTypes, Fresh
<1>4. CASE WriteBlock
  <2>1. /\ UNCHANGED <<appended, committed, position, crashes>> /\ builder = "poll"
        /\ builder' = "save" /\ position > committed
        /\ puts' = [puts EXCEPT ![FlushRange] = puts[FlushRange] + 1]
    BY <1>4, Zenon DEF WriteBlock, wal
  <2>2. committed < position
    BY <1>1, <2>1
  <2>3. PICK f \in Ranges : f = FlushRange
    BY <2>2, FlushFormed, Zenon
  <2>4. f[1] = committed
    BY <2>3 DEF FlushRange
  <2>5. puts[f] <= crashes /\ puts[f] \in Nat
    <3>1. f[1] >= Fresh
      BY <1>1, <2>1, <2>4 DEF Fresh
    <3> QED BY <1>1, <3>1, Zenon
  <2>6. puts[f] + 1 \in Nat /\ puts[f] + 1 <= crashes + 1
    BY <1>1, <2>5
  <2>7. puts' \in [Ranges -> Nat] /\ puts'[f] = puts[f] + 1
        /\ \A r \in Ranges \ {f} : puts'[r] = puts[r]
    BY <1>1, <2>1, <2>3, <2>6, Zenon
  <2>8. ASSUME NEW r \in Ranges
        PROVE  puts'[r] <= crashes + 1 /\ (r[1] >= position => puts'[r] <= crashes)
    <3>1. CASE r = f
      <4>1. ~(r[1] >= position)
        BY <1>1, <2>2, <2>4, <3>1
      <4> QED BY <2>6, <2>7, <3>1, <4>1, Zenon
    <3>2. CASE r # f
      <4>1. r[1] \in Nat
        BY RangeFacts, Zenon
      <4>2. r[1] >= position => r[1] >= committed
        BY <1>1, <4>1
      <4>3. r[1] >= committed => puts[r] <= crashes
        BY <1>1, <2>1, Zenon DEF Fresh
      <4> QED BY <1>1, <2>7, <3>2, <4>2, <4>3, Zenon
    <3> QED BY <3>1, <3>2, Zenon
  <2>9. Fresh' = position
    BY <2>1, Zenon DEF Fresh
  <2> QED BY <1>1, <2>1, <2>2, <2>7, <2>8, <2>9, Zenon DEF BuilderTypes
<1>5. CASE SaveIndex
  <2>1. /\ UNCHANGED <<appended, committed, position, crashes, puts>> /\ builder = "save"
        /\ builder' = "commit"
    BY <1>5, Zenon DEF SaveIndex, wal
  <2>2. Fresh' = Fresh
    BY <2>1, Zenon DEF Fresh
  <2> QED BY <1>1, <2>1, <2>2, Zenon DEF BuilderTypes
<1>6. CASE CommitSync
  <2>1. /\ UNCHANGED <<appended, position, crashes, puts>> /\ builder = "commit"
        /\ builder' = "poll" /\ committed' = position
    BY <1>6, Zenon DEF CommitSync
  <2>2. Fresh' = Fresh
    BY <2>1, Zenon DEF Fresh
  <2>3. position <= position
    BY <1>1
  <2> QED BY <1>1, <2>1, <2>2, <2>3, Zenon DEF BuilderTypes
<1>7. CASE BuilderCrash
  <2>1. /\ UNCHANGED <<appended, committed, position, puts>> /\ builder' = "down"
        /\ crashes < MaxCrashes /\ crashes' = crashes + 1
    BY <1>7, Zenon DEF BuilderCrash, wal
  <2>2. crashes' \in 0..MaxCrashes
    BY <1>1, <2>1
  <2>3. \A n \in Nat : n <= crashes + 1 => n <= crashes' /\ n <= crashes' + 1
    BY <1>1, <2>1
  <2>4. \A r \in Ranges : puts[r] <= crashes' + 1 /\ puts[r] <= crashes'
    BY <1>1, <2>3, Zenon
  <2> QED BY <1>1, <2>1, <2>2, <2>4, Zenon DEF BuilderTypes
<1>8. CASE BuilderRestart
  <2>1. /\ UNCHANGED <<appended, committed, crashes, puts>> /\ builder = "down"
        /\ builder' = "poll" /\ position' = committed
    BY <1>8, Zenon DEF BuilderRestart, wal
  <2>2. Fresh' = Fresh
    BY <2>1, Zenon DEF Fresh
  <2>3. committed <= committed /\ committed <= appended
    BY <1>1
  <2> QED BY <1>1, <2>1, <2>2, <2>3, Zenon DEF BuilderTypes
<1> QED BY <1>2, <1>3, <1>4, <1>5, <1>6, <1>7, <1>8, Zenon DEF BuilderStep

\* What a step of c has to respect: it forms its keys from those it knows, and
\* forgets them when its pass ends.
LEMMA PassTypesStep ==
    ASSUME TypeInv, NEW c \in Compactors, Still, Passes', failures' \in 0..MaxFailures,
           \A d \in Compactors : d # c =>
              pc'[d] = pc[d] /\ until'[d] = until[d] /\ Known(d)' \subseteq Known(d),
           \A k \in Known(c)' \cup Objects' \cup published' :
              k \in Known(c) \cup Objects \cup published \/ Formed(k),
           pc'[c] = "idle" => Known(c)' = {},
           until'[c] \in {until[c], horizon, 0}
    PROVE  TypeInv'
<1>1. BuilderTypes' /\ horizon' = horizon
  BY Zenon DEF TypeInv, BuilderTypes, Fresh, Still
<1>2. \A k \in Known(c) \cup Objects \cup published : Formed(k)
  BY Zenon DEF TypeInv, PassTypes
<1>3. \A k \in Known(c)' \cup Objects' \cup published' : Formed(k)
  BY <1>2, Zenon
<1>4. PassTypes(c)'
  <2>1. until[c] <= horizon /\ horizon \in Nat
    BY BoundsAssumption DEF TypeInv, PassTypes
  <2>2. horizon <= horizon /\ 0 <= horizon
    BY <2>1
  <2> QED BY <1>1, <1>3, <2>1, <2>2, Zenon DEF PassTypes, Formed
<1>5. ASSUME NEW d \in Compactors, d # c  PROVE PassTypes(d)'
  BY <1>1, <1>5, Zenon DEF TypeInv, PassTypes, Formed
<1>6. \A k \in Objects' \cup published' : Formed(k)'
  BY <1>3, Zenon DEF Formed
<1>7. horizon \in 0..MaxHorizon
  BY Zenon DEF TypeInv
<1> QED BY <1>1, <1>4, <1>5, <1>6, <1>7, Zenon DEF TypeInv

\* The compactors' steps.
LEMMA CompactorTypes ==
    ASSUME TypeInv, NEW c \in Compactors, PassStep(c) \/ PassFails(c)
    PROVE  TypeInv'
<1>1. /\ Passes /\ horizon \in 0..MaxHorizon /\ failures \in 0..MaxFailures /\ BuilderTypes
      /\ {"idle", "compact", "save", "delete", "sweep", "reclaim"} \subseteq Labels
  BY Zenon DEF TypeInv, Labels
<1>2. 0 \in Nat /\ horizon \in Nat
  BY <1>1, BoundsAssumption
<1>3. \A l \in Labels : [pc EXCEPT ![c] = l] \in [Compactors -> Labels]
  BY <1>1, Zenon DEF Passes
<1>4. \A n \in Nat : [until EXCEPT ![c] = n] \in [Compactors -> Nat]
  BY <1>1, Zenon DEF Passes
<1>5. CASE EndPass(c) /\ Still /\ UNCHANGED <<old, published>> /\ failures' \in 0..MaxFailures
  <2>1. /\ pc' = [pc EXCEPT ![c] = "idle"] /\ until' = [until EXCEPT ![c] = 0]
        /\ index' = [index EXCEPT ![c] = {}] /\ added' = [added EXCEPT ![c] = {}]
        /\ retired' = [retired EXCEPT ![c] = {}] /\ aged' = [aged EXCEPT ![c] = {}]
        /\ stale' = [stale EXCEPT ![c] = {}]
    BY <1>5, Zenon DEF EndPass, Goto
  <2>2. Passes'
    BY <1>1, <1>2, <1>3, <1>4, <2>1, Zenon DEF Passes
  <2>3. Known(c)' = {} /\ Objects' = Objects /\ until'[c] = 0
    BY <1>1, <1>5, <2>1, Zenon DEF Known, Passes, Objects
  <2>4. \A d \in Compactors : d # c =>
           pc'[d] = pc[d] /\ until'[d] = until[d] /\ Known(d)' \subseteq Known(d)
    BY <1>1, <2>1, Zenon DEF Known, Passes
  <2>5. \A k \in Known(c)' \cup Objects' \cup published' :
           k \in Known(c) \cup Objects \cup published \/ Formed(k)
    BY <1>5, <2>3, Zenon
  <2>6. until'[c] \in {until[c], horizon, 0}
    BY <2>3, Zenon
  <2> QED BY <1>5, <2>2, <2>3, <2>4, <2>5, <2>6, PassTypesStep, Zenon
<1>6. CASE InputMissing(c) \/ RefusePass(c) \/ PassDone(c)
  <2>1. EndPass(c) /\ Still /\ UNCHANGED <<old, published, failures>>
    BY <1>6, Zenon DEF InputMissing, RefusePass, PassDone, Still, wal, build
  <2> QED BY <1>1, <1>5, <2>1, Zenon
<1>7. CASE PassFails(c)
  <2>1. /\ EndPass(c) /\ Still /\ UNCHANGED <<old, published>>
        /\ failures < MaxFailures /\ failures' = failures + 1
    BY <1>7, Zenon DEF PassFails, Still, wal, build
  <2>2. failures' \in 0..MaxFailures
    BY <1>1, <2>1, BoundsAssumption
  <2> QED BY <1>5, <2>1, <2>2, Zenon
<1>8. CASE LoadIndex(c)
  <2>1. /\ pc' = [pc EXCEPT ![c] = "compact"]
        /\ index' = [index EXCEPT ![c] = published] /\ until' = [until EXCEPT ![c] = horizon]
        /\ aged' = [aged EXCEPT ![c] = {k \in Objects : old[k]}]
        /\ UNCHANGED <<old, published, added, retired, stale, failures>> /\ Still
    BY <1>8, Zenon DEF LoadIndex, Goto, Still, wal, build
  <2>2. Passes'
    BY <1>1, <1>2, <1>3, <1>4, <2>1, Zenon DEF Passes
  <2>3. /\ pc'[c] = "compact" /\ Objects' = Objects /\ until'[c] = horizon
        /\ index'[c] = published /\ aged'[c] \subseteq Objects
    BY <1>1, <2>1, Zenon DEF Passes, Objects
  <2>4. Known(c)' \subseteq Known(c) \cup Objects \cup published
    BY <2>1, <2>3, Zenon DEF Known
  <2>5. \A d \in Compactors : d # c =>
           pc'[d] = pc[d] /\ until'[d] = until[d] /\ Known(d)' = Known(d)
    BY <1>1, <2>1, Zenon DEF Known, Passes
  <2> QED BY <1>1, <2>1, <2>2, <2>3, <2>4, <2>5, PassTypesStep, Zenon
<1>9. CASE CompactJob(c)
  <2>0. PICK S \in Jobs(c) : \E K \in {CompactedKey(S)} : S \subseteq Objects /\ Put(K)
        /\ index' = [index EXCEPT ![c] = (index[c] \ S) \cup {K}]
        /\ added' = [added EXCEPT ![c] = added[c] \cup {K}]
        /\ retired' = [retired EXCEPT ![c] = retired[c] \cup S]
    BY <1>9, Zenon DEF CompactJob
  <2>1. PICK K : K = CompactedKey(S) /\ S \subseteq Objects /\ Put(K)
        /\ index' = [index EXCEPT ![c] = (index[c] \ S) \cup {K}]
        /\ added' = [added EXCEPT ![c] = added[c] \cup {K}]
        /\ retired' = [retired EXCEPT ![c] = retired[c] \cup S]
    BY <2>0, Zenon
  <2>2. UNCHANGED <<published, pc, until, stale, failures>> /\ Still /\ pc[c] = "compact"
    BY <1>9, Zenon DEF CompactJob, Still, wal, build
  <2>3. /\ Objects' = Objects \cup {K} /\ aged' = [d \in Compactors |-> aged[d] \ {K}]
    BY <2>1, Zenon DEF Put, Objects
  <2>4. Passes'
    BY <1>1, <2>1, <2>2, <2>3, Zenon DEF Passes
  <2>5. Formed(K)
    BY <1>1, <2>1, CompactedFormed, Zenon
  <2>6. Known(c)' \subseteq Known(c) \cup Objects \cup {K}
    <3>1. /\ index'[c] \subseteq index[c] \cup {K} /\ added'[c] = added[c] \cup {K}
          /\ retired'[c] \subseteq retired[c] \cup Objects /\ aged'[c] \subseteq aged[c]
          /\ stale'[c] = stale[c]
      BY <1>1, <2>1, <2>2, <2>3, Zenon DEF Passes
    <3> QED BY <3>1, Zenon DEF Known
  <2>7. \A d \in Compactors : d # c => Known(d)' \subseteq Known(d)
    BY <1>1, <2>1, <2>2, <2>3, Zenon DEF Known, Passes
  <2> QED BY <1>1, <2>2, <2>3, <2>4, <2>5, <2>6, <2>7, PassTypesStep, Zenon
<1>10. ASSUME NEW l \in {"sweep", "save", "reclaim"}, pc' = [pc EXCEPT ![c] = l]
       PROVE  /\ pc' \in [Compactors -> Labels] /\ pc'[c] # "idle"
              /\ \A d \in Compactors : d # c => pc'[d] = pc[d]
  <2>1. pc \in [Compactors -> Labels] /\ l \in Labels /\ l # "idle"
    BY <1>1, Zenon DEF Passes
  <2>2. pc'[c] = l
    BY <1>10, <2>1, Zenon
  <2> QED BY <1>3, <1>10, <2>1, <2>2, Zenon
<1>11. CASE Expire(c)
  <2>1. PICK gone : gone = {k \in index[c] : Expired(c, k)}
    BY Zenon
  <2>2. /\ pc[c] = "compact"
        /\ index' = [index EXCEPT ![c] = index[c] \ gone]
        /\ added' = [added EXCEPT ![c] = added[c] \ gone]
        /\ retired' = [retired EXCEPT ![c] = retired[c] \cup gone]
        /\ \E l \in {"sweep", "save"} : pc' = [pc EXCEPT ![c] = l]
        /\ UNCHANGED <<old, published, until, aged, stale, failures>> /\ Still
    BY <1>11, <2>1, Zenon DEF Expire, Goto, Still, wal, build
  <2>3. pc' \in [Compactors -> Labels] /\ pc'[c] # "idle"
        /\ \A d \in Compactors : d # c => pc'[d] = pc[d]
    BY <1>10, <2>2, Zenon
  <2>4. Passes'
    BY <1>1, <2>2, <2>3, Zenon DEF Passes
  <2>5. Known(c)' \subseteq Known(c) /\ Objects' = Objects
    BY <1>1, <2>1, <2>2, Zenon DEF Known, Passes, Objects
  <2>6. \A d \in Compactors : d # c => Known(d)' \subseteq Known(d)
    BY <1>1, <2>2, Zenon DEF Known, Passes
  <2> QED BY <1>1, <2>2, <2>3, <2>4, <2>5, <2>6, PassTypesStep, Zenon
<1>12. CASE PublishPass(c)
  <2>1. /\ published' = (published \ retired[c]) \cup added[c]
        /\ added' = [added EXCEPT ![c] = {}] /\ pc' = [pc EXCEPT ![c] = "delete"]
        /\ UNCHANGED <<old, index, retired, until, aged, stale, failures>> /\ Still
    BY <1>12, Zenon DEF PublishPass, Goto, Still, wal, build
  <2>2. Passes'
    BY <1>1, <1>3, <2>1, Zenon DEF Passes
  <2>3. /\ pc'[c] = "delete" /\ Objects' = Objects /\ added'[c] = {}
    BY <1>1, <2>1, Zenon DEF Passes, Objects
  <2>4. Known(c)' \subseteq Known(c) /\ published' \subseteq published \cup Known(c)
    BY <2>1, <2>3, Zenon DEF Known
  <2>5. \A d \in Compactors : d # c => pc'[d] = pc[d] /\ Known(d)' = Known(d)
    BY <1>1, <2>1, Zenon DEF Known, Passes
  <2> QED BY <1>1, <2>1, <2>2, <2>3, <2>4, <2>5, PassTypesStep, Zenon
<1>13. CASE DeletesDone(c) \/ SweepList(c)
  <2>1. /\ \E l \in {"sweep", "reclaim"} : pc' = [pc EXCEPT ![c] = l]
        /\ stale' = stale \/
             stale' = [stale EXCEPT ![c] = {k \in Objects \ index[c] : k \in aged[c]}]
        /\ UNCHANGED <<old, published, index, added, retired, until, aged, failures>> /\ Still
    BY <1>13, Zenon DEF DeletesDone, SweepList, Goto, Still, wal, build, plan
  <2>2. pc' \in [Compactors -> Labels] /\ pc'[c] # "idle"
        /\ \A d \in Compactors : d # c => pc'[d] = pc[d]
    BY <1>10, <2>1, Zenon
  <2>3. Passes'
    BY <1>1, <2>1, <2>2, Zenon DEF Passes
  <2>4. /\ stale'[c] \subseteq stale[c] \cup Objects /\ Objects' = Objects
        /\ \A d \in Compactors : d # c => stale'[d] = stale[d]
    <3>1. DOMAIN stale = Compactors /\ Objects' = Objects
      BY <1>1, <2>1, Zenon DEF Passes, Objects
    <3>2. CASE stale' = stale
      BY <3>1, <3>2, Zenon
    <3>3. CASE stale' = [stale EXCEPT ![c] = {k \in Objects \ index[c] : k \in aged[c]}]
      BY <3>1, <3>3, Zenon
    <3> QED BY <2>1, <3>2, <3>3, Zenon
  <2>5. /\ Known(c)' \subseteq Known(c) \cup Objects
        /\ \A d \in Compactors : d # c => Known(d)' = Known(d)
    BY <2>1, <2>4, Zenon DEF Known
  <2> QED BY <1>1, <2>1, <2>2, <2>3, <2>4, <2>5, PassTypesStep, Zenon
<1>14. CASE DeleteRetired(c) \/ SweepDelete(c)
  <2>1. /\ retired' = retired \/ \E k : retired' = [retired EXCEPT ![c] = retired[c] \ {k}]
        /\ stale' = stale \/ \E k : stale' = [stale EXCEPT ![c] = stale[c] \ {k}]
        /\ old' = old \/ \E k : Delete(k)
        /\ failures' = failures \/ (failures < MaxFailures /\ failures' = failures + 1)
        /\ UNCHANGED <<published, pc, index, added, until, aged>> /\ Still
        /\ pc[c] \in {"delete", "reclaim"}
    BY <1>14, Zenon DEF DeleteRetired, SweepDelete, Still, wal, build, plan
  <2>2. Objects' \subseteq Objects
    BY <2>1, Zenon DEF Delete, Objects
  <2>3. failures' \in 0..MaxFailures
    BY <1>1, <2>1, BoundsAssumption
  <2>4. DOMAIN retired' = Compactors /\ DOMAIN stale' = Compactors
        /\ \A d \in Compactors : retired'[d] \subseteq retired[d] /\ stale'[d] \subseteq stale[d]
    <3>1. DOMAIN retired = Compactors /\ DOMAIN stale = Compactors
      BY <1>1, Zenon DEF Passes
    <3>2. DOMAIN retired' = Compactors /\ \A d \in Compactors : retired'[d] \subseteq retired[d]
      BY <2>1, <3>1, Zenon
    <3>3. DOMAIN stale' = Compactors /\ \A d \in Compactors : stale'[d] \subseteq stale[d]
      BY <2>1, <3>1, Zenon
    <3> QED BY <3>2, <3>3, Zenon
  <2>5. Passes'
    BY <1>1, <2>1, <2>4, Zenon DEF Passes
  <2>6. \A d \in Compactors : Known(d)' \subseteq Known(d)
    BY <2>1, <2>4, Zenon DEF Known
  <2>7. pc[c] # "idle"
    BY <2>1, Zenon
  <2> QED BY <1>1, <2>1, <2>2, <2>3, <2>5, <2>6, <2>7, PassTypesStep, Zenon
<1> QED BY <1>6, <1>7, <1>8, <1>9, <1>11, <1>12, <1>13, <1>14, Zenon DEF PassStep

\* All other steps.
LEMMA WorldTypes ==
    ASSUME TypeInv,
           \/ Append \/ Expiry \/ (\E k \in Objects : GrowOld(k))
           \/ BuilderStep \/ BuilderCrash \/ UNCHANGED vars
    PROVE  TypeInv'
<1>1. BuilderTypes /\ Passes
  BY Zenon DEF TypeInv
<1>2. ASSUME BuilderTypes', UNCHANGED <<pc, until, index, added, retired, stale, failures>>,
             DOMAIN aged' = Compactors, \A c \in Compactors : aged'[c] \subseteq aged[c],
             \A k \in Objects' \cup published' : k \in Objects \cup published \/ Formed(k),
             horizon' \in 0..MaxHorizon, horizon <= horizon'
      PROVE  TypeInv'
  <2>1. \A k \in Objects' \cup published' : Formed(k)'
    BY <1>2, Zenon DEF TypeInv, Formed
  <2>2. ASSUME NEW c \in Compactors  PROVE PassTypes(c)'
    <3>1. Known(c)' \subseteq Known(c) /\ PassTypes(c)
      BY <1>2, Zenon DEF Known, TypeInv
    <3>2. until[c] \in Nat /\ until[c] <= horizon /\ horizon \in 0..MaxHorizon
      BY <1>1, Zenon DEF Passes, TypeInv, PassTypes
    <3>3. until[c] <= horizon'
      BY <1>2, <3>2, BoundsAssumption
    <3> QED BY <1>2, <3>1, <3>3, Zenon DEF PassTypes, Formed
  <2>3. Passes'
    BY <1>1, <1>2, Zenon DEF Passes
  <2> QED BY <1>2, <2>1, <2>2, <2>3, Zenon DEF TypeInv
<1>3. horizon \in 0..MaxHorizon /\ horizon <= horizon
  <2>1. horizon \in 0..MaxHorizon
    BY Zenon DEF TypeInv
  <2> QED BY <2>1, BoundsAssumption
<1>4. CASE Append \/ Poll \/ CommitSync \/ BuilderCrash \/ BuilderRestart
  <2>1. UNCHANGED <<pc, until, index, added, retired, stale, failures, aged, old, published, horizon>>
    BY <1>4, Zenon DEF Append, Poll, CommitSync, BuilderCrash, BuilderRestart, pass
  <2>2. BuilderTypes'
    BY <1>1, <1>4, BuilderTypesStep, Zenon DEF BuilderStep
  <2>3. Objects' = Objects /\ DOMAIN aged = Compactors
    BY <1>1, <2>1, Zenon DEF Objects, Passes
  <2> QED BY <1>2, <1>3, <2>1, <2>2, <2>3, Zenon
<1>5. CASE WriteBlock
  <2>1. PICK k : k = BuiltKey(FlushRange)
    BY Zenon
  <2>2. /\ UNCHANGED <<pc, until, index, added, retired, stale, failures, published, horizon>>
        /\ Put(k) /\ position > committed
    BY <1>5, <2>1, Zenon DEF WriteBlock
  <2>3. committed < position
    BY <1>1, <2>2 DEF BuilderTypes
  <2>4. Formed(k)
    BY <1>1, <2>1, <2>3, FlushFormed, Zenon
  <2>5. Objects' = Objects \cup {k} /\ aged' = [c \in Compactors |-> aged[c] \ {k}]
    BY <2>2, Zenon DEF Put, Objects
  <2>6. BuilderTypes'
    BY <1>1, <1>5, BuilderTypesStep, Zenon DEF BuilderStep
  <2>7. DOMAIN aged' = Compactors /\ \A c \in Compactors : aged'[c] \subseteq aged[c]
    BY <2>5, Zenon
  <2> QED BY <1>2, <1>3, <2>2, <2>4, <2>5, <2>6, <2>7, Zenon
<1>6. CASE SaveIndex
  <2>1. PICK k : k = BuiltKey(FlushRange)
    BY Zenon
  <2>2. /\ UNCHANGED <<pc, until, index, added, retired, stale, failures, aged, old, horizon>>
        /\ published' = published \cup {k} /\ builder = "save"
    BY <1>6, <2>1, Zenon DEF SaveIndex, pass
  <2>3. committed < position
    BY <1>1, <2>2, Zenon DEF BuilderTypes
  <2>4. Formed(k)
    BY <1>1, <2>1, <2>3, FlushFormed, Zenon
  <2>5. BuilderTypes'
    BY <1>1, <1>6, BuilderTypesStep, Zenon DEF BuilderStep
  <2>6. Objects' = Objects /\ DOMAIN aged = Compactors
    BY <1>1, <2>2, Zenon DEF Objects, Passes
  <2> QED BY <1>2, <1>3, <2>2, <2>4, <2>5, <2>6, Zenon
<1>7. CASE Expiry \/ (\E k \in Objects : GrowOld(k)) \/ UNCHANGED vars
  <2>1. /\ UNCHANGED <<pc, until, index, added, retired, stale, failures, aged, published>>
        /\ UNCHANGED <<appended, committed, position, builder, puts, crashes>>
        /\ horizon' = horizon \/ (horizon < MaxHorizon /\ horizon' = horizon + 1)
        /\ old' = old \/ \E k \in Objects : old' = [old EXCEPT ![k] = TRUE]
    BY <1>7, Zenon DEF Expiry, GrowOld, vars, wal, build, pass
  <2>2. BuilderTypes'
    BY <1>1, <2>1, Zenon DEF BuilderTypes, Fresh
  <2>3. horizon' \in 0..MaxHorizon /\ horizon <= horizon'
    BY <1>3, <2>1, BoundsAssumption
  <2>4. Objects' = Objects /\ DOMAIN aged = Compactors
    BY <1>1, <2>1, Zenon DEF Objects, Passes
  <2> QED BY <1>2, <2>1, <2>2, <2>3, <2>4, Zenon
<1> QED BY <1>4, <1>5, <1>6, <1>7, Zenon DEF BuilderStep

\* TypeInv is inductive.
THEOREM TypeInvariant == Spec => []TypeInv
<1>1. Init => TypeInv
  <2> SUFFICES ASSUME Init  PROVE TypeInv
    BY Zenon
  <2>1. BuilderTypes
    BY BoundsAssumption DEF Init, BuilderTypes, Fresh
  <2>2. 0 \in Nat /\ 0 <= 0 /\ 0 \in 0..MaxHorizon /\ 0 \in 0..MaxFailures
    BY BoundsAssumption
  <2>3. Passes
    BY <2>2, Zenon DEF Init, Passes, Labels
  <2>4. Objects = {} /\ published = {}
    BY Zenon DEF Init, Objects
  <2>5. \A c \in Compactors : Known(c) = {} /\ until[c] = 0
    BY Zenon DEF Init, Known
  <2>6. \A c \in Compactors : PassTypes(c)
    BY <2>2, <2>5, Zenon DEF PassTypes, Init
  <2> QED BY <2>1, <2>2, <2>3, <2>4, <2>6, Zenon DEF TypeInv, Init
<1>2. TypeInv /\ [Next]_vars => TypeInv'
  BY CompactorTypes, WorldTypes, Zenon DEF Next
<1> QED BY <1>1, <1>2, PTL DEF Spec

\* Every variable keeps its type for any number of crashes; in particular the block
\* of an offset range is written at most once more than the builder crashes, which
\* bounds the versions a merged key can name (versioned_compaction_key).
THEOREM TypeCorrect == Spec => []TypeOK
<1>1. TypeInv => TypeOK
  <2> SUFFICES ASSUME TypeInv  PROVE TypeOK
    BY Zenon
  <2>1. BuilderTypes /\ Passes
    BY Zenon DEF TypeInv
  <2>2. 0 <= committed
    BY <2>1 DEF BuilderTypes
  <2>3. puts \in [Ranges -> 0..(MaxCrashes + 1)]
    <3>1. \A n \in Nat : n <= crashes + 1 => n \in 0..(MaxCrashes + 1)
      BY <2>1, BoundsAssumption DEF BuilderTypes
    <3> QED BY <2>1, <3>1, Zenon DEF BuilderTypes
  <2>4. until \in [Compactors -> 0..horizon]
    <3>1. horizon \in Nat
      BY BoundsAssumption DEF TypeInv
    <3>2. \A n \in Nat : n <= horizon => n \in 0..horizon
      BY <3>1
    <3> QED BY <2>1, <3>2, Zenon DEF Passes, TypeInv, PassTypes
  <2>5. \A k \in Objects \cup published \cup UNION {stale[c] : c \in Compactors} : Formed(k)
    BY Zenon DEF TypeInv, PassTypes, Known
  <2>6. \A c \in Compactors : pc[c] = "idle" =>
          index[c] \cup added[c] \cup retired[c] \cup aged[c] \cup stale[c] = {}
    BY Zenon DEF TypeInv, PassTypes, Known
  <2> QED BY <2>1, <2>2, <2>3, <2>4, <2>5, <2>6, Zenon
          DEF TypeInv, BuilderTypes, Passes, Formed, Labels, TypeOK
<1> QED BY <1>1, TypeInvariant, PTL
-----------------------------------------------------------------------------
(* Copies, through any number of crashes: every copy of a record costs the     *)
(* builder a crash, and a pass replaces copies one for one.                    *)

CopiesIn(P, o) == {kb \in UNION {{k} \X k.from : k \in P} : Holds(kb[2], o)}

\* The merged blocks A hold the built blocks R, each at most once.
Replaces(A, R) ==
    /\ \A K \in A : \A b \in K.from : BuiltKey(<<b[1], b[2]>>) \in R
    /\ \A K \in A : \A J \in A : \A b \in K.from : \A d \in J.from :
          b[1] = d[1] /\ b[2] = d[2] => K = J /\ b = d

\* A pass retires exactly what its outputs hold, and plans no input twice.
Accounts(c) ==
    /\ Replaces(added[c], retired[c])
    /\ \A r \in Ranges : BuiltKey(r) \in index[c] => BuiltKey(r) \notin retired[c]
    /\ pc[c] \notin {"compact", "save"} => added[c] = {}
    /\ retired[c] = {} => added[c] = {}

\* A record that the builder has not committed has been published at most once
\* for every crash.
Counted ==
    \A o \in Nat : /\ IsFiniteSet(Copies(o)) /\ Cardinality(Copies(o)) <= crashes + 1
                   /\ o >= Bound => Cardinality(Copies(o)) <= crashes

CopyInv == Counted /\ \A c \in Compactors : Accounts(c)

\* A copy is a published block and the part of it that holds the record.
LEMMA CopyIs ==
    ASSUME NEW P, NEW o, NEW x \in CopiesIn(P, o)
    PROVE  \E k \in P : \E b \in k.from : x = <<k, b>> /\ Holds(b, o)
BY DEF CopiesIn

\* And every such pair is one.
LEMMA CopyFrom ==
    ASSUME NEW P, NEW o, NEW k \in P, NEW b \in k.from, Holds(b, o)
    PROVE  <<k, b>> \in CopiesIn(P, o)
BY DEF CopiesIn

\* A copy in a merged block stands for one in a built block that is retired.
LEMMA SwapCounts ==
    ASSUME NEW P, NEW R \in SUBSET P, NEW A, NEW o, Replaces(A, R), IsFiniteSet(CopiesIn(P, o))
    PROVE  /\ IsFiniteSet(CopiesIn((P \ R) \cup A, o))
           /\ Cardinality(CopiesIn((P \ R) \cup A, o)) <= Cardinality(CopiesIn(P, o))
<1> DEFINE N == CopiesIn((P \ R) \cup A, o)
           Part(b) == <<b[1], b[2], 0>>
           Origin(x) == IF x[1] \in P \ R THEN x
                        ELSE <<BuiltKey(<<x[2][1], x[2][2]>>), Part(x[2])>>
           f == [x \in N |-> Origin(x)]
<1>1. ASSUME NEW K \in A, NEW b \in K.from
      PROVE  LET B == BuiltKey(<<b[1], b[2]>>)
             IN  B \in R /\ Part(b) \in B.from /\ (Holds(b, o) => Holds(Part(b), o))
  <2>1. BuiltKey(<<b[1], b[2]>>) \in R
    BY <1>1, Zenon DEF Replaces
  <2>2. BuiltKey(<<b[1], b[2]>>).from = {Part(b)}
    BY DEF BuiltKey
  <2>3. Part(b)[1] = b[1] /\ Part(b)[2] = b[2]
    BY SMT
  <2> QED BY <2>1, <2>2, <2>3, Zenon DEF Holds
<1>2. ASSUME NEW x \in N
      PROVE  \/ x[1] \in P \ R /\ x \in CopiesIn(P, o) /\ Origin(x) = x
             \/ \E K \in A : \E b \in K.from :
                   /\ x = <<K, b>> /\ x[1] \notin P \ R
                   /\ Origin(x) = <<BuiltKey(<<b[1], b[2]>>), Part(b)>>
                   /\ Origin(x) \in CopiesIn(P, o) /\ BuiltKey(<<b[1], b[2]>>) \in R
  <2>1. PICK k \in (P \ R) \cup A : \E b \in k.from : x = <<k, b>> /\ Holds(b, o)
    BY CopyIs, SMT
  <2>2. PICK b \in k.from : x = <<k, b>> /\ Holds(b, o)
    BY <2>1, Zenon
  <2>3. x[1] = k /\ x[2] = b
    BY <2>2
  <2>4. CASE k \in P \ R
    <3>1. x \in CopiesIn(P, o)
      BY <2>2, <2>4, CopyFrom, Zenon
    <3> QED BY <2>3, <2>4, <3>1, Zenon
  <2>5. CASE k \notin P \ R
    <3>1. k \in A /\ Origin(x) = <<BuiltKey(<<b[1], b[2]>>), Part(b)>>
      BY <2>1, <2>3, <2>5, Zenon
    <3>2. PICK B : B = BuiltKey(<<b[1], b[2]>>)
      BY Zenon
    <3>3. B \in P /\ B \in R /\ Part(b) \in B.from /\ Holds(Part(b), o)
      BY <1>1, <2>2, <3>1, <3>2, Zenon
    <3>4. <<B, Part(b)>> \in CopiesIn(P, o)
      BY <3>3, CopyFrom, Zenon
    <3> QED BY <2>2, <2>3, <2>5, <3>1, <3>2, <3>3, <3>4, Zenon
  <2> QED BY <2>4, <2>5, Zenon
<1>3. f \in [N -> CopiesIn(P, o)] /\ \A x \in N : f[x] = Origin(x)
  BY <1>2, Zenon
<1> HIDE DEF Origin, Part, N, f
<1>4. ASSUME NEW x \in N, NEW y \in N, Origin(x) = Origin(y)  PROVE x = y
  <2>1. CASE x[1] \in P \ R /\ y[1] \in P \ R
    BY <1>2, <1>4, <2>1, Zenon
  <2>2. ASSUME NEW u \in N, NEW v \in N, u[1] \in P \ R, v[1] \notin P \ R, Origin(u) = Origin(v)
        PROVE  FALSE
    <3>1. PICK b :
             Origin(v) = <<BuiltKey(<<b[1], b[2]>>), Part(b)>> /\ BuiltKey(<<b[1], b[2]>>) \in R
      BY <1>2, <2>2, Zenon
    <3>2. Origin(v)[1] = BuiltKey(<<b[1], b[2]>>)
      BY <3>1
    <3>3. Origin(u) = u
      BY <1>2, <2>2, Zenon
    <3> QED BY <2>2, <3>1, <3>2, <3>3, Zenon
  <2>3. CASE x[1] \notin P \ R /\ y[1] \notin P \ R
    <3>1. PICK K \in A : \E b \in K.from :
             x = <<K, b>> /\ Origin(x) = <<BuiltKey(<<b[1], b[2]>>), Part(b)>>
      BY <1>2, <2>3, ZenonT(60)
    <3>2. PICK b \in K.from : x = <<K, b>> /\ Origin(x) = <<BuiltKey(<<b[1], b[2]>>), Part(b)>>
      BY <3>1, Zenon
    <3>3. PICK J \in A : \E d \in J.from :
             y = <<J, d>> /\ Origin(y) = <<BuiltKey(<<d[1], d[2]>>), Part(d)>>
      BY <1>2, <2>3, ZenonT(60)
    <3>4. PICK d \in J.from : y = <<J, d>> /\ Origin(y) = <<BuiltKey(<<d[1], d[2]>>), Part(d)>>
      BY <3>3, Zenon
    <3>5. Origin(x)[2] = Part(b) /\ Origin(y)[2] = Part(d)
      <4>1. Origin(x)[2] = Part(b)
        BY <3>2
      <4>2. Origin(y)[2] = Part(d)
        BY <3>4
      <4> QED BY <4>1, <4>2, Zenon
    <3>6. Part(b) = Part(d)
      BY <1>4, <3>5, Zenon
    <3>7. b[1] = d[1] /\ b[2] = d[2]
      BY <3>6 DEF Part
    <3>8. K = J /\ b = d
      BY <3>7, Zenon DEF Replaces
    <3> QED BY <3>2, <3>4, <3>8, Zenon
  <2> QED BY <1>4, <2>1, <2>2, <2>3, Zenon
<1>5. \A x, y \in N : f[x] = f[y] => x = y
  BY <1>3, <1>4, Zenon
<1>6. f \in Injection(N, CopiesIn(P, o))
  BY <1>3, <1>5, Zenon DEF Injection, IsInjective
<1> QED BY <1>6, FS_Injection, Zenon DEF N

\* The builder adds a copy of the records in the range it publishes, of no other.
LEMMA SaveCounts ==
    ASSUME NEW P, NEW r, NEW o, IsFiniteSet(CopiesIn(P, o))
    PROVE  /\ IsFiniteSet(CopiesIn(P \cup {BuiltKey(r)}, o))
           /\ Cardinality(CopiesIn(P \cup {BuiltKey(r)}, o)) <= Cardinality(CopiesIn(P, o)) + 1
           /\ ~Holds(r, o) => CopiesIn(P \cup {BuiltKey(r)}, o) = CopiesIn(P, o)
<1> DEFINE t == <<r[1], r[2], 0>>
           N == CopiesIn(P \cup {BuiltKey(r)}, o)
           y == <<BuiltKey(r), t>>
<1>1. BuiltKey(r).from = {t} /\ (Holds(t, o) <=> Holds(r, o))
  BY DEF BuiltKey, Holds
<1>2. ASSUME NEW x \in N  PROVE x \in CopiesIn(P, o) \/ (x = y /\ Holds(r, o))
  <2>1. PICK k \in P \cup {BuiltKey(r)} : \E b \in k.from : x = <<k, b>> /\ Holds(b, o)
    BY CopyIs, SMT
  <2>2. CASE k \in P
    BY <2>1, <2>2, CopyFrom, Zenon
  <2>3. CASE k = BuiltKey(r)
    BY <1>1, <2>1, <2>3, Zenon
  <2> QED BY <2>2, <2>3, Zenon
<1>3. ASSUME NEW x \in CopiesIn(P, o)  PROVE x \in N
  <2>1. PICK k \in P : \E b \in k.from : x = <<k, b>> /\ Holds(b, o)
    BY CopyIs, SMT
  <2>2. k \in P \cup {BuiltKey(r)}
    BY Zenon
  <2> QED BY <2>1, <2>2, CopyFrom, Zenon
<1>4. ~Holds(r, o) => N = CopiesIn(P, o)
  BY <1>2, <1>3, Zenon
<1>5. PICK C : C = CopiesIn(P, o)
  BY Zenon
<1>6. N \in SUBSET (C \cup {y})
  BY <1>2, <1>5, Zenon
<1> HIDE DEF N, y
<1>7. /\ IsFiniteSet(C \cup {y}) /\ Cardinality(C) \in Nat
      /\ Cardinality(C \cup {y}) = Cardinality(C) \/ Cardinality(C \cup {y}) = Cardinality(C) + 1
  BY <1>5, FS_AddElement, FS_CardinalityType, Zenon
<1>8. IsFiniteSet(N) /\ Cardinality(N) \in Nat /\ Cardinality(N) <= Cardinality(C \cup {y})
  BY <1>6, <1>7, FS_Subset, FS_CardinalityType, Zenon
<1>9. Cardinality(N) <= Cardinality(C) + 1
  BY <1>7, <1>8
<1> QED BY <1>4, <1>5, <1>8, <1>9, Zenon DEF N

\* The parts of a merged block are the ranges of its inputs.
LEMMA PartsOfMerged ==
    ASSUME NEW S
    PROVE  /\ CompactedKey(S).level = 1
           /\ \A b \in CompactedKey(S).from : \E q \in Ranges :
                 BuiltKey(q) \in S /\ b = <<q[1], q[2], puts[q]>> /\ <<b[1], b[2]>> = q
           /\ \A q \in Ranges : BuiltKey(q) \in S => <<q[1], q[2], puts[q]>> \in CompactedKey(S).from
<1>1. /\ CompactedKey(S).level = 1
      /\ CompactedKey(S).from = {<<r[1], r[2], puts[r]>> : r \in {q \in Ranges : BuiltKey(q) \in S}}
  BY Zenon DEF CompactedKey
<1>2. ASSUME NEW q \in Ranges, NEW b, b = <<q[1], q[2], puts[q]>>  PROVE <<b[1], b[2]>> = q
  BY <1>2 DEF Ranges
<1>3. \A q \in Ranges : BuiltKey(q) \in S => <<q[1], q[2], puts[q]>> \in CompactedKey(S).from
  BY <1>1, Zenon
<1>4. ASSUME NEW b \in CompactedKey(S).from
      PROVE  \E q \in Ranges :
                BuiltKey(q) \in S /\ b = <<q[1], q[2], puts[q]>> /\ <<b[1], b[2]>> = q
  <2>1. PICK q \in Ranges : BuiltKey(q) \in S /\ b = <<q[1], q[2], puts[q]>>
    BY <1>1, <1>4, Zenon
  <2> QED BY <1>2, <2>1, Zenon
<1> QED BY <1>1, <1>3, <1>4, Zenon

\* A job takes built blocks of the pass's index.
LEMMA JobInputs ==
    ASSUME NEW c, NEW S \in Jobs(c)
    PROVE  S \subseteq index[c] /\ S # {} /\ \A k \in S : k.level = 0
<1>1. S \subseteq index[c] /\ Cardinality(S) >= 2 /\ \A k \in S : k.level = 0
  BY Zenon DEF Jobs, JobsIn
<1>2. Cardinality({}) = 0
  BY FS_EmptySet, Zenon
<1>3. S # {}
  BY <1>1, <1>2
<1> QED BY <1>1, <1>3, Zenon

\* A merged block of other inputs may join.
LEMMA ReplacesMore ==
    ASSUME NEW A, NEW R, Replaces(A, R), NEW K, NEW S,
           \A b \in K.from : BuiltKey(<<b[1], b[2]>>) \in S,
           \A b \in K.from : \A d \in K.from : b[1] = d[1] /\ b[2] = d[2] => b = d,
           \A J \in A : \A b \in K.from : \A d \in J.from : ~(b[1] = d[1] /\ b[2] = d[2])
    PROVE  Replaces(A \cup {K}, R \cup S)
<1>1. \A J \in A : \A b \in J.from : BuiltKey(<<b[1], b[2]>>) \in R
  BY Zenon DEF Replaces
<1>2. \A I \in A : \A J \in A : \A b \in I.from : \A d \in J.from :
          b[1] = d[1] /\ b[2] = d[2] => I = J /\ b = d
  BY Zenon DEF Replaces
<1>3. \A J \in A \cup {K} : \A b \in J.from : BuiltKey(<<b[1], b[2]>>) \in R \cup S
  BY <1>1, Zenon
<1>4. ASSUME NEW I \in A \cup {K}, NEW J \in A \cup {K}, NEW b \in I.from, NEW d \in J.from,
             b[1] = d[1], b[2] = d[2]
      PROVE  I = J /\ b = d
  <2>1. CASE I \in A /\ J \in A
    BY <1>2, <1>4, <2>1, Zenon
  <2>2. CASE I = K /\ J = K
    BY <1>4, <2>2, Zenon
  <2>3. CASE I = K /\ J \in A
    BY <1>4, <2>3, Zenon
  <2>4. CASE I \in A /\ J = K
    BY <1>4, <2>4, Zenon
  <2> QED BY <2>1, <2>2, <2>3, <2>4, Zenon
<1> QED BY <1>3, <1>4, Zenon DEF Replaces

\* Every step keeps the accounts of the passes.
LEMMA AccountsStep ==
    ASSUME TypeInv, \A c \in Compactors : Accounts(c), [Next]_vars
    PROVE  \A c \in Compactors : Accounts(c)'
<1>1. /\ DOMAIN index = Compactors /\ DOMAIN added = Compactors /\ DOMAIN retired = Compactors
      /\ pc \in [Compactors -> Labels]
  BY Zenon DEF TypeInv, Passes
<1>2. ASSUME NEW c \in Compactors, UNCHANGED <<pc[c], index[c], added[c], retired[c]>>
      PROVE  Accounts(c)'
  BY <1>2, Zenon DEF Accounts
<1>3. CASE \/ Append \/ Expiry \/ (\E k \in Objects : GrowOld(k))
           \/ BuilderStep \/ BuilderCrash \/ UNCHANGED vars
  <2>1. UNCHANGED <<pc, index, added, retired>>
    BY <1>3, Zenon DEF Append, Expiry, GrowOld, BuilderStep, Poll, WriteBlock, SaveIndex,
                       CommitSync, BuilderRestart, BuilderCrash, vars, pass
  <2> QED BY <1>2, <2>1, Zenon
<1>4. ASSUME NEW c \in Compactors, PassStep(c) \/ PassFails(c)  PROVE Accounts(c)'
  <2>1. CASE EndPass(c)
    <3>1. added'[c] = {} /\ retired'[c] = {} /\ index'[c] = {}
      BY <1>1, <2>1, Zenon DEF EndPass
    <3> QED BY <3>1, Zenon DEF Accounts, Replaces
  <2>2. CASE LoadIndex(c)
    <3>1. added[c] = {} /\ retired[c] = {}
      BY <2>2, Zenon DEF LoadIndex, TypeInv, PassTypes, Known
    <3>2. added'[c] = {} /\ retired'[c] = {}
      BY <2>2, <3>1, Zenon DEF LoadIndex
    <3> QED BY <3>2, Zenon DEF Accounts, Replaces
  <2>3. CASE CompactJob(c)
    <3>1. PICK S \in Jobs(c) : \E K \in {CompactedKey(S)} :
             /\ index' = [index EXCEPT ![c] = (index[c] \ S) \cup {K}]
             /\ added' = [added EXCEPT ![c] = added[c] \cup {K}]
             /\ retired' = [retired EXCEPT ![c] = retired[c] \cup S]
      BY <2>3, Zenon DEF CompactJob
    <3>2. PICK K : /\ K = CompactedKey(S)
                   /\ index'[c] = (index[c] \ S) \cup {K}
                   /\ added'[c] = added[c] \cup {K}
                   /\ retired'[c] = retired[c] \cup S
      BY <1>1, <3>1, Zenon
    <3>3. pc[c] = "compact" /\ pc'[c] = pc[c]
      BY <2>3, Zenon DEF CompactJob
    <3>4. S \subseteq index[c] /\ S # {} /\ Accounts(c)
      BY JobInputs, Zenon
    <3>5. K.level = 1 /\ \A r : K # BuiltKey(r)
      <4>1. K.level = 1
        BY <3>2, PartsOfMerged, Zenon
      <4>2. \A r : BuiltKey(r).level = 0
        BY DEF BuiltKey
      <4>3. 0 # 1
        OBVIOUS
      <4> QED BY <4>1, <4>2, <4>3, Zenon
    <3>6. \A b \in K.from : \E q \in Ranges :
             BuiltKey(q) \in S /\ b = <<q[1], q[2], puts[q]>> /\ <<b[1], b[2]>> = q
      BY <3>2, PartsOfMerged, Zenon
    <3>7. ASSUME NEW b \in K.from, NEW d \in K.from, b[1] = d[1], b[2] = d[2]  PROVE b = d
      <4>1. PICK q \in Ranges : b = <<q[1], q[2], puts[q]>> /\ <<b[1], b[2]>> = q
        BY <3>6, Zenon
      <4>2. PICK p \in Ranges : d = <<p[1], p[2], puts[p]>> /\ <<d[1], d[2]>> = p
        BY <3>6, Zenon
      <4>3. p = q
        BY <3>7, <4>1, <4>2, Zenon
      <4> QED BY <4>1, <4>2, <4>3, Zenon
    <3>8. ASSUME NEW J \in added[c], NEW b \in K.from, NEW d \in J.from, b[1] = d[1], b[2] = d[2]
          PROVE  FALSE
      <4>1. PICK q \in Ranges : BuiltKey(q) \in S /\ <<b[1], b[2]>> = q
        BY <3>6, Zenon
      <4>2. BuiltKey(<<d[1], d[2]>>) \in retired[c]
        BY <3>4, Zenon DEF Accounts, Replaces
      <4>3. BuiltKey(q) \in retired[c]
        BY <3>8, <4>1, <4>2, Zenon
      <4> QED BY <3>4, <4>1, <4>3, Zenon DEF Accounts
    <3>9. Replaces(added'[c], retired'[c])
      <4>1. PICK A, R : A = added[c] /\ R = retired[c]
        BY Zenon
      <4>2. Replaces(A, R)
        BY <3>4, <4>1, Zenon DEF Accounts
      <4>3. \A b \in K.from : BuiltKey(<<b[1], b[2]>>) \in S
        BY <3>6, Zenon
      <4>4. Replaces(A \cup {K}, R \cup S)
        BY <3>7, <3>8, <4>1, <4>2, <4>3, ReplacesMore, Zenon
      <4> QED BY <3>2, <4>1, <4>4, Zenon
    <3>10. \A r \in Ranges : BuiltKey(r) \in index'[c] => BuiltKey(r) \notin retired'[c]
      BY <3>2, <3>4, <3>5, Zenon DEF Accounts
    <3>11. Ranges' = Ranges /\ \A r : BuiltKey(r)' = BuiltKey(r)
      BY Zenon DEF Ranges, BuiltKey
    <3>12. retired'[c] # {}
      BY <3>2, <3>4, Zenon
    <3> QED BY <3>3, <3>9, <3>10, <3>11, <3>12, Zenon DEF Accounts, Replaces, BuiltKey
  <2>4. CASE Expire(c)
    <3>1. PICK gone : gone = {k \in index[c] : Expired(c, k)}
      BY Zenon
    <3>2. /\ index' = [index EXCEPT ![c] = index[c] \ gone]
          /\ added' = [added EXCEPT ![c] = added[c] \ gone]
          /\ retired' = [retired EXCEPT ![c] = retired[c] \cup gone]
          /\ pc' = [pc EXCEPT ![c] = IF retired[c] \cup gone = {} THEN "sweep" ELSE "save"]
      BY <2>4, <3>1, Zenon DEF Expire, Goto
    <3>3. /\ index'[c] = index[c] \ gone /\ added'[c] = added[c] \ gone
          /\ retired'[c] = retired[c] \cup gone
          /\ pc'[c] = IF retired[c] \cup gone = {} THEN "sweep" ELSE "save"
      BY <1>1, <3>2, Zenon
    <3>4. Accounts(c)
      BY Zenon
    <3>5. Replaces(added'[c], retired'[c])
      BY <3>3, <3>4, ZenonT(60) DEF Accounts, Replaces
    <3>6. retired'[c] = {} => added'[c] = {}
      BY <3>3, <3>4, Zenon DEF Accounts
    <3>7. pc'[c] \notin {"compact", "save"} => retired'[c] = {}
      BY <3>3, Zenon
    <3>8. \A r \in Ranges : BuiltKey(r) \in index'[c] => BuiltKey(r) \notin retired'[c]
      BY <3>3, <3>4, Zenon DEF Accounts
    <3> QED BY <3>5, <3>6, <3>7, <3>8, Zenon DEF Accounts, Replaces, BuiltKey
  <2>5. CASE PublishPass(c)
    <3>1. added'[c] = {} /\ retired'[c] = retired[c] /\ index'[c] = index[c]
      BY <1>1, <2>5, Zenon DEF PublishPass
    <3>2. Accounts(c)
      BY Zenon
    <3> QED BY <3>1, <3>2, Zenon DEF Accounts, Replaces, BuiltKey
  <2>6. CASE DeletesDone(c) \/ SweepList(c) \/ DeleteRetired(c) \/ SweepDelete(c)
    <3>1. pc[c] \notin {"compact", "save"} /\ UNCHANGED <<index, added>>
      BY <2>6, Zenon DEF DeletesDone, SweepList, DeleteRetired, SweepDelete, plan
    <3>2. retired'[c] \subseteq retired[c]
      BY <1>1, <2>6, Zenon DEF DeletesDone, SweepList, DeleteRetired, SweepDelete
    <3>3. added'[c] = {} /\ Accounts(c)
      BY <3>1, Zenon DEF Accounts
    <3> QED BY <3>1, <3>2, <3>3, Zenon DEF Accounts, Replaces, BuiltKey
  <2>7. CASE InputMissing(c) \/ RefusePass(c) \/ PassDone(c) \/ PassFails(c)
    BY <2>1, <2>7, Zenon DEF InputMissing, RefusePass, PassDone, PassFails
  <2> QED BY <1>4, <2>2, <2>3, <2>4, <2>5, <2>6, <2>7, Zenon DEF PassStep
<1>5. ASSUME NEW c \in Compactors, PassStep(c) \/ PassFails(c), NEW d \in Compactors, d # c
      PROVE  UNCHANGED <<pc[d], index[d], added[d], retired[d]>>
  BY <1>1, <1>5, Zenon DEF PassStep, PassFails, LoadIndex, CompactJob, InputMissing, Expire,
        PublishPass, RefusePass, DeleteRetired, DeletesDone, SweepList, SweepDelete, PassDone,
        EndPass, Goto, plan
<1> QED BY <1>2, <1>3, <1>4, <1>5, Zenon DEF Next

\* Every step keeps the count.
LEMMA CountedStep ==
    ASSUME TypeInv, CopyInv, [Next]_vars
    PROVE  Counted'
<1>1. /\ committed \in Nat /\ position \in Nat /\ committed <= position /\ crashes \in Nat
      /\ builder \in {"down", "poll", "save", "commit"}
  <2>1. BuilderTypes
    BY Zenon DEF TypeInv
  <2> QED BY <2>1, BoundsAssumption DEF BuilderTypes
<1>2. ASSUME NEW o \in Nat
      PROVE  /\ IsFiniteSet(CopiesIn(published, o))
             /\ Cardinality(CopiesIn(published, o)) \in Nat
             /\ Cardinality(CopiesIn(published, o)) <= crashes + 1
             /\ o >= Bound => Cardinality(CopiesIn(published, o)) <= crashes
  <2>1. Copies(o) = CopiesIn(published, o)
    BY Zenon DEF Copies, CopiesIn
  <2>2. IsFiniteSet(CopiesIn(published, o))
    BY <2>1, Zenon DEF CopyInv, Counted
  <2>3. Cardinality(CopiesIn(published, o)) \in Nat
    BY <2>2, FS_CardinalityType, Zenon
  <2> QED BY <2>1, <2>2, <2>3, Zenon DEF CopyInv, Counted
<1>3. ASSUME \A o \in Nat : /\ IsFiniteSet(CopiesIn(published', o))
                            /\ Cardinality(CopiesIn(published', o)) <= crashes' + 1
                            /\ o >= Bound' => Cardinality(CopiesIn(published', o)) <= crashes'
      PROVE  Counted'
  <2>1. \A o : Copies(o)' = CopiesIn(published', o)
    BY Zenon DEF Copies, CopiesIn, Holds
  <2> QED BY <1>3, <2>1, Zenon DEF Counted
<1>4. CASE SaveIndex
  <2>1. PICK r : r = FlushRange
    BY Zenon
  <2>2. /\ published' = published \cup {BuiltKey(r)} /\ builder = "save" /\ builder' = "commit"
        /\ UNCHANGED <<committed, position, crashes>>
    BY <1>4, <2>1, Zenon DEF SaveIndex, wal
  <2>3. Bound = committed /\ Bound' = position
    BY <2>2, Zenon DEF Bound
  <2>4. r[1] = committed /\ r[2] = position - 1
    BY <2>1 DEF FlushRange
  <2>5. ASSUME NEW o \in Nat
        PROVE  /\ IsFiniteSet(CopiesIn(published', o))
               /\ Cardinality(CopiesIn(published', o)) <= crashes' + 1
               /\ o >= Bound' => Cardinality(CopiesIn(published', o)) <= crashes'
    <3>1. PICK P : P = published
      BY Zenon
    <3>2. /\ IsFiniteSet(CopiesIn(P \cup {BuiltKey(r)}, o))
          /\ Cardinality(CopiesIn(P \cup {BuiltKey(r)}, o)) <= Cardinality(CopiesIn(P, o)) + 1
          /\ ~Holds(r, o) => CopiesIn(P \cup {BuiltKey(r)}, o) = CopiesIn(P, o)
      BY <1>2, <3>1, SaveCounts, Zenon
    <3>3. PICK n, m : /\ n = Cardinality(CopiesIn(published, o))
                      /\ m = Cardinality(CopiesIn(published', o))
      BY Zenon
    <3>4. /\ IsFiniteSet(CopiesIn(published', o)) /\ m <= n + 1
          /\ ~Holds(r, o) => m = n
      BY <2>2, <3>1, <3>2, <3>3, Zenon
    <3>5. n \in Nat /\ n <= crashes + 1 /\ (o >= committed => n <= crashes)
      BY <1>2, <2>3, <3>3, Zenon
    <3>6. m \in Nat
      BY <3>3, <3>4, FS_CardinalityType, Zenon
    <3>7. Holds(r, o) <=> committed <= o /\ o <= position - 1
      BY <2>4, Zenon DEF Holds
    <3>8. m <= crashes + 1 /\ (o >= position => m <= crashes)
      BY <1>1, <3>4, <3>5, <3>6, <3>7
    <3> QED BY <2>2, <2>3, <3>3, <3>4, <3>8, Zenon
  <2> QED BY <1>3, <2>5, Zenon
<1>5. ASSUME NEW c \in Compactors, PublishPass(c)  PROVE Counted'
  <2>1. PICK R, A, P : R = retired[c] /\ A = added[c] /\ P = published
    BY Zenon
  <2>2. /\ published' = (P \ R) \cup A /\ R \in SUBSET P
        /\ UNCHANGED <<committed, position, builder, crashes>>
    BY <1>5, <2>1, Zenon DEF PublishPass, SaveRefused, wal, build
  <2>3. Replaces(A, R) /\ Bound' = Bound
    BY <2>1, <2>2, Zenon DEF CopyInv, Accounts, Bound
  <2>4. ASSUME NEW o \in Nat
        PROVE  /\ IsFiniteSet(CopiesIn(published', o))
               /\ Cardinality(CopiesIn(published', o)) <= crashes' + 1
               /\ o >= Bound' => Cardinality(CopiesIn(published', o)) <= crashes'
    <3>1. PICK n, m : /\ n = Cardinality(CopiesIn(published, o))
                      /\ m = Cardinality(CopiesIn(published', o))
      BY Zenon
    <3>2. /\ n \in Nat /\ n <= crashes + 1 /\ (o >= Bound => n <= crashes)
          /\ IsFiniteSet(CopiesIn(P, o))
      BY <1>2, <2>1, <3>1, Zenon
    <3>3. IsFiniteSet(CopiesIn(published', o)) /\ m <= n
      BY <2>1, <2>2, <2>3, <3>1, <3>2, SwapCounts, Zenon
    <3>4. m \in Nat
      BY <3>1, <3>3, FS_CardinalityType, Zenon
    <3>5. m <= crashes + 1 /\ (n <= crashes => m <= crashes)
      BY <1>1, <3>2, <3>3, <3>4
    <3> QED BY <2>2, <2>3, <3>1, <3>2, <3>3, <3>5, Zenon
  <2> QED BY <1>3, <2>4, Zenon
<1>6. CASE BuilderCrash
  <2>1. /\ published' = published /\ builder' = "down"
        /\ crashes' = crashes + 1
    BY <1>6, Zenon DEF BuilderCrash
  <2>2. ASSUME NEW o \in Nat
        PROVE  /\ Cardinality(CopiesIn(published, o)) <= crashes' + 1
               /\ Cardinality(CopiesIn(published, o)) <= crashes'
    <3>1. PICK n : n = Cardinality(CopiesIn(published, o))
      BY Zenon
    <3>2. n \in Nat /\ n <= crashes + 1
      BY <1>2, <3>1, Zenon
    <3>3. n <= crashes' + 1 /\ n <= crashes'
      BY <1>1, <2>1, <3>2
    <3> QED BY <3>1, <3>3, Zenon
  <2> QED BY <1>2, <1>3, <2>1, <2>2, Zenon
<1>7. ASSUME UNCHANGED <<published, crashes, Bound>>  PROVE Counted'
  BY <1>2, <1>3, <1>7, Zenon
<1>8. CASE CommitSync \/ BuilderRestart \/ Poll \/ WriteBlock
  <2>1. UNCHANGED <<published, crashes, Bound>>
    BY <1>8, Zenon DEF CommitSync, BuilderRestart, Poll, WriteBlock, Bound, wal
  <2> QED BY <1>7, <2>1, Zenon
<1>9. CASE \/ Append \/ Expiry \/ (\E k \in Objects : GrowOld(k)) \/ UNCHANGED vars
  <2>1. UNCHANGED <<published, crashes, committed, position, builder>>
    BY <1>9, Zenon DEF Append, Expiry, GrowOld, vars, wal, build
  <2> QED BY <1>7, <2>1, Zenon DEF Bound
<1>10. ASSUME NEW c \in Compactors, PassStep(c) \/ PassFails(c), ~PublishPass(c)  PROVE Counted'
  <2>1. UNCHANGED <<published, crashes, committed, position, builder>>
    BY <1>10, Zenon DEF PassStep, PassFails, LoadIndex, CompactJob, InputMissing, Expire,
          RefusePass, DeleteRetired, DeletesDone, SweepList, SweepDelete, PassDone, wal, build
  <2> QED BY <1>7, <2>1, Zenon DEF Bound
<1> QED BY <1>4, <1>5, <1>6, <1>8, <1>9, <1>10, Zenon DEF Next, BuilderStep

\* A record is published at most once more than the builder crashes, whatever the
\* compactors merge, repeat and lose.
THEOREM NoCopies == Spec => []CopiesBoundedByCrashes
<1>1. Init => CopyInv
  <2> SUFFICES ASSUME Init  PROVE CopyInv
    BY Zenon
  <2>1. \A c \in Compactors : Accounts(c)
    BY Zenon DEF Init, Accounts, Replaces
  <2>2. \A o : Copies(o) = {}
    BY Zenon DEF Init, Copies
  <2>3. IsFiniteSet({}) /\ Cardinality({}) = 0 /\ 0 <= 0 /\ 0 <= 0 + 1
    BY FS_EmptySet
  <2>4. Counted
    BY <2>2, <2>3, Zenon DEF Counted, Init
  <2> QED BY <2>1, <2>4, Zenon DEF CopyInv
<1>2. TypeInv /\ CopyInv /\ [Next]_vars => CopyInv'
  BY AccountsStep, CountedStep, Zenon DEF CopyInv
<1>3. TypeInv /\ CopyInv => CopiesBoundedByCrashes
  <2> SUFFICES ASSUME TypeInv, CopyInv, NEW o \in 0..(appended - 1)
               PROVE  Cardinality(Copies(o)) <= 1 + crashes
    BY Zenon DEF CopiesBoundedByCrashes
  <2>1. BuilderTypes
    BY Zenon DEF TypeInv
  <2>2. o \in Nat /\ crashes + 1 = 1 + crashes
    BY <2>1, BoundsAssumption DEF BuilderTypes
  <2> QED BY <2>2, Zenon DEF CopyInv, Counted
<1> QED BY <1>1, <1>2, <1>3, TypeInvariant, PTL DEF Spec
-----------------------------------------------------------------------------
(* Committed records, through any number of crashes, beside one compactor.     *)

\* A key is that of a built block of some range or of a merged one.
Shaped(k) == k.level = 1 \/ \E r \in Ranges : k = BuiltKey(r)

\* What the retention window leaves of k is in published merged blocks.
Backed(k) ==
    \A o \in Nat : o >= horizon /\ Has(k, o) =>
        \E K \in published : K.level = 1 /\ Has(K, o)

\* The builder has passed k, which is not published and never will be.
Dead(k) == k \notin published /\ \A b \in k.from : b[1] \in 0..(committed - 1)

Open(c) == pc[c] \in {"compact", "save"}

\* A pass of c, for a block it has found old: the block is still indexed, about to
\* be replaced, or needed by nobody.
Settles(c, k) ==
    k \in index[c] \/ (Open(c) /\ k \in retired[c]) \/ Backed(k) \/ Dead(k)

PassDurable(c) ==
    /\ \A k \in Known(c) : Shaped(k)
    /\ \A k \in published : k.level = 1 /\ pc[c] # "idle" =>
          k \in index[c] \/ (Open(c) /\ k \in retired[c])
    /\ Open(c) => \A k \in added[c] : k.level = 1 /\ k \in Objects /\ k \in index[c]
    /\ index[c] \cap retired[c] = {}
    /\ pc[c] = "compact" => \A k \in retired[c] : k.level = 0
    /\ Open(c) => \A k \in retired[c] : \A o \in Nat :
          o >= until[c] /\ Has(k, o) => \E K \in added[c] : Has(K, o)
    /\ pc[c] = "delete" => \A k \in retired[c] :
          IF k.level = 1 THEN k \notin published ELSE Backed(k)
    /\ \A k \in aged[c] : k.level = 0 => Settles(c, k)
    /\ \A k \in stale[c] : IF k.level = 1 THEN k \notin published ELSE Backed(k) \/ Dead(k)
    /\ pc[c] # "reclaim" => stale[c] = {}

DurableInv ==
    /\ \A k \in Objects \cup published : Shaped(k)
    /\ \A o \in Nat : o >= horizon /\ o < Bound => \E k \in published : Has(k, o)
    /\ \A k \in published : k \in Objects \/ (k.level = 0 /\ Backed(k))
    /\ builder = "save" => BuiltKey(FlushRange) \in Objects \/ Backed(BuiltKey(FlushRange))
    /\ \A k \in Objects : k.level = 0 /\ old[k] => k \in published \/ Backed(k) \/ Dead(k)
    /\ \A c \in Compactors : PassDurable(c)

\* Members of an interval that starts at 0.
LEMMA InInterval ==
    ASSUME NEW m, NEW n \in 0..m
    PROVE  n \in Nat
OBVIOUS

\* An interval grows with its end.
LEMMA LongerInterval ==
    ASSUME NEW m \in Nat, NEW n \in Nat, m <= n
    PROVE  0..(m - 1) \subseteq 0..(n - 1)
OBVIOUS

\* A built block holds one range.
LEMMA BuiltHas ==
    ASSUME NEW r, NEW o
    PROVE  /\ BuiltKey(r).level = 0 /\ BuiltKey(r).from = {<<r[1], r[2], 0>>}
           /\ Has(BuiltKey(r), o) <=> r[1] <= o /\ o <= r[2]
<1>1. BuiltKey(r).level = 0 /\ BuiltKey(r).from = {<<r[1], r[2], 0>>}
  BY DEF BuiltKey
<1>2. <<r[1], r[2], 0>>[1] = r[1] /\ <<r[1], r[2], 0>>[2] = r[2]
  BY SMT
<1> QED BY <1>1, <1>2, Zenon DEF Has, Holds

\* A merged block holds what its inputs hold.
LEMMA MergedHas ==
    ASSUME NEW S, NEW k \in S, Shaped(k), k.level = 0, NEW o, Has(k, o)
    PROVE  Has(CompactedKey(S), o)
<1>1. PICK r \in Ranges : k = BuiltKey(r)
  <2>1. k.level # 1
    OBVIOUS
  <2> QED BY <2>1, Zenon DEF Shaped
<1>2. PICK b : b = <<r[1], r[2], puts[r]>>
  BY Zenon
<1>3. b[1] = r[1] /\ b[2] = r[2]
  BY <1>2
<1>4. b \in CompactedKey(S).from
  BY <1>1, <1>2, PartsOfMerged, Zenon
<1>5. r[1] <= o /\ o <= r[2]
  BY <1>1, BuiltHas, Zenon
<1> QED BY <1>3, <1>4, <1>5, Zenon DEF Has, Holds

\* An expired block holds nothing of the retention window.
LEMMA ExpiredHas ==
    ASSUME NEW c, until[c] \in Nat, NEW k, Formed(k), Expired(c, k), NEW o \in Nat, Has(k, o)
    PROVE  ~(o >= until[c])
<1>1. PICK b \in k.from : b[1] <= o /\ o <= b[2]
  BY Zenon DEF Has, Holds
<1>2. b[2] < until[c] /\ <<b[1], b[2]>> \in Ranges
  BY Zenon DEF Expired, Formed
<1>3. <<b[1], b[2]>>[2] = b[2]
  OBVIOUS
<1>4. b[2] \in Nat
  BY <1>2, <1>3, RangeFacts, Zenon
<1> QED BY <1>1, <1>2, <1>4

\* Backing moves from one merged block to another, and ends with the window.
LEMMA BackedStays ==
    ASSUME horizon \in Nat, horizon' \in Nat, horizon <= horizon',
           \A K \in published : \A o \in Nat : K.level = 1 /\ o >= horizon /\ Has(K, o) =>
              \E J \in published' : J.level = 1 /\ Has(J, o),
           NEW k, Backed(k)
    PROVE  Backed(k)'
<1> SUFFICES ASSUME NEW o \in Nat, o >= horizon', Has(k, o)
             PROVE  \E K \in published' : K.level = 1 /\ Has(K, o)
  BY Zenon DEF Backed
<1>1. o >= horizon
  OBVIOUS
<1> QED BY <1>1, Zenon DEF Backed

\* A step of the builder or of time leaves a pass as it is.
LEMMA PassUntouched ==
    ASSUME NEW c, PassDurable(c), UNCHANGED <<pc, index, added, retired, until, stale>>,
           aged'[c] \subseteq aged[c], Objects \subseteq Objects',
           \A k \in published' : k \in published \/ k.level = 0,
           \A k : Backed(k) => Backed(k)', \A k : Dead(k) => Dead(k)'
    PROVE  PassDurable(c)'
<1>1. Known(c)' \subseteq Known(c)
  BY Zenon DEF Known
<1>2. \A k \in Known(c)' : Shaped(k)
  BY <1>1, Zenon DEF PassDurable
<1>3. \A k \in published' : k.level = 1 => k \in published
  <2>1. 0 # 1
    OBVIOUS
  <2> QED BY <2>1, Zenon
<1>4. \A k \in aged'[c] : k.level = 0 => Settles(c, k)'
  <2> SUFFICES ASSUME NEW k \in aged'[c], k.level = 0  PROVE Settles(c, k)'
    BY Zenon
  <2>1. Settles(c, k)
    BY Zenon DEF PassDurable
  <2> QED BY <2>1, Zenon DEF Settles, Open
<1>5. \A k \in stale'[c] : IF k.level = 1 THEN k \notin published' ELSE (Backed(k) \/ Dead(k))'
  <2> SUFFICES ASSUME NEW k \in stale[c]
               PROVE  IF k.level = 1 THEN k \notin published' ELSE Backed(k)' \/ Dead(k)'
    BY Zenon
  <2>1. IF k.level = 1 THEN k \notin published ELSE Backed(k) \/ Dead(k)
    BY Zenon DEF PassDurable
  <2> QED BY <1>3, <2>1, Zenon
<1>6. pc'[c] = "delete" => \A k \in retired'[c] :
          IF k.level = 1 THEN k \notin published' ELSE Backed(k)'
  <2> SUFFICES ASSUME pc[c] = "delete", NEW k \in retired[c]
               PROVE  IF k.level = 1 THEN k \notin published' ELSE Backed(k)'
    BY Zenon
  <2>1. IF k.level = 1 THEN k \notin published ELSE Backed(k)
    BY Zenon DEF PassDurable
  <2> QED BY <1>3, <2>1, Zenon
<1>7. /\ \A k \in published' : k.level = 1 /\ pc'[c] # "idle" =>
            k \in index'[c] \/ (Open(c)' /\ k \in retired'[c])
      /\ Open(c)' => \A k \in added'[c] : k.level = 1 /\ k \in Objects' /\ k \in index'[c]
      /\ index'[c] \cap retired'[c] = {}
      /\ pc'[c] = "compact" => \A k \in retired'[c] : k.level = 0
      /\ pc'[c] # "reclaim" => stale'[c] = {}
  BY <1>3, Zenon DEF PassDurable, Open
<1>8. Open(c)' => \A k \in retired'[c] : \A o \in Nat :
          o >= until'[c] /\ Has(k, o) => \E K \in added'[c] : Has(K, o)
  BY Zenon DEF PassDurable, Open
<1> QED BY <1>2, <1>4, <1>5, <1>6, <1>7, <1>8, Zenon DEF PassDurable

\* What a step of the builder or of time has to respect.
LEMMA QuietDurable ==
    ASSUME TypeInv, TypeInv', DurableInv,
           UNCHANGED <<pc, index, added, retired, until, stale>>,
           \A c \in Compactors : aged'[c] \subseteq aged[c],
           Objects \subseteq Objects', \A k \in Objects' : k \in Objects \/ Shaped(k),
           published \subseteq published',
           \A k \in published' : k \in published \/
              (k.level = 0 /\ Shaped(k) /\ ~Dead(k) /\ (k \in Objects' \/ Backed(k))),
           horizon <= horizon', committed <= committed',
           \A o \in Nat : o >= horizon' /\ o < Bound' => \E k \in published' : Has(k, o),
           builder' = "save" => \E k : k = BuiltKey(FlushRange)' /\ (k \in Objects' \/ Backed(k)),
           \A k \in Objects' : k.level = 0 /\ old'[k] => k \in published \/ Backed(k) \/ Dead(k)
    PROVE  DurableInv'
<1>1. /\ committed \in Nat /\ committed' \in Nat /\ horizon \in Nat /\ horizon' \in Nat
  <2>1. BuilderTypes /\ BuilderTypes' /\ horizon \in 0..MaxHorizon /\ horizon' \in 0..MaxHorizon
    BY Zenon DEF TypeInv
  <2>2. horizon \in Nat /\ horizon' \in Nat
    BY <2>1, InInterval, Zenon
  <2> QED BY <2>1, <2>2, Zenon DEF BuilderTypes
<1>2. ASSUME NEW k, Backed(k)  PROVE Backed(k)'
  BY <1>1, <1>2, BackedStays, Zenon
<1>3. ASSUME NEW k, Dead(k)  PROVE Dead(k)'
  <2>1. 0..(committed - 1) \subseteq 0..(committed' - 1)
    BY <1>1, LongerInterval, Zenon
  <2>2. k \notin published'
    BY <1>3, Zenon DEF Dead
  <2>3. \A b \in k.from : b[1] \in 0..(committed' - 1)
    BY <1>3, <2>1, Zenon DEF Dead
  <2> QED BY <2>2, <2>3, Zenon DEF Dead
<1>4. \A k \in published' : k \in published \/ k.level = 0
  BY Zenon
<1>5. ASSUME NEW c \in Compactors  PROVE PassDurable(c)'
  <2>1. PassDurable(c)
    BY Zenon DEF DurableInv
  <2> QED BY <1>2, <1>3, <1>4, <2>1, PassUntouched, Zenon
<1>6. \A k \in Objects' \cup published' : Shaped(k)
  BY Zenon DEF DurableInv
<1>7. \A k \in published' : k \in Objects' \/ (k.level = 0 /\ Backed(k)')
  BY <1>2, Zenon DEF DurableInv
<1>8. builder' = "save" => BuiltKey(FlushRange)' \in Objects' \/ Backed(BuiltKey(FlushRange))'
  <2> SUFFICES ASSUME builder' = "save"
               PROVE  BuiltKey(FlushRange)' \in Objects' \/ Backed(BuiltKey(FlushRange))'
    BY Zenon
  <2>1. PICK k : k = BuiltKey(FlushRange)' /\ (k \in Objects' \/ Backed(k))
    BY Zenon
  <2>2. k \in Objects' \/ Backed(k)'
    BY <1>2, <2>1, Zenon
  <2> QED BY <2>1, <2>2, Zenon DEF Backed
<1>9. \A k \in Objects' : k.level = 0 /\ old'[k] => k \in published' \/ Backed(k)' \/ Dead(k)'
  BY <1>2, <1>3, Zenon
<1> QED BY <1>5, <1>6, <1>7, <1>8, <1>9, Zenon DEF DurableInv

\* The block the builder is about to publish.
LEMMA FlushIs ==
    ASSUME BuilderTypes, committed < position
    PROVE  /\ BuiltKey(FlushRange).level = 0 /\ Shaped(BuiltKey(FlushRange))
           /\ ~Dead(BuiltKey(FlushRange))
           /\ \A o \in Nat : o >= committed /\ o < position => Has(BuiltKey(FlushRange), o)
<1>1. PICK r \in Ranges : r = FlushRange
  BY FlushFormed, Zenon
<1>2. r[1] = committed /\ r[2] = position - 1
  BY <1>1 DEF FlushRange
<1>3. BuiltKey(r).level = 0 /\ BuiltKey(r).from = {<<r[1], r[2], 0>>}
  BY BuiltFacts, Zenon
<1>4. ~Dead(BuiltKey(r))
  <2>1. PICK b : b = <<r[1], r[2], 0>>
    BY Zenon
  <2>2. b[1] = committed
    BY <1>2, <2>1
  <2>3. committed \notin 0..(committed - 1)
    BY DEF BuilderTypes
  <2> QED BY <1>3, <2>1, <2>2, <2>3, Zenon DEF Dead
<1>5. ASSUME NEW o \in Nat, o >= committed, o < position  PROVE Has(BuiltKey(r), o)
  <2>1. r[1] <= o /\ o <= r[2]
    BY <1>2, <1>5 DEF BuilderTypes
  <2> QED BY <2>1, BuiltHas, Zenon
<1> QED BY <1>1, <1>3, <1>4, <1>5, Zenon DEF Shaped

\* Steps of the builder and of time.
LEMMA DurableWorld ==
    ASSUME PromptPublish, TypeInv, TypeInv', DurableInv,
           \/ Append \/ Expiry \/ (\E k \in Objects : GrowOld(k))
           \/ BuilderStep \/ BuilderCrash \/ UNCHANGED vars
    PROVE  DurableInv'
<1>1. /\ BuilderTypes /\ committed \in Nat /\ position \in Nat /\ committed <= position
      /\ committed <= committed /\ horizon \in Nat /\ horizon <= horizon
      /\ builder \in {"save", "commit"} => committed < position
  <2>1. BuilderTypes /\ horizon \in 0..MaxHorizon
    BY Zenon DEF TypeInv
  <2> QED BY <2>1, BoundsAssumption DEF BuilderTypes
<1>2. /\ \A k \in Objects \cup published : Shaped(k)
      /\ \A o \in Nat : o >= horizon /\ o < Bound => \E k \in published : Has(k, o)
      /\ \A k \in Objects : k.level = 0 /\ old[k] => k \in published \/ Backed(k) \/ Dead(k)
      /\ builder = "save" => \E k : k = BuiltKey(FlushRange) /\ (k \in Objects \/ Backed(k))
  BY Zenon DEF DurableInv
<1>3. CASE Append \/ Expiry \/ Poll \/ CommitSync \/ BuilderCrash \/ BuilderRestart \/ UNCHANGED vars
  <2>1. UNCHANGED <<pc, index, added, retired, until, stale, aged, old, published>>
    BY <1>3, Zenon DEF Append, Expiry, Poll, CommitSync, BuilderCrash, BuilderRestart, vars, pass
  <2>2. horizon' = horizon \/ horizon' = horizon + 1
    BY <1>3, Zenon DEF Append, Expiry, Poll, CommitSync, BuilderCrash, BuilderRestart, vars
  <2>3. horizon' \in Nat /\ horizon <= horizon'
    BY <1>1, <2>2
  <2>4. committed' = committed \/ committed' = position
    BY <1>3, Zenon DEF Append, Expiry, Poll, CommitSync, BuilderCrash, BuilderRestart, vars, wal
  <2>5. committed <= committed'
    BY <1>1, <2>4, Zenon
  <2>6. Bound' = Bound \/ Bound' = committed
    BY <1>3, Zenon DEF Append, Expiry, Poll, CommitSync, BuilderCrash, BuilderRestart, vars, wal,
          build, Bound
  <2>7. Bound \in Nat /\ committed <= Bound
    BY <1>1, Zenon DEF Bound
  <2>8. ASSUME NEW o \in Nat, o >= horizon', o < Bound'  PROVE \E k \in published' : Has(k, o)
    <3>1. o >= horizon /\ o < Bound
      BY <1>1, <2>3, <2>6, <2>7, <2>8
    <3> QED BY <1>2, <2>1, <3>1, Zenon
  <2>9. builder' = "save" => builder = "save" /\ UNCHANGED <<committed, position>>
    BY <1>3, Zenon DEF Append, Expiry, Poll, CommitSync, BuilderCrash, BuilderRestart, vars, wal,
          build
  <2>10. Objects' = Objects
    BY <2>1, Zenon DEF Objects
  <2>11. builder' = "save" => \E k : k = BuiltKey(FlushRange)' /\ (k \in Objects' \/ Backed(k))
    <3> SUFFICES ASSUME builder' = "save"
                 PROVE  \E k : k = BuiltKey(FlushRange)' /\ (k \in Objects' \/ Backed(k))
      BY Zenon
    <3>1. FlushRange' = FlushRange
      BY <2>9, Zenon DEF FlushRange
    <3>2. BuiltKey(FlushRange)' = BuiltKey(FlushRange)
      BY <3>1, Zenon DEF BuiltKey
    <3> QED BY <1>2, <2>9, <2>10, <3>2, Zenon
  <2> QED BY <1>2, <2>1, <2>3, <2>5, <2>8, <2>10, <2>11, QuietDurable, Zenon
<1>4. CASE WriteBlock
  <2>1. PICK F : F = BuiltKey(FlushRange)
    BY Zenon
  <2>2. /\ UNCHANGED <<pc, index, added, retired, until, stale, published, horizon, committed, position>>
        /\ Put(F) /\ position > committed /\ builder = "poll" /\ builder' = "save"
    BY <1>4, <2>1, Zenon DEF WriteBlock, wal
  <2>3. committed < position
    BY <1>1, <2>2
  <2>4. Shaped(F)
    BY <1>1, <2>1, <2>3, FlushIs, Zenon
  <2>5. /\ Objects' = Objects \cup {F} /\ aged' = [c \in Compactors |-> aged[c] \ {F}]
        /\ \A k \in Objects' : old'[k] => k \in Objects /\ old[k]
    BY <2>2, Zenon DEF Put, Objects
  <2>6. \A c \in Compactors : aged'[c] \subseteq aged[c]
    BY <2>5, Zenon
  <2>7. FlushRange' = FlushRange /\ Bound' = Bound
    BY <2>2, Zenon DEF FlushRange, Bound
  <2>8. BuiltKey(FlushRange)' = F
    BY <2>1, <2>7, Zenon DEF BuiltKey
  <2>9. \A k \in Objects' : k.level = 0 /\ old'[k] => k \in published \/ Backed(k) \/ Dead(k)
    BY <1>2, <2>5, Zenon
  <2>10. \A o \in Nat : o >= horizon' /\ o < Bound' => \E k \in published' : Has(k, o)
    BY <1>2, <2>2, <2>7, Zenon
  <2>11. \E k : k = BuiltKey(FlushRange)' /\ (k \in Objects' \/ Backed(k))
    BY <2>5, <2>8, Zenon
  <2>12. Objects \subseteq Objects' /\ \A k \in Objects' : k \in Objects \/ Shaped(k)
    BY <2>4, <2>5, Zenon
  <2> QED BY <1>1, <2>2, <2>6, <2>9, <2>10, <2>11, <2>12, QuietDurable, Zenon
<1>5. CASE SaveIndex
  <2>1. PICK F : F = BuiltKey(FlushRange)
    BY Zenon
  <2>2. /\ UNCHANGED <<pc, index, added, retired, until, stale, aged, old, horizon, committed, position>>
        /\ published' = published \cup {F} /\ builder = "save" /\ builder' = "commit"
    BY <1>5, <2>1, Zenon DEF SaveIndex, wal, pass
  <2>3. committed < position
    BY <1>1, <2>2, Zenon
  <2>4. /\ Shaped(F) /\ F.level = 0 /\ ~Dead(F)
        /\ \A o \in Nat : o >= committed /\ o < position => Has(F, o)
    BY <1>1, <2>1, <2>3, FlushIs, Zenon
  <2>5. F \in Objects \/ Backed(F)
    BY <1>2, <2>1, <2>2, Zenon
  <2>6. Objects' = Objects /\ Bound' = position /\ Bound = committed
    BY <2>2, Zenon DEF Objects, Bound
  <2>7. ASSUME NEW o \in Nat, o >= horizon', o < Bound'  PROVE \E k \in published' : Has(k, o)
    <3>1. o >= committed \/ o < committed
      BY <1>1
    <3> QED BY <1>2, <2>2, <2>4, <2>6, <2>7, <3>1, Zenon
  <2>8. builder' # "save"
    BY <2>2, Zenon
  <2>9. \A k \in published' : k \in published \/
              (k.level = 0 /\ Shaped(k) /\ ~Dead(k) /\ (k \in Objects' \/ Backed(k)))
    BY <2>2, <2>4, <2>5, <2>6, Zenon
  <2>10. \A k \in Objects' : k.level = 0 /\ old'[k] => k \in published \/ Backed(k) \/ Dead(k)
    BY <1>2, <2>2, <2>6, Zenon
  <2> QED BY <1>1, <2>2, <2>6, <2>7, <2>8, <2>9, <2>10, QuietDurable, Zenon
<1>6. CASE \E k \in Objects : GrowOld(k)
  <2>1. PICK j \in Objects : GrowOld(j)
    BY <1>6, Zenon
  <2>2. /\ UNCHANGED <<pc, index, added, retired, until, stale, aged, published, horizon>>
        /\ UNCHANGED <<builder, committed, position>>
        /\ old' = [old EXCEPT ![j] = TRUE] /\ ~BeingPublished(j)
    BY <2>1, Zenon DEF GrowOld, wal, build, pass
  <2>3. Objects' = Objects /\ \A k \in Objects : k # j => old'[k] = old[k]
    BY <2>2, Zenon DEF Objects
  <2>4. ASSUME j.level = 0, j \notin published  PROVE Dead(j)
    <3>1. PICK r \in Ranges : j = BuiltKey(r)
      <4>1. j.level # 1
        BY <2>4
      <4> QED BY <1>2, <2>1, <4>1, Zenon DEF Shaped
    <3>2. j.from = {<<r[1], r[2], 0>>}
      BY <3>1, BuiltFacts, Zenon
    <3>3. PICK b : b = <<r[1], r[2], 0>>
      BY Zenon
    <3>4. b[1] = r[1] /\ r[1] \in Nat
      BY <3>3, RangeFacts
    <3>5. ~(b[1] >= committed)
      BY <2>2, <2>4, <3>2, <3>3, Zenon DEF BeingPublished
    <3>6. b[1] \in 0..(committed - 1)
      BY <1>1, <3>4, <3>5
    <3> QED BY <2>4, <3>2, <3>3, <3>6, Zenon DEF Dead
  <2>5. \A k \in Objects' : k.level = 0 /\ old'[k] => k \in published \/ Backed(k) \/ Dead(k)
    BY <1>2, <2>3, <2>4, Zenon
  <2>6. FlushRange' = FlushRange /\ Bound' = Bound
    BY <2>2, Zenon DEF FlushRange, Bound
  <2>7. BuiltKey(FlushRange)' = BuiltKey(FlushRange)
    BY <2>6, Zenon DEF BuiltKey
  <2>8. builder' = "save" => \E k : k = BuiltKey(FlushRange)' /\ (k \in Objects' \/ Backed(k))
    BY <1>2, <2>2, <2>3, <2>7, Zenon
  <2>9. \A o \in Nat : o >= horizon' /\ o < Bound' => \E k \in published' : Has(k, o)
    BY <1>2, <2>2, <2>6, Zenon
  <2> QED BY <1>1, <2>2, <2>3, <2>5, <2>8, <2>9, QuietDurable, Zenon
<1> QED BY <1>3, <1>4, <1>5, <1>6, Zenon DEF BuilderStep

\* A step of a pass that publishes nothing keeps what backs a block.
LEMMA StillBacked ==
    ASSUME Still, published' = published
    PROVE  \A k : (Backed(k)' <=> Backed(k)) /\ (Dead(k)' <=> Dead(k))
BY Zenon DEF Still, Backed, Dead

\* What a step of the only compactor has to respect when it publishes nothing: it
\* deletes only what is not published or is backed, and writes only merged blocks.
LEMMA PassGlobal ==
    ASSUME TypeInv, DurableInv, NEW c \in Compactors, \A d \in Compactors : d = c,
           Still, published' = published,
           \A k \in Objects : k \notin Objects' =>
              IF k.level = 1 THEN k \notin published ELSE Backed(k) \/ Dead(k),
           \A k \in Objects' : k.level = 1 \/ (k \in Objects /\ (old'[k] => old[k])),
           PassDurable(c)'
    PROVE  DurableInv'
<1>1. \A k : (Backed(k)' <=> Backed(k)) /\ (Dead(k)' <=> Dead(k))
  BY StillBacked, Zenon
<1>2. Bound' = Bound /\ FlushRange' = FlushRange /\ UNCHANGED <<builder, horizon, committed>>
  BY Zenon DEF Still, Bound, FlushRange
<1>3. BuiltKey(FlushRange)' = BuiltKey(FlushRange)
  BY <1>2, Zenon DEF BuiltKey
<1>4. \A d \in Compactors : PassDurable(d)'
  BY Zenon
<1>5. \A k \in Objects' \cup published' : Shaped(k)
  BY Zenon DEF DurableInv, Shaped
<1>6. \A k \in published' : k \in Objects' \/ (k.level = 0 /\ Backed(k)')
  <2> SUFFICES ASSUME NEW k \in published, k \notin Objects'  PROVE k.level = 0 /\ Backed(k)
    BY <1>1, Zenon
  <2>1. k.level \in {0, 1} /\ ~Dead(k)
    BY Zenon DEF TypeInv, Formed, Dead
  <2>2. k \in Objects \/ (k.level = 0 /\ Backed(k))
    BY Zenon DEF DurableInv
  <2> QED BY <2>1, <2>2, Zenon
<1>7. builder' = "save" => BuiltKey(FlushRange)' \in Objects' \/ Backed(BuiltKey(FlushRange))'
  <2> SUFFICES ASSUME builder = "save"
               PROVE  BuiltKey(FlushRange)' \in Objects' \/ Backed(BuiltKey(FlushRange))'
    BY <1>2, Zenon
  <2>1. BuilderTypes /\ committed < position
    BY Zenon DEF TypeInv, BuilderTypes
  <2>2. PICK F : F = BuiltKey(FlushRange)
    BY Zenon
  <2>3. F.level = 0 /\ ~Dead(F)
    BY <2>1, <2>2, FlushIs, Zenon
  <2>4. F.level # 1
    BY <2>3
  <2>5. F \in Objects \/ Backed(F)
    BY <2>2, Zenon DEF DurableInv
  <2>6. F \in Objects' \/ Backed(F)'
    BY <1>1, <2>3, <2>4, <2>5, Zenon
  <2> QED BY <1>3, <2>2, <2>6, Zenon DEF Backed
<1>8. \A k \in Objects' : k.level = 0 /\ old'[k] => k \in published' \/ Backed(k)' \/ Dead(k)'
  <2> SUFFICES ASSUME NEW k \in Objects', k.level = 0, old'[k]
               PROVE  k \in published \/ Backed(k) \/ Dead(k)
    BY <1>1, Zenon
  <2>1. k.level # 1
    OBVIOUS
  <2> QED BY <2>1, Zenon DEF DurableInv
<1>9. \A o \in Nat : o >= horizon' /\ o < Bound' => \E k \in published' : Has(k, o)
  BY <1>2, Zenon DEF DurableInv
<1> QED BY <1>4, <1>5, <1>6, <1>7, <1>8, <1>9, Zenon DEF DurableInv

\* The ends of a pass, its beginning, and its deletes.
LEMMA DurableEdges ==
    ASSUME TypeInv, DurableInv, NEW c \in Compactors, \A d \in Compactors : d = c,
           \/ LoadIndex(c) \/ InputMissing(c) \/ RefusePass(c) \/ PassDone(c) \/ PassFails(c)
           \/ DeleteRetired(c) \/ DeletesDone(c) \/ SweepList(c) \/ SweepDelete(c)
    PROVE  DurableInv'
<1>1. Passes /\ PassDurable(c) /\ PassTypes(c) /\ \A k \in Objects \cup published : Formed(k)
  BY Zenon DEF TypeInv, DurableInv
<1>2. CASE InputMissing(c) \/ RefusePass(c) \/ PassDone(c) \/ PassFails(c)
  <2>1. EndPass(c) /\ Still /\ UNCHANGED <<old, published>>
    BY <1>2, Zenon DEF InputMissing, RefusePass, PassDone, PassFails, Still, wal, build
  <2>2. pc'[c] = "idle" /\ Known(c)' = {} /\ Objects' = Objects
    BY <1>1, <2>1, Zenon DEF EndPass, Goto, Known, Passes, Objects
  <2>3. /\ index'[c] = {} /\ added'[c] = {} /\ retired'[c] = {} /\ aged'[c] = {} /\ stale'[c] = {}
    BY <2>2, Zenon DEF Known
  <2>4. PassDurable(c)'
    BY <2>2, <2>3, Zenon DEF PassDurable, Open
  <2> QED BY <2>1, <2>2, <2>4, PassGlobal, Zenon
<1>3. CASE LoadIndex(c)
  <2>1. /\ pc[c] = "idle" /\ pc' = [pc EXCEPT ![c] = "compact"]
        /\ index' = [index EXCEPT ![c] = published]
        /\ aged' = [aged EXCEPT ![c] = {k \in Objects : old[k]}]
        /\ UNCHANGED <<old, published, added, retired, stale>> /\ Still
    BY <1>3, Zenon DEF LoadIndex, Goto, Still, wal, build
  <2>2. added[c] = {} /\ retired[c] = {} /\ stale[c] = {}
    BY <1>1, <2>1, Zenon DEF PassTypes, Known
  <2>3. /\ pc'[c] = "compact" /\ Objects' = Objects /\ index'[c] = published
        /\ aged'[c] = {k \in Objects : old[k]} /\ added'[c] = {} /\ retired'[c] = {} /\ stale'[c] = {}
    BY <1>1, <2>1, <2>2, Zenon DEF Passes, Objects
  <2>4. \A k : (Backed(k)' <=> Backed(k)) /\ (Dead(k)' <=> Dead(k))
    BY <2>1, StillBacked, Zenon
  <2>5. \A k \in aged'[c] : k.level = 0 => Settles(c, k)'
    <3> SUFFICES ASSUME NEW k \in Objects, old[k], k.level = 0  PROVE Settles(c, k)'
      BY <2>3, Zenon
    <3>1. k \in published \/ Backed(k) \/ Dead(k)
      BY Zenon DEF DurableInv
    <3> QED BY <2>3, <2>4, <3>1, Zenon DEF Settles
  <2>6. \A k \in Known(c)' : Shaped(k)
    BY <2>3, Zenon DEF Known, DurableInv
  <2>7. PassDurable(c)'
    BY <2>1, <2>3, <2>5, <2>6, Zenon DEF PassDurable
  <2> QED BY <2>1, <2>3, <2>7, PassGlobal, Zenon
<1>4. ASSUME Still, published' = published, UNCHANGED <<index, added, until, aged>>,
             pc[c] \in {"delete", "sweep", "reclaim"},
             pc'[c] = pc[c] \/ (pc'[c] = "sweep" /\ pc[c] = "delete"),
             retired'[c] \subseteq retired[c], stale'[c] \subseteq stale[c]
      PROVE  PassDurable(c)'
  <2>1. \A k : (Backed(k)' <=> Backed(k)) /\ (Dead(k)' <=> Dead(k))
    BY <1>4, StillBacked, Zenon
  <2>2. ~Open(c) /\ ~Open(c)' /\ pc'[c] \in {"delete", "sweep", "reclaim"} /\ pc[c] # "idle"
    BY <1>4, Zenon DEF Open
  <2>3. \A k \in Known(c)' : Shaped(k)
    BY <1>1, <1>4, Zenon DEF Known, PassDurable
  <2>4. \A k \in published' : k.level = 1 => k \in index'[c]
    BY <1>1, <1>4, <2>2, Zenon DEF PassDurable
  <2>5. index'[c] \cap retired'[c] = {}
    BY <1>1, <1>4, Zenon DEF PassDurable
  <2>6. pc'[c] = "delete" => \A k \in retired'[c] :
            IF k.level = 1 THEN k \notin published' ELSE Backed(k)'
    <3> SUFFICES ASSUME pc'[c] = "delete", NEW k \in retired'[c]
                 PROVE  IF k.level = 1 THEN k \notin published' ELSE Backed(k)'
      BY Zenon
    <3>1. pc[c] = "delete" /\ k \in retired[c]
      BY <1>4, Zenon
    <3>2. IF k.level = 1 THEN k \notin published ELSE Backed(k)
      BY <1>1, <3>1, Zenon DEF PassDurable
    <3> QED BY <1>4, <2>1, <3>2, Zenon
  <2>7. \A k \in aged'[c] : k.level = 0 => Settles(c, k)'
    <3> SUFFICES ASSUME NEW k \in aged[c], k.level = 0  PROVE Settles(c, k)'
      BY <1>4, Zenon
    <3>1. k \in index[c] \/ Backed(k) \/ Dead(k)
      BY <1>1, <2>2, Zenon DEF PassDurable, Settles
    <3> QED BY <1>4, <2>1, <3>1, Zenon DEF Settles
  <2>8. \A k \in stale'[c] : IF k.level = 1 THEN k \notin published' ELSE (Backed(k) \/ Dead(k))'
    <3> SUFFICES ASSUME NEW k \in stale'[c]
                 PROVE  IF k.level = 1 THEN k \notin published' ELSE Backed(k)' \/ Dead(k)'
      BY Zenon
    <3>1. IF k.level = 1 THEN k \notin published ELSE Backed(k) \/ Dead(k)
      BY <1>1, <1>4, Zenon DEF PassDurable
    <3> QED BY <1>4, <2>1, <3>1, Zenon
  <2>9. pc'[c] # "reclaim" => stale'[c] = {}
    <3> SUFFICES ASSUME pc'[c] # "reclaim"  PROVE stale'[c] = {}
      BY Zenon
    <3>1. pc[c] # "reclaim"
      BY <1>4, Zenon
    <3>2. stale[c] = {}
      BY <1>1, <3>1, Zenon DEF PassDurable
    <3> QED BY <1>4, <3>2, Zenon
  <2>10. pc'[c] # "compact"
    BY <2>2, Zenon
  <2> QED BY <2>2, <2>3, <2>4, <2>5, <2>6, <2>7, <2>8, <2>9, <2>10, Zenon DEF PassDurable
<1>5. CASE DeleteRetired(c)
  <2>1. PICK j \in retired[c] : /\ retired' = [retired EXCEPT ![c] = retired[c] \ {j}]
                                /\ Delete(j) \/ old' = old
    BY <1>5, Zenon DEF DeleteRetired
  <2>2. /\ pc[c] = "delete" /\ pc' = pc /\ UNCHANGED <<published, index, added, until, aged, stale>>
        /\ Still
    BY <1>5, Zenon DEF DeleteRetired, Still, wal, build, plan
  <2>3. retired'[c] \subseteq retired[c] /\ stale'[c] \subseteq stale[c]
    BY <1>1, <2>1, <2>2, Zenon DEF Passes
  <2>4. PassDurable(c)'
    BY <1>4, <2>2, <2>3, Zenon
  <2>5. IF j.level = 1 THEN j \notin published ELSE Backed(j)
    BY <1>1, <2>2, Zenon DEF PassDurable
  <2>6. /\ \A k \in Objects : k # j => k \in Objects'
        /\ \A k \in Objects' : k \in Objects /\ old'[k] = old[k]
    <3>1. CASE Delete(j)
      BY <3>1, Zenon DEF Delete, Objects
    <3>2. CASE old' = old
      BY <3>2, Zenon DEF Objects
    <3> QED BY <2>1, <3>1, <3>2, Zenon
  <2>7. \A k \in Objects : k \notin Objects' =>
           IF k.level = 1 THEN k \notin published ELSE Backed(k) \/ Dead(k)
    BY <2>5, <2>6, Zenon
  <2> QED BY <2>2, <2>4, <2>6, <2>7, PassGlobal, Zenon
<1>6. CASE SweepDelete(c)
  <2>1. PICK j \in stale[c] : stale' = [stale EXCEPT ![c] = stale[c] \ {j}] /\ Delete(j)
    BY <1>6, Zenon DEF SweepDelete
  <2>2. /\ pc[c] = "reclaim" /\ pc' = pc /\ UNCHANGED <<published, index, added, until, aged, retired>>
        /\ Still
    BY <1>6, Zenon DEF SweepDelete, Still, wal, build, plan
  <2>3. retired'[c] \subseteq retired[c] /\ stale'[c] \subseteq stale[c]
    BY <1>1, <2>1, <2>2, Zenon DEF Passes
  <2>4. PassDurable(c)'
    BY <1>4, <2>2, <2>3, Zenon
  <2>5. IF j.level = 1 THEN j \notin published ELSE Backed(j) \/ Dead(j)
    BY <1>1, Zenon DEF PassDurable
  <2>6. /\ \A k \in Objects : k # j => k \in Objects'
        /\ \A k \in Objects' : k \in Objects /\ old'[k] = old[k]
    BY <2>1, Zenon DEF Delete, Objects
  <2>7. \A k \in Objects : k \notin Objects' =>
           IF k.level = 1 THEN k \notin published ELSE Backed(k) \/ Dead(k)
    BY <2>5, <2>6, Zenon
  <2> QED BY <2>2, <2>4, <2>6, <2>7, PassGlobal, Zenon
<1>7. CASE DeletesDone(c)
  <2>1. /\ pc[c] = "delete" /\ pc' = [pc EXCEPT ![c] = "sweep"] /\ Still
        /\ UNCHANGED <<old, published, index, added, until, aged, retired, stale>>
    BY <1>7, Zenon DEF DeletesDone, Goto, Still, wal, build, plan
  <2>2. pc'[c] = "sweep" /\ Objects' = Objects
    BY <1>1, <2>1, Zenon DEF Passes, Objects
  <2>3. PassDurable(c)'
    BY <1>4, <2>1, <2>2, Zenon
  <2> QED BY <2>1, <2>2, <2>3, PassGlobal, Zenon
<1>8. CASE SweepList(c)
  <2>1. /\ pc[c] = "sweep" /\ pc' = [pc EXCEPT ![c] = "reclaim"] /\ Still
        /\ stale' = [stale EXCEPT ![c] = {k \in Objects \ index[c] : k \in aged[c]}]
        /\ UNCHANGED <<old, published, index, added, until, aged, retired>>
    BY <1>8, Zenon DEF SweepList, Goto, Still, wal, build, plan
  <2>2. /\ pc'[c] = "reclaim" /\ Objects' = Objects
        /\ stale'[c] = {k \in Objects \ index[c] : k \in aged[c]}
    BY <1>1, <2>1, Zenon DEF Passes, Objects
  <2>3. \A k : (Backed(k)' <=> Backed(k)) /\ (Dead(k)' <=> Dead(k))
    BY <2>1, StillBacked, Zenon
  <2>4. ~Open(c) /\ ~Open(c)' /\ pc[c] # "idle"
    BY <2>1, <2>2, Zenon DEF Open
  <2>5. \A k \in published : k.level = 1 => k \in index[c]
    BY <1>1, <2>4, Zenon DEF PassDurable
  <2>6. \A k \in aged[c] : k.level = 0 => k \in index[c] \/ Backed(k) \/ Dead(k)
    BY <1>1, <2>4, Zenon DEF PassDurable, Settles
  <2>7. \A k \in stale'[c] : IF k.level = 1 THEN k \notin published' ELSE (Backed(k) \/ Dead(k))'
    <3> SUFFICES ASSUME NEW k \in Objects \ index[c], k \in aged[c]
                 PROVE  IF k.level = 1 THEN k \notin published' ELSE Backed(k)' \/ Dead(k)'
      BY <2>2, Zenon
    <3>1. k.level \in {0, 1}
      BY <1>1, Zenon DEF Formed
    <3> QED BY <2>1, <2>3, <2>5, <2>6, <3>1, Zenon
  <2>8. \A k \in Known(c)' : Shaped(k)
    BY <1>1, <2>1, <2>2, Zenon DEF Known, PassDurable
  <2>9. \A k \in aged'[c] : k.level = 0 => Settles(c, k)'
    BY <2>1, <2>3, <2>6, Zenon DEF Settles
  <2>10. index'[c] \cap retired'[c] = {}
    BY <1>1, <2>1, Zenon DEF PassDurable
  <2>11. PassDurable(c)'
    BY <2>1, <2>2, <2>4, <2>5, <2>7, <2>8, <2>9, <2>10, Zenon DEF PassDurable
  <2> QED BY <2>1, <2>2, <2>11, PassGlobal, Zenon
<1> QED BY <1>2, <1>3, <1>5, <1>6, <1>7, <1>8, Zenon

\* A job: the merged block covers the inputs it is to replace.
LEMMA DurableJob ==
    ASSUME TypeInv, DurableInv, NEW c \in Compactors, \A d \in Compactors : d = c, CompactJob(c)
    PROVE  DurableInv'
<1>1. Passes /\ PassDurable(c)
  BY Zenon DEF TypeInv, DurableInv
<1>2. PICK S \in Jobs(c) : \E K \in {CompactedKey(S)} : Put(K)
        /\ index' = [index EXCEPT ![c] = (index[c] \ S) \cup {K}]
        /\ added' = [added EXCEPT ![c] = added[c] \cup {K}]
        /\ retired' = [retired EXCEPT ![c] = retired[c] \cup S]
  BY Zenon DEF CompactJob
<1>3. PICK K : K = CompactedKey(S) /\ Put(K)
        /\ index' = [index EXCEPT ![c] = (index[c] \ S) \cup {K}]
        /\ added' = [added EXCEPT ![c] = added[c] \cup {K}]
        /\ retired' = [retired EXCEPT ![c] = retired[c] \cup S]
  BY <1>2, Zenon
<1>4. UNCHANGED <<published, pc, until, stale>> /\ Still /\ pc[c] = "compact"
  BY Zenon DEF CompactJob, Still, wal, build
<1>5. /\ Objects' = Objects \cup {K} /\ \A k \in Objects : k # K /\ old'[k] => old[k]
      /\ aged'[c] \subseteq aged[c]
  BY <1>3, Zenon DEF Put, Objects
<1>6. /\ index'[c] = (index[c] \ S) \cup {K} /\ added'[c] = added[c] \cup {K}
      /\ retired'[c] = retired[c] \cup S
  BY <1>1, <1>3, Zenon DEF Passes
<1>7. S \subseteq index[c] /\ K.level = 1 /\ 0 # 1 /\ \A k \in S : k.level = 0
  <2>1. 0 # 1
    OBVIOUS
  <2> QED BY <1>3, <2>1, JobInputs, PartsOfMerged, Zenon
<1>8. Open(c) /\ Open(c)' /\ pc'[c] = "compact" /\ stale'[c] = {}
  <2>1. stale[c] = {}
    BY <1>1, <1>4, Zenon DEF PassDurable
  <2> QED BY <1>4, <2>1, Zenon DEF Open
<1>9. /\ \A k \in Known(c) : Shaped(k)
      /\ \A k \in published : k.level = 1 => k \in index[c] \/ k \in retired[c]
      /\ \A k \in added[c] : k.level = 1 /\ k \in Objects /\ k \in index[c]
      /\ index[c] \cap retired[c] = {}
      /\ \A k \in retired[c] : k.level = 0
  BY <1>1, <1>4, <1>8, Zenon DEF PassDurable
<1>10. \A k \in Known(c)' : Shaped(k)
  <2>1. Known(c)' \subseteq Known(c) \cup {K}
    BY <1>4, <1>5, <1>6, <1>7, Zenon DEF Known
  <2> QED BY <1>7, <1>9, <2>1, Zenon DEF Shaped
<1>11. \A k \in published' : k.level = 1 => k \in index'[c] \/ k \in retired'[c]
  BY <1>4, <1>6, <1>7, <1>9, Zenon
<1>12. \A k \in added'[c] : k.level = 1 /\ k \in Objects' /\ k \in index'[c]
  BY <1>5, <1>6, <1>7, <1>9, Zenon
<1>13. index'[c] \cap retired'[c] = {} /\ \A k \in retired'[c] : k.level = 0
  BY <1>6, <1>7, <1>9, Zenon
<1>14. ASSUME NEW k \in retired'[c], NEW o \in Nat, o >= until'[c], Has(k, o)
       PROVE  \E J \in added'[c] : Has(J, o)
  <2>1. CASE k \in retired[c]
    <3>1. \E J \in added[c] : Has(J, o)
      BY <1>1, <1>4, <1>8, <1>14, <2>1, Zenon DEF PassDurable
    <3> QED BY <1>6, <3>1, Zenon
  <2>2. CASE k \in S
    <3>1. Shaped(k) /\ k.level = 0
      BY <1>7, <1>9, <2>2, Zenon DEF Known
    <3>2. Has(K, o)
      BY <1>3, <1>14, <2>2, <3>1, MergedHas, Zenon
    <3> QED BY <1>6, <3>2, Zenon
  <2> QED BY <1>6, <1>14, <2>1, <2>2, Zenon
<1>15. \A k \in aged'[c] : k.level = 0 => Settles(c, k)'
  <2> SUFFICES ASSUME NEW k \in aged'[c], k.level = 0  PROVE Settles(c, k)'
    BY Zenon
  <2>1. k \in index[c] \/ k \in retired[c] \/ Backed(k) \/ Dead(k)
    BY <1>1, <1>5, Zenon DEF PassDurable, Settles
  <2>2. (Backed(k)' <=> Backed(k)) /\ (Dead(k)' <=> Dead(k))
    BY <1>4, StillBacked, Zenon
  <2>3. k \in index'[c] \/ k \in retired'[c] \/ Backed(k)' \/ Dead(k)'
    BY <1>6, <2>1, <2>2, Zenon
  <2> QED BY <1>8, <2>3, Zenon DEF Settles
<1>16. PassDurable(c)'
  BY <1>8, <1>10, <1>11, <1>12, <1>13, <1>14, <1>15, Zenon DEF PassDurable
<1>17. \A k \in Objects' : k.level = 1 \/ (k \in Objects /\ (old'[k] => old[k]))
  BY <1>5, <1>7, Zenon
<1> QED BY <1>4, <1>5, <1>16, <1>17, PassGlobal, Zenon

\* Expiry: what leaves the index holds nothing of the retention window.
LEMMA DurableExpire ==
    ASSUME TypeInv, DurableInv, NEW c \in Compactors, \A d \in Compactors : d = c, Expire(c)
    PROVE  DurableInv'
<1>1. Passes /\ PassDurable(c) /\ PassTypes(c) /\ until[c] \in Nat
  BY Zenon DEF TypeInv, DurableInv, Passes
<1>2. PICK gone : gone = {k \in index[c] : Expired(c, k)}
  BY Zenon
<1>3. PICK l : l = IF retired[c] \cup gone = {} THEN "sweep" ELSE "save"
  BY Zenon
<1>4. /\ pc[c] = "compact"
      /\ index' = [index EXCEPT ![c] = index[c] \ gone]
      /\ added' = [added EXCEPT ![c] = added[c] \ gone]
      /\ retired' = [retired EXCEPT ![c] = retired[c] \cup gone]
      /\ pc' = [pc EXCEPT ![c] = l]
      /\ UNCHANGED <<old, published, until, aged, stale>> /\ Still
  BY <1>2, <1>3, Zenon DEF Expire, Goto, Still, wal, build
<1>5. /\ index'[c] = index[c] \ gone /\ added'[c] = added[c] \ gone
      /\ retired'[c] = retired[c] \cup gone /\ pc'[c] = l /\ Objects' = Objects
  BY <1>1, <1>4, Zenon DEF Passes, Objects
<1>6. /\ pc'[c] \in {"sweep", "save"}
      /\ \A k \in retired'[c] : pc'[c] = "save"
  BY <1>3, <1>5, Zenon
<1>7. Open(c) /\ (pc'[c] = "save" => Open(c)') /\ (Open(c)' => pc'[c] = "save")
  BY <1>4, <1>6, Zenon DEF Open
<1>8. /\ \A k \in Known(c) : Shaped(k)
      /\ \A k \in published : k.level = 1 => k \in index[c] \/ k \in retired[c]
      /\ \A k \in added[c] : k.level = 1 /\ k \in Objects /\ k \in index[c]
      /\ index[c] \cap retired[c] = {} /\ stale[c] = {}
  BY <1>1, <1>4, <1>7, Zenon DEF PassDurable
<1>9. \A k \in Known(c)' : Shaped(k)
  <2>1. Known(c)' \subseteq Known(c)
    BY <1>2, <1>4, <1>5, Zenon DEF Known
  <2> QED BY <1>8, <2>1, Zenon
<1>10. \A k \in published' : k.level = 1 => k \in index'[c] \/ (Open(c)' /\ k \in retired'[c])
  BY <1>4, <1>5, <1>6, <1>7, <1>8, Zenon
<1>11. /\ \A k \in added'[c] : k.level = 1 /\ k \in Objects' /\ k \in index'[c]
       /\ index'[c] \cap retired'[c] = {} /\ stale'[c] = {}
  BY <1>4, <1>5, <1>8, Zenon
<1>12. ASSUME NEW k \in gone, NEW o \in Nat, Has(k, o)  PROVE ~(o >= until[c])
  <2>1. Formed(k) /\ Expired(c, k)
    BY <1>1, <1>2, <1>12, Zenon DEF PassTypes, Known
  <2> QED BY <1>1, <1>12, <2>1, ExpiredHas, Zenon
<1>13. ASSUME NEW k \in retired'[c], NEW o \in Nat, o >= until'[c], Has(k, o)
       PROVE  \E J \in added'[c] : Has(J, o)
  <2>1. k \in retired[c] /\ o >= until[c]
    BY <1>4, <1>5, <1>12, <1>13, Zenon
  <2>2. PICK J \in added[c] : Has(J, o)
    BY <1>1, <1>7, <1>13, <2>1, Zenon DEF PassDurable
  <2>3. J \notin gone
    BY <1>12, <2>1, <2>2, Zenon
  <2> QED BY <1>5, <2>2, <2>3, Zenon
<1>14. \A k \in aged'[c] : k.level = 0 => Settles(c, k)'
  <2> SUFFICES ASSUME NEW k \in aged[c], k.level = 0  PROVE Settles(c, k)'
    BY <1>4, Zenon
  <2>1. k \in index[c] \/ k \in retired[c] \/ Backed(k) \/ Dead(k)
    BY <1>1, Zenon DEF PassDurable, Settles
  <2>2. (Backed(k)' <=> Backed(k)) /\ (Dead(k)' <=> Dead(k))
    BY <1>4, StillBacked, Zenon
  <2>3. k \in index'[c] \/ k \in retired'[c] \/ Backed(k)' \/ Dead(k)'
    BY <1>5, <2>1, <2>2, Zenon
  <2> QED BY <1>6, <1>7, <2>3, Zenon DEF Settles
<1>15. pc'[c] # "compact" /\ pc'[c] # "delete"
  BY <1>6, Zenon
<1>16. PassDurable(c)'
  BY <1>9, <1>10, <1>11, <1>13, <1>14, <1>15, Zenon DEF PassDurable
<1> QED BY <1>4, <1>5, <1>16, PassGlobal, Zenon

\* The save: the merged blocks take over from those they replace.
LEMMA DurablePublish ==
    ASSUME TypeInv, DurableInv, NEW c \in Compactors, \A d \in Compactors : d = c, PublishPass(c)
    PROVE  DurableInv'
<1>1. Passes /\ PassDurable(c) /\ until[c] \in Nat /\ until[c] <= horizon /\ horizon \in Nat
  <2>1. Passes /\ PassDurable(c) /\ until[c] \in Nat /\ until[c] <= horizon /\ horizon \in 0..MaxHorizon
    BY Zenon DEF TypeInv, DurableInv, Passes, PassTypes
  <2>2. horizon \in Nat
    BY <2>1, BoundsAssumption
  <2> QED BY <2>1, <2>2, Zenon
<1>2. /\ pc[c] = "save" /\ published' = (published \ retired[c]) \cup added[c]
      /\ added' = [added EXCEPT ![c] = {}] /\ pc' = [pc EXCEPT ![c] = "delete"]
      /\ UNCHANGED <<old, index, retired, until, aged, stale>> /\ Still
  BY Zenon DEF PublishPass, Goto, Still, wal, build
<1>3. added'[c] = {} /\ pc'[c] = "delete" /\ Objects' = Objects /\ Open(c) /\ ~Open(c)'
  <2>1. added'[c] = {} /\ pc'[c] = "delete" /\ Objects' = Objects
    BY <1>1, <1>2, Zenon DEF Passes, Objects
  <2> QED BY <1>2, <2>1, Zenon DEF Open
<1>4. /\ \A k \in Known(c) : Shaped(k)
      /\ \A k \in published : k.level = 1 => k \in index[c] \/ k \in retired[c]
      /\ \A k \in added[c] : k.level = 1 /\ k \in Objects /\ k \in index[c]
      /\ index[c] \cap retired[c] = {} /\ stale[c] = {}
  BY <1>1, <1>2, <1>3, Zenon DEF PassDurable
<1>5. ASSUME NEW k \in retired[c], NEW o \in Nat, o >= horizon, Has(k, o)
      PROVE  \E K \in published' : K.level = 1 /\ Has(K, o)
  <2>1. o >= until[c]
    BY <1>1, <1>5
  <2>2. \E K \in added[c] : Has(K, o)
    BY <1>1, <1>3, <1>5, <2>1, Zenon DEF PassDurable
  <2> QED BY <1>2, <1>4, <2>2, Zenon
<1>6. /\ Bound' = Bound /\ FlushRange' = FlushRange
      /\ UNCHANGED <<builder, horizon, committed>>
  BY <1>2, Zenon DEF Still, Bound, FlushRange
<1>7. horizon' \in Nat /\ horizon <= horizon'
  BY <1>1, <1>6
<1>8. \A K \in published : \A o \in Nat : K.level = 1 /\ o >= horizon /\ Has(K, o) =>
              \E J \in published' : J.level = 1 /\ Has(J, o)
  BY <1>2, <1>5, Zenon
<1>9. ASSUME NEW k, Backed(k)  PROVE Backed(k)'
  BY <1>1, <1>7, <1>8, <1>9, BackedStays, Zenon
<1>10. ASSUME NEW k \in retired[c]  PROVE Backed(k)'
  BY <1>5, <1>6, <1>10, Zenon DEF Backed
<1>11. ASSUME NEW k, k.level = 0, Dead(k)  PROVE Dead(k)'
  <2>1. k \notin added[c]
    <3>1. k.level # 1
      BY <1>11
    <3> QED BY <1>4, <3>1, Zenon
  <2> QED BY <1>2, <1>6, <1>11, <2>1, Zenon DEF Dead
<1>12. PassDurable(c)'
  <2>1. \A k \in Known(c)' : Shaped(k)
    BY <1>2, <1>3, <1>4, Zenon DEF Known
  <2>2. \A k \in published' : k.level = 1 => k \in index'[c]
    BY <1>2, <1>4, Zenon
  <2>3. index'[c] \cap retired'[c] = {} /\ stale'[c] = {}
    BY <1>2, <1>4, Zenon
  <2>4. \A k \in retired'[c] : IF k.level = 1 THEN k \notin published' ELSE Backed(k)'
    <3>1. \A k \in retired[c] : k \notin published'
      BY <1>2, <1>4, Zenon
    <3> QED BY <1>2, <1>10, <3>1, Zenon
  <2>5. \A k \in aged'[c] : k.level = 0 => Settles(c, k)'
    <3> SUFFICES ASSUME NEW k \in aged[c], k.level = 0  PROVE Settles(c, k)'
      BY <1>2, Zenon
    <3>1. k \in index[c] \/ k \in retired[c] \/ Backed(k) \/ Dead(k)
      BY <1>1, Zenon DEF PassDurable, Settles
    <3>2. k \in index'[c] \/ Backed(k)' \/ Dead(k)'
      BY <1>2, <1>9, <1>10, <1>11, <3>1, Zenon
    <3> QED BY <3>2, Zenon DEF Settles
  <2>6. pc'[c] # "compact"
    BY <1>3, Zenon
  <2> QED BY <1>3, <2>1, <2>2, <2>3, <2>4, <2>5, <2>6, Zenon DEF PassDurable
<1>13. \A d \in Compactors : PassDurable(d)'
  BY <1>12, Zenon
<1>14. \A k \in Objects' \cup published' : Shaped(k)
  BY <1>2, <1>3, <1>4, Zenon DEF DurableInv, Known
<1>15. ASSUME NEW o \in Nat, o >= horizon', o < Bound'  PROVE \E k \in published' : Has(k, o)
  <2>1. o >= horizon /\ o < Bound
    BY <1>6, <1>15, Zenon
  <2>2. PICK k \in published : Has(k, o)
    BY <2>1, Zenon DEF DurableInv
  <2> QED BY <1>2, <1>5, <2>1, <2>2, Zenon
<1>16. \A k \in published' : k \in Objects' \/ (k.level = 0 /\ Backed(k)')
  BY <1>2, <1>3, <1>4, <1>9, Zenon DEF DurableInv
<1>17. builder' = "save" => BuiltKey(FlushRange)' \in Objects' \/ Backed(BuiltKey(FlushRange))'
  <2> SUFFICES ASSUME builder = "save"
               PROVE  BuiltKey(FlushRange)' \in Objects' \/ Backed(BuiltKey(FlushRange))'
    BY <1>6, Zenon
  <2>1. PICK F : F = BuiltKey(FlushRange)
    BY Zenon
  <2>2. F \in Objects \/ Backed(F)
    BY <2>1, Zenon DEF DurableInv
  <2>3. F \in Objects' \/ Backed(F)'
    BY <1>3, <1>9, <2>2, Zenon
  <2>4. BuiltKey(FlushRange)' = F
    BY <1>6, <2>1, Zenon DEF BuiltKey
  <2> QED BY <2>3, <2>4, Zenon DEF Backed
<1>18. \A k \in Objects' : k.level = 0 /\ old'[k] => k \in published' \/ Backed(k)' \/ Dead(k)'
  <2> SUFFICES ASSUME NEW k \in Objects, k.level = 0, old[k]
               PROVE  k \in published' \/ Backed(k)' \/ Dead(k)'
    BY <1>2, <1>3, Zenon
  <2>1. k \in published \/ Backed(k) \/ Dead(k)
    BY Zenon DEF DurableInv
  <2> QED BY <1>2, <1>9, <1>10, <1>11, <2>1, Zenon
<1> QED BY <1>13, <1>14, <1>15, <1>16, <1>17, <1>18, Zenon DEF DurableInv

\* Beside one compactor, a committed record inside the retention window is in a
\* published block whose object exists, through any number of builder crashes,
\* replays, failed passes and failed deletes: the deletes follow the save
\* (run_compactor_once), the sweep spares what is indexed or young
\* (reconcile_orphans), and the builder commits last.
THEOREM CommittedSurvive ==
    ASSUME PromptPublish, \A c, d \in Compactors : c = d
    PROVE  Spec => []CommittedDurable
<1>1. Init => DurableInv
  <2> SUFFICES ASSUME Init  PROVE DurableInv
    BY Zenon
  <2>1. /\ Objects = {} /\ published = {} /\ horizon = 0 /\ Bound = 0 /\ builder # "save"
    BY Zenon DEF Init, Objects, Bound
  <2>2. \A o \in Nat : ~(o < 0)
    OBVIOUS
  <2>3. ASSUME NEW c \in Compactors  PROVE PassDurable(c)
    <3>1. /\ pc[c] = "idle" /\ index[c] = {} /\ added[c] = {} /\ retired[c] = {} /\ aged[c] = {}
          /\ stale[c] = {}
      BY <2>3, Zenon DEF Init
    <3>2. Known(c) = {} /\ ~Open(c)
      BY <3>1, Zenon DEF Known, Open
    <3> QED BY <3>1, <3>2, Zenon DEF PassDurable
  <2> QED BY <2>1, <2>2, <2>3, Zenon DEF DurableInv
<1>2. ASSUME TypeInv, TypeInv', DurableInv, [Next]_vars  PROVE DurableInv'
  <2>1. ASSUME NEW c \in Compactors, PassStep(c) \/ PassFails(c)  PROVE DurableInv'
    <3>1. \A d \in Compactors : d = c
      BY Zenon
    <3> QED BY <1>2, <2>1, <3>1, DurableEdges, DurableJob, DurableExpire, DurablePublish, Zenon
            DEF PassStep
  <2> QED BY <1>2, <2>1, DurableWorld, Zenon DEF Next
<1>3. ASSUME TypeInv, DurableInv  PROVE CommittedDurable
  <2> SUFFICES ASSUME NEW o \in horizon..(committed - 1)
               PROVE  \E k \in published \cap Objects : Has(k, o)
    BY Zenon DEF CommittedDurable
  <2>1. BuilderTypes /\ horizon \in 0..MaxHorizon
    BY <1>3, Zenon DEF TypeInv
  <2>2. o \in Nat /\ o >= horizon /\ o < Bound
    BY <2>1, BoundsAssumption DEF BuilderTypes, Bound
  <2>3. PICK k \in published : Has(k, o)
    BY <1>3, <2>2, Zenon DEF DurableInv
  <2>4. CASE k \in Objects
    BY <2>3, <2>4, Zenon
  <2>5. CASE Backed(k)
    <3>1. PICK K \in published : K.level = 1 /\ Has(K, o)
      BY <2>2, <2>3, <2>5, Zenon DEF Backed
    <3>2. K.level # 0
      BY <3>1
    <3>3. K \in Objects
      BY <1>3, <3>1, <3>2, Zenon DEF DurableInv
    <3> QED BY <3>1, <3>3, Zenon
  <2> QED BY <1>3, <2>3, <2>4, <2>5, Zenon DEF DurableInv
<1> QED BY <1>1, <1>2, <1>3, TypeInvariant, PTL DEF Spec
=============================================================================
