---------------------------- MODULE LogLagProofs ----------------------------
(***************************************************************************)
(* TLAPS proof that the compaction frontier lags behind the committed      *)
(* offsets of the logs compactors only while a put is on its way, or after *)
(* a crash or a stale put, for any constants of LogCompactors.             *)
(***************************************************************************)
EXTENDS LogCompactorsProofs

Labels == {"top", "poll", "write", "frontier", "down"}

GroupTypes ==
    /\ owner \in [Partitions -> Compactors]
    /\ generation \in Nat \ {0}
    /\ joined \in [Compactors -> Nat] /\ \A c \in Compactors : joined[c] <= generation
    /\ pc \in [Compactors -> Labels] /\ lapsed \subseteq Partitions

\* A member of the current generation holds what the broker gave it.
Holds(c) == joined[c] = generation => assigned[c] = {p \in Partitions : owner[p] = c}

\* The batch of a current member has all it polled and has not committed.
InBatch(c) ==
    joined[c] = generation =>
        \A p \in assigned[c] : \A o \in 1..position[c][p] :
            o <= committed[p] \/ \E i \in DOMAIN batch[c] : batch[c][i] = <<p, o>>

\* Some descriptor of c takes the frontier of p to o.
Reaches(c, p, o) ==
    \E i \in DOMAIN descriptors[c] :
        descriptors[c][i].part = p /\ descriptors[c][i].last >= o

\* The chunks of the batch that c has written have their descriptors.
Described(c) ==
    \A i \in DOMAIN batch[c] :
        i < next[c] => batch[c][i] \in Deleted \/ Reaches(c, batch[c][i][1], batch[c][i][2])

Paying(c) == pc[c] = "frontier" \/ (pc[c] = "write" /\ next[c] > Len(batch[c]) + 1)

\* Why the record o of p, once committed, need not be covered by the frontier.
Excused(p, o) ==
    \/ <<p, o>> \in Deleted \/ o <= stored[p] \/ p \in lapsed
    \/ \E c \in Compactors : Paying(c) /\ Reaches(c, p, o)

AllExcused == \A p \in Partitions : \A o \in 1..committed[p] : Excused(p, o)

\* The inductive invariant, over CompactorInv.
LagInv ==
    /\ GroupTypes /\ AllExcused
    /\ \A c \in Compactors : Holds(c) /\ InBatch(c) /\ Described(c)
-----------------------------------------------------------------------------
\* A step of one compactor leaves what is said of another as it was, but for
\* the offsets it commits.
LEMMA OthersAlone ==
    ASSUME Types, NEW c \in Compactors, CompactorStep(c), NEW d \in Compactors, d # c
    PROVE  /\ UNCHANGED <<joined[d], owner, generation, deleting, Deleted>>
           /\ Described(d) => Described(d)'
           /\ Holds(d) => Holds(d)'
           /\ Paying(d) => Paying(d)'
           /\ \A p, o : Reaches(d, p, o) => Reaches(d, p, o)'
<1>1. UNCHANGED <<batch[d], assigned[d], position[d], next[d], descriptors[d],
                  front[d], pc[d]>>
  BY OwnEntries, Zenon
<1>2. UNCHANGED <<joined[d], owner, generation, deleting>>
  <2>1. CASE Poll(c) \/ Restart(c)
    BY <2>1, Zenon DEF Poll, Restart, broker, Types
  <2>2. CASE ~(Poll(c) \/ Restart(c))
    BY <2>2, Zenon DEF CompactorStep, Top, StartCompaction, WriteChunk, ChunkFails, Commit,
                       CommitRefused, PersistFrontier, Crash, broker
  <2> QED BY <2>1, <2>2, Zenon
<1>3. Deleted' = Deleted
  BY <1>2, Zenon DEF Deleted
<1>4. \A p, o : Reaches(d, p, o)' <=> Reaches(d, p, o)
  BY <1>1, Zenon DEF Reaches
<1>5. Described(d) => Described(d)'
  BY <1>1, <1>3, <1>4, Zenon DEF Described
<1>6. Holds(d) => Holds(d)'
  BY <1>1, <1>2, Zenon DEF Holds
<1>7. Paying(d) => Paying(d)'
  BY <1>1, Zenon DEF Paying
<1> QED BY <1>2, <1>3, <1>4, <1>5, <1>6, <1>7, Zenon

\* A current member's batch keeps what it has not committed as long as nobody
\* else commits for it.
LEMMA InBatchStays ==
    ASSUME NEW d, InBatch(d),
           UNCHANGED <<joined[d], generation, assigned[d], position[d], batch[d]>>,
           joined[d] = generation => \A p \in assigned[d] : committed'[p] = committed[p]
    PROVE  InBatch(d)'
BY Zenon DEF InBatch

\* A committed record keeps its excuse through a step of c that commits and
\* puts nothing and, where it ends a batch, counts what c owed as lapsed.
LEMMA ExcusesStay ==
    ASSUME Types, AllExcused, NEW c \in Compactors, CompactorStep(c),
           committed' = committed, stored' = stored, lapsed \subseteq lapsed',
           \A p \in Partitions : \A o : Paying(c) /\ Reaches(c, p, o) => p \in lapsed'
    PROVE  AllExcused'
<1>1. Deleted' = Deleted
  <2>1. deleting' = deleting
    BY Zenon DEF CompactorStep, Top, Poll, StartCompaction, WriteChunk, ChunkFails, Commit,
                 CommitRefused, PersistFrontier, Crash, Restart
  <2> QED BY <2>1, Zenon DEF Deleted
<1>2. ASSUME NEW p \in Partitions, NEW o \in 1..committed[p]  PROVE Excused(p, o)'
  <2>1. Excused(p, o)
    BY Zenon DEF AllExcused
  <2>2. CASE \E d \in Compactors : Paying(d) /\ Reaches(d, p, o)
    <3>1. PICK d \in Compactors : Paying(d) /\ Reaches(d, p, o)
      BY <2>2, Zenon
    <3>2. CASE d = c
      BY <3>1, <3>2, Zenon DEF Excused
    <3>3. CASE d # c
      <4>1. Paying(d)' /\ Reaches(d, p, o)'
        BY <3>1, <3>3, OthersAlone, Zenon
      <4> QED BY <4>1, Zenon DEF Excused
    <3> QED BY <3>2, <3>3, Zenon
  <2>3. CASE <<p, o>> \in Deleted \/ o <= stored[p] \/ p \in lapsed
    BY <1>1, <2>3, Zenon DEF Excused
  <2> QED BY <2>1, <2>2, <2>3, Zenon DEF Excused
<1> QED BY <1>2, Zenon DEF AllExcused

\* The group's variables keep their types, and no member is ahead of the group.
LEMMA GroupTypesStep ==
    ASSUME Types, GroupTypes, [Next]_vars
    PROVE  GroupTypes'
<1> USE DEF Goto
<1>1. /\ owner \in [Partitions -> Compactors] /\ generation \in Nat \ {0}
      /\ joined \in [Compactors -> Nat] /\ \A c \in Compactors : joined[c] <= generation
      /\ pc \in [Compactors -> Labels] /\ lapsed \subseteq Partitions
  BY Zenon DEF GroupTypes
<1>2. ASSUME UNCHANGED <<owner, generation, joined, lapsed>>, pc' \in [Compactors -> Labels]
      PROVE  GroupTypes'
  BY <1>1, <1>2, Zenon DEF GroupTypes
<1>3. {"top", "poll", "write", "frontier", "down"} \subseteq Labels
  BY Zenon DEF Labels
<1>8. \A c \in Compactors, l \in Labels : [pc EXCEPT ![c] = l] \in [Compactors -> Labels]
  BY <1>1, Zenon
<1>9. ASSUME NEW c \in Compactors, NEW i \in DOMAIN descriptors[c]
      PROVE  descriptors[c][i].part \in Partitions
  <2>1. descriptors[c] \in Seq(Descriptors)
    BY Zenon DEF Types
  <2>2. descriptors[c][i] \in Descriptors
    BY <2>1
  <2> QED BY <2>2, Zenon DEF Descriptors
<1>4. ASSUME NEW p \in Partitions, Produce(p)  PROVE GroupTypes'
  BY <1>1, <1>2, <1>4, Zenon DEF Produce, compactor
<1>5. CASE DeleteRequest \/ UNCHANGED vars
  BY <1>1, <1>2, <1>5, Zenon DEF DeleteRequest, compactor, broker, vars
<1>6. CASE Rebalance
  <2>1. /\ owner' \in [Partitions -> Compactors] /\ generation' = generation + 1
        /\ UNCHANGED <<joined, lapsed, pc>>
    BY <1>6, Zenon DEF Rebalance, compactor
  <2>2. generation' \in Nat \ {0} /\ \A n \in Nat : n <= generation => n <= generation'
    BY <1>1, <2>1
  <2>3. \A c \in Compactors : joined'[c] <= generation'
    BY <1>1, <2>1, <2>2, Zenon
  <2> QED BY <1>1, <2>1, <2>2, <2>3, Zenon DEF GroupTypes
<1>7. ASSUME NEW c \in Compactors, CompactorStep(c)  PROVE GroupTypes'
  <2>1. CASE Top(c) \/ StartCompaction(c) \/ ChunkFails(c)
    <3>1. UNCHANGED <<owner, generation, joined, lapsed>>
      BY <2>1, Zenon DEF Top, StartCompaction, ChunkFails, broker
    <3>2. \E l \in Labels : pc' = [pc EXCEPT ![c] = l]
      BY <1>3, <2>1, Zenon DEF Top, StartCompaction, ChunkFails
    <3> QED BY <1>2, <1>8, <3>1, <3>2, Zenon
  <2>2. CASE WriteChunk(c) \/ Commit(c)
    <3>1. UNCHANGED <<owner, generation, joined, lapsed>>
      BY <2>2, Zenon DEF WriteChunk, Commit, broker
    <3>2. pc' = pc \/ \E l \in Labels : pc' = [pc EXCEPT ![c] = l]
      BY <1>3, <2>2, Zenon DEF WriteChunk, Commit
    <3> QED BY <1>1, <1>2, <1>8, <3>1, <3>2, Zenon
  <2>3. CASE CommitRefused(c) \/ Crash(c)
    <3>1. /\ UNCHANGED <<owner, generation, joined>> /\ pc' = [pc EXCEPT ![c] = "down"]
          /\ lapsed' = lapsed \cup Owed(c)
      BY <2>3, Zenon DEF CommitRefused, Crash, broker
    <3>2. Owed(c) \subseteq Partitions
      BY <1>9, Zenon DEF Owed
    <3>3. pc' \in [Compactors -> Labels]
      BY <1>3, <1>8, <3>1, Zenon
    <3> QED BY <1>1, <3>1, <3>2, <3>3, Zenon DEF GroupTypes
  <2>4. CASE PersistFrontier(c)
    <3>1. UNCHANGED <<owner, generation, joined>> /\ lapsed' \subseteq Partitions
      BY <2>4, Zenon DEF PersistFrontier, broker
    <3>2. pc' = pc \/ \E l \in Labels : pc' = [pc EXCEPT ![c] = l]
      BY <1>3, <2>4, Zenon DEF PersistFrontier
    <3>3. pc' \in [Compactors -> Labels]
      BY <1>1, <1>8, <3>2, Zenon
    <3> QED BY <1>1, <3>1, <3>3, Zenon DEF GroupTypes
  <2>5. CASE Poll(c)
    <3>1. UNCHANGED <<owner, generation, pc, lapsed>>
          /\ joined' = [joined EXCEPT ![c] = generation]
      BY <2>5, Zenon DEF Poll, broker
    <3>2. generation \in Nat /\ generation <= generation
      BY <1>1
    <3>3. joined' \in [Compactors -> Nat] /\ \A d \in Compactors : joined'[d] <= generation
      BY <1>1, <3>1, <3>2, Zenon
    <3> QED BY <1>1, <3>1, <3>3, Zenon DEF GroupTypes
  <2>6. CASE Restart(c)
    <3>1. UNCHANGED <<owner, generation, lapsed>> /\ pc' \in [Compactors -> Labels]
          /\ joined' = [joined EXCEPT ![c] = 0]
      BY <1>1, <1>3, <2>6, Zenon DEF Restart, broker
    <3>2. 0 \in Nat /\ 0 <= generation
      BY <1>1
    <3>3. joined' \in [Compactors -> Nat] /\ \A d \in Compactors : joined'[d] <= generation
      BY <1>1, <3>1, <3>2, Zenon
    <3> QED BY <1>1, <3>1, <3>3, Zenon DEF GroupTypes
  <2> QED BY <1>7, <2>1, <2>2, <2>3, <2>4, <2>5, <2>6, Zenon DEF CompactorStep
<1> QED BY <1>4, <1>5, <1>6, <1>7, Zenon DEF Next
-----------------------------------------------------------------------------
\* What the compactor that takes a step keeps.
Own(c) == Holds(c) /\ InBatch(c) /\ Described(c)

\* The steps that leave the batch, the commits and the frontier object alone.
LEMMA QuietLag ==
    ASSUME CompactorInv, LagInv, NEW c \in Compactors,
           Top(c) \/ StartCompaction(c) \/ ChunkFails(c) \/ CommitRefused(c) \/ Crash(c)
    PROVE  Own(c)' /\ AllExcused'
<1>1. Types /\ Own(c) /\ AllExcused /\ CompactorStep(c)
  BY Zenon DEF CompactorInv, LagInv, Own, CompactorStep
<1>2. /\ UNCHANGED <<joined, owner, generation, assigned, position, batch, committed,
                     stored, deleting>>
      /\ lapsed \subseteq lapsed'
  BY Zenon DEF Top, StartCompaction, ChunkFails, CommitRefused, Crash, broker
<1>3. Holds(c)' /\ InBatch(c)'
  BY <1>1, <1>2, Zenon DEF Own, Holds, InBatch
<1>4. Described(c)'
  <2>1. CASE ChunkFails(c)
    <3>1. next'[c] = 1
      BY <1>1, <2>1, Zenon DEF ChunkFails, Types
    <3>2. \A i \in DOMAIN batch[c] : ~(i < 1)
      BY <1>1 DEF Types
    <3> QED BY <1>2, <3>1, <3>2, Zenon DEF Described
  <2>2. CASE ~ChunkFails(c)
    <3>1. UNCHANGED <<next, descriptors>>
      BY <2>2, Zenon DEF Top, StartCompaction, CommitRefused, Crash
    <3> QED BY <1>1, <1>2, <3>1, Zenon DEF Own, Described, Deleted, Reaches
  <2> QED BY <2>1, <2>2, Zenon
<1>5. ASSUME NEW p \in Partitions, NEW o, Paying(c), Reaches(c, p, o)  PROVE p \in lapsed'
  <2>1. CASE Top(c) \/ StartCompaction(c)
    BY <1>5, <2>1, Zenon DEF Top, StartCompaction, Paying
  <2>2. CASE ChunkFails(c)
    <3>1. pc[c] = "write" /\ next[c] <= Len(batch[c]) /\ next[c] \in Nat /\ Len(batch[c]) \in Nat
      BY <1>1, <2>2 DEF ChunkFails, Types
    <3>2. ~(next[c] > Len(batch[c]) + 1)
      BY <3>1
    <3> QED BY <1>5, <3>1, <3>2, Zenon DEF Paying
  <2>3. CASE CommitRefused(c) \/ Crash(c)
    <3>1. p \in Owed(c)
      BY <1>5, Zenon DEF Paying, Reaches, Owed
    <3> QED BY <2>3, <3>1, Zenon DEF CommitRefused, Crash
  <2> QED BY <2>1, <2>2, <2>3, Zenon
<1>6. AllExcused'
  BY <1>1, <1>2, <1>5, ExcusesStay, Zenon
<1> QED BY <1>3, <1>4, <1>6, Zenon DEF Own

\* A compactor that restarts has joined no generation.
LEMMA RestartLag ==
    ASSUME CompactorInv, LagInv, NEW c \in Compactors, Restart(c)
    PROVE  Own(c)' /\ AllExcused'
<1>1. Types /\ AllExcused /\ CompactorStep(c) /\ GroupTypes
  BY Zenon DEF CompactorInv, LagInv, CompactorStep
<1>2. /\ joined'[c] = 0 /\ batch'[c] = <<>> /\ pc[c] = "down"
      /\ UNCHANGED <<generation, committed, stored, lapsed>>
  BY <1>1, Zenon DEF Restart, broker, Types
<1>3. joined'[c] # generation'
  BY <1>1, <1>2, Zenon DEF GroupTypes
<1>4. DOMAIN batch'[c] = {}
  BY <1>2
<1>5. Own(c)'
  BY <1>3, <1>4, Zenon DEF Own, Holds, InBatch, Described
<1>6. ~Paying(c)
  BY <1>2, Zenon DEF Paying
<1> QED BY <1>1, <1>2, <1>5, <1>6, ExcusesStay, Zenon

\* A run of offsets appended to a batch leaves the batch in front of it.
LEMMA AppendedRun ==
    ASSUME NEW old \in Seq(Records), NEW p, NEW from \in Nat, NEW n \in Nat
    PROVE  LET new == old \o [i \in 1..n |-> <<p, from + i>>]
           IN  /\ \A i \in DOMAIN old : i \in DOMAIN new /\ new[i] = old[i]
               /\ \A i \in 1..n : /\ Len(old) + i \in DOMAIN new
                                  /\ new[Len(old) + i] = <<p, from + i>>
<1> DEFINE new == old \o [i \in 1..n |-> <<p, from + i>>]
           l == Len(old)
<1>1. l \in Nat /\ DOMAIN old = 1..l /\ DOMAIN new = 1..(l + n)
  OBVIOUS
<1>2. \A i \in 1..(l + n) : /\ i <= l => new[i] = old[i]
                            /\ i > l => new[i] = <<p, from + (i - l)>>
  OBVIOUS
<1> HIDE DEF new, l
<1>3. \A i \in 1..l : i \in 1..(l + n) /\ i <= l
  BY <1>1
<1>4. \A i \in 1..n : l + i \in 1..(l + n) /\ l + i > l /\ (l + i) - l = i
  BY <1>1
<1>5. \A i \in 1..n : new[l + i] = <<p, from + i>>
  BY <1>2, <1>4, Zenon
<1> QED BY <1>1, <1>2, <1>3, <1>4, <1>5, Zenon DEF new, l

\* A poll puts what it advances over into the batch, or starts again at what is
\* committed.
LEMMA PollLag ==
    ASSUME CompactorInv, LagInv, NEW c \in Compactors, Poll(c)
    PROVE  Own(c)' /\ AllExcused'
<1>1. Types /\ Own(c) /\ AllExcused /\ CompactorStep(c) /\ Compactor(c)
  BY Zenon DEF CompactorInv, LagInv, Own, CompactorStep
<1>2. PICK p \in Partitions, n \in 0..MaxRecords :
        /\ position' = [position EXCEPT ![c] =
               [q \in Partitions |-> Resume(c, q) + (IF q = p THEN n ELSE 0)]]
        /\ batch' = [batch EXCEPT ![c] = Kept(c) \o [i \in 1..n |-> <<p, Resume(c, p) + i>>]]
  BY Zenon DEF Poll
<1>3. /\ assigned'[c] = Mine(c) /\ joined'[c] = generation /\ pc[c] = "poll"
      /\ UNCHANGED <<committed, stored, lapsed, generation, owner, next, deleting, descriptors>>
  BY <1>1, Zenon DEF Poll, broker, Types
<1>4. Holds(c)'
  BY <1>1, <1>3, Zenon DEF Own, Holds, Mine, Rejoins
<1>5. Described(c)'
  <2>1. next'[c] = 1
    BY <1>1, <1>3, Zenon DEF Compactor
  <2>2. batch'[c] \in Seq(Records)
    BY SafeGrows, PollStep, Zenon DEF Next, CompactorStep
  <2>3. \A i \in DOMAIN batch'[c] : ~(i < 1)
    BY <2>2
  <2> QED BY <2>1, <2>3, Zenon DEF Described
<1>6. ~Paying(c)
  BY <1>3, Zenon DEF Paying
<1>7. InBatch(c)'
  <2> DEFINE run == [i \in 1..n |-> <<p, Resume(c, p) + i>>]
  <2> SUFFICES ASSUME NEW q \in assigned'[c], NEW o \in 1..position'[c][q]
               PROVE  o <= committed[q] \/ \E i \in DOMAIN batch'[c] : batch'[c][i] = <<q, o>>
    BY <1>3, Zenon DEF InBatch
  <2>1. /\ Kept(c) \in Seq(Records) /\ Mine(c) \subseteq Partitions /\ n \in Nat
        /\ \A r \in Partitions : Resume(c, r) \in Nat
    <3>1. /\ batch[c] \in Seq(Records) /\ assigned[c] \subseteq Partitions
          /\ position[c] \in Frontiers /\ committed \in Frontiers
      BY <1>1, Zenon DEF Types
    <3>2. <<>> \in Seq(Records) /\ n \in Nat /\ 0..MaxRecords \subseteq Nat
      BY BoundsAssumption
    <3> QED BY <3>1, <3>2, Zenon DEF Kept, Mine, Resume, Frontiers
  <2>2. q \in Partitions /\ q \in Mine(c)
    BY <1>3, <2>1, Zenon
  <2>3. position'[c][q] = Resume(c, q) + (IF q = p THEN n ELSE 0)
    BY <1>1, <1>2, <2>2, Zenon DEF Types
  <2>4. batch'[c] = Kept(c) \o run
    BY <1>1, <1>2, Zenon DEF Types
  <2>5. Len(Kept(c)) \in Nat /\ Resume(c, q) \in Nat /\ o \in Nat /\ 1 <= o
    BY <2>1, <2>2
  <2>6. /\ \A i \in DOMAIN Kept(c) : i \in DOMAIN (Kept(c) \o run) /\ (Kept(c) \o run)[i] = Kept(c)[i]
        /\ \A i \in 1..n : /\ Len(Kept(c)) + i \in DOMAIN (Kept(c) \o run)
                           /\ (Kept(c) \o run)[Len(Kept(c)) + i] = <<p, Resume(c, p) + i>>
    <3>1. Resume(c, p) \in Nat /\ n \in Nat /\ Kept(c) \in Seq(Records)
      BY <2>1, Zenon
    <3> HIDE DEF Kept, Resume
    <3> QED BY <3>1, AppendedRun, SMT
  <2> HIDE DEF run
  <2>7. CASE o <= Resume(c, q)
    <3>1. CASE Rejoins(c)
      BY <2>7, <3>1, Zenon DEF Resume
    <3>2. CASE ~Rejoins(c)
      <4>1. /\ joined[c] = generation /\ Resume(c, q) = position[c][q] /\ q \in assigned[c]
            /\ Kept(c) = batch[c]
        BY <2>2, <3>2, Zenon DEF Rejoins, Resume, Mine, Kept
      <4>2. o \in 1..position[c][q]
        BY <2>5, <2>7, <4>1
      <4>3. o <= committed[q] \/ \E i \in DOMAIN batch[c] : batch[c][i] = <<q, o>>
        BY <1>1, <4>1, <4>2, Zenon DEF Own, InBatch
      <4> QED BY <2>4, <2>6, <4>1, <4>3, Zenon
    <3> QED BY <3>1, <3>2, Zenon
  <2>8. CASE ~(o <= Resume(c, q))
    <3>1. q = p
      BY <2>3, <2>5, <2>8
    <3>2. o - Resume(c, q) \in 1..n /\ Resume(c, q) + (o - Resume(c, q)) = o
      BY <2>1, <2>3, <2>5, <2>8, <3>1
    <3> QED BY <2>4, <2>6, <3>1, <3>2, Zenon
  <2> QED BY <2>7, <2>8, Zenon
<1> QED BY <1>1, <1>3, <1>4, <1>5, <1>6, <1>7, ExcusesStay, Zenon DEF Own

\* A written chunk has its descriptor, or a delete request names all of it.
LEMMA WriteLag ==
    ASSUME CompactorInv, LagInv, NEW c \in Compactors, WriteChunk(c)
    PROVE  Own(c)' /\ AllExcused'
<1> DEFINE b == batch[c]
           k == next[c]
           e == ChunkEnd(b, k)
           block == Block(b, k)
           span == {block.part} \X (block.first..block.last)
           old == descriptors[c]
           new == descriptors'[c]
<1>1. Types /\ Own(c) /\ AllExcused /\ CompactorStep(c) /\ Compactor(c)
  BY Zenon DEF CompactorInv, LagInv, Own, CompactorStep
<1>2. /\ UNCHANGED <<joined, owner, generation, assigned, position, batch, committed,
                     stored, deleting, lapsed>>
      /\ pc[c] = "write" /\ k <= Len(b) /\ next'[c] = e + 1
  BY <1>1, Zenon DEF WriteChunk, broker, Types
<1>3. Holds(c)' /\ InBatch(c)'
  BY <1>1, <1>2, Zenon DEF Own, Holds, InBatch
<1>4. /\ b \in Seq(Records) /\ InOrder(b) /\ k \in Nat \ {0} /\ old \in Seq(Descriptors)
  BY <1>1, Zenon DEF Types, Compactor
<1>5. k \in DOMAIN b /\ Len(b) \in Nat
  BY <1>2, <1>4
<1>6. /\ block.rows = span \ Deleted /\ block \in Blocks
      /\ \A i \in k..e : b[i] \in span
  BY <1>4, <1>5, BlockSpans, Zenon
<1>7. e \in k..Len(b)
  BY <1>4, <1>5, ChunkEnds, Zenon
<1>8. \/ block.rows = {} /\ new = old
      \/ new = Append(old, [part |-> block.part, last |-> block.last])
  BY <1>1, Zenon DEF WriteChunk, Types
<1>9. Deleted' = Deleted
  BY <1>2, Zenon DEF Deleted
<1> HIDE DEF b, k, e, block, new, old
<1>10. \A p, o : Reaches(c, p, o) => Reaches(c, p, o)'
  <2>1. \A i \in DOMAIN old : i \in DOMAIN new /\ new[i] = old[i]
    BY <1>4, <1>8
  <2> QED BY <2>1, Zenon DEF Reaches, old, new
<1>11. ASSUME NEW i \in k..e, NEW p, NEW o, b[i] = <<p, o>>, <<p, o>> \notin Deleted
       PROVE  Reaches(c, p, o)'
  <2>1. <<p, o>> \in span /\ block.rows # {}
    BY <1>6, <1>11, Zenon
  <2>2. p = block.part /\ o \in block.first..block.last
    BY <2>1, Zenon
  <2>3. new = Append(old, [part |-> block.part, last |-> block.last])
    BY <1>8, <2>1, Zenon
  <2>4. /\ Len(old) + 1 \in DOMAIN new
        /\ new[Len(old) + 1] = [part |-> block.part, last |-> block.last]
    BY <1>4, <2>3
  <2>5. block.first \in Int /\ block.last \in Int
    BY <1>6 DEF Blocks, Offsets
  <2>6. block.last >= o
    BY <2>2, <2>5
  <2>7. new[Len(old) + 1].part = block.part /\ new[Len(old) + 1].last = block.last
    BY <2>4
  <2> QED BY <2>2, <2>4, <2>6, <2>7, Zenon DEF Reaches, new
<1>12. Described(c)'
  <2>1. ASSUME NEW i \in DOMAIN b, i < e + 1
        PROVE  b[i] \in Deleted \/ \E p, o : /\ p = b[i][1] /\ o = b[i][2]
                                             /\ Reaches(c, p, o)'
    <3>1. PICK p \in Partitions, o \in Offsets : b[i] = <<p, o>>
      BY <1>4 DEF Records
    <3>2. p = b[i][1] /\ o = b[i][2]
      BY <3>1
    <3>3. CASE i < k
      <4>1. b[i] \in Deleted \/ Reaches(c, b[i][1], b[i][2])
        BY <1>1, <3>3, Zenon DEF Own, Described, b, k
      <4>2. b[i] \in Deleted \/ Reaches(c, p, o)
        BY <3>2, <4>1, Zenon
      <4> QED BY <1>10, <3>2, <4>2, Zenon
    <3>4. CASE ~(i < k)
      <4>1. i \in k..e
        BY <1>4, <1>5, <1>7, <2>1, <3>4
      <4> QED BY <1>11, <3>1, <3>2, <4>1, Zenon
    <3> QED BY <3>3, <3>4, Zenon
  <2>2. batch'[c] = b /\ next'[c] = e + 1
    BY <1>2, Zenon DEF b
  <2> QED BY <1>9, <2>1, <2>2, Zenon DEF Described
<1>13. ~Paying(c)
  <2>1. ~(k > Len(b) + 1)
    BY <1>2, <1>4, <1>5
  <2> QED BY <1>2, <2>1, Zenon DEF Paying, k, b
<1>14. AllExcused'
  BY <1>1, <1>2, <1>13, ExcusesStay, Zenon
<1> QED BY <1>3, <1>12, <1>14, Zenon DEF Own

\* A commit takes over what the batch has: every record it adds is deleted or
\* has a descriptor of c, which from now on owes the frontier.
LEMMA CommitLag ==
    ASSUME CompactorInv, LagInv, NEW c \in Compactors, Commit(c)
    PROVE  Own(c)' /\ AllExcused'
<1>1. Types /\ Own(c) /\ AllExcused /\ CompactorStep(c)
  BY Zenon DEF CompactorInv, LagInv, Own, CompactorStep
<1>2. /\ UNCHANGED <<joined, owner, generation, assigned, position, stored, deleting,
                     descriptors, lapsed>>
      /\ pc[c] = "write" /\ next[c] > Len(batch[c]) /\ joined[c] = generation
      /\ committed' = Committed(c)
      /\ \/ pc' = pc /\ next'[c] = next[c] + 1 /\ batch' = batch
         \/ /\ batch'[c] = <<>>
            /\ pc'[c] = "frontier" \/ descriptors[c] = <<>>
  BY <1>1, Zenon DEF Commit, Goto, Types
<1>3. /\ next[c] \in Nat /\ Len(batch[c]) \in Nat /\ batch[c] \in Seq(Records)
      /\ assigned[c] \subseteq Partitions
      /\ DOMAIN batch[c] = 1..Len(batch[c])
  BY <1>1 DEF Types
<1>4. \A p \in assigned[c] : committed'[p] = position[c][p]
  BY <1>2, <1>3, Zenon DEF Committed
<1>5. InBatch(c)'
  <2>1. position[c] \in [Partitions -> 0..MaxRecords]
    BY <1>1, Zenon DEF Types, Frontiers
  <2>2. \A p \in assigned[c] : \A o \in 1..position[c][p] : o <= position[c][p]
    BY <1>3, <2>1
  <2> QED BY <1>2, <1>4, <2>2, Zenon DEF InBatch
<1>6. Deleted' = Deleted /\ \A p, o : Reaches(c, p, o)' <=> Reaches(c, p, o)
  BY <1>2, Zenon DEF Deleted, Reaches
<1>7. \A i \in DOMAIN batch[c] : i < next[c]
  BY <1>2, <1>3
<1>8. Described(c)'
  <2>1. CASE batch'[c] = <<>>
    <3>1. DOMAIN batch'[c] = {}
      BY <2>1
    <3> QED BY <3>1, Zenon DEF Described
  <2>2. CASE batch' = batch
    BY <1>1, <1>6, <1>7, <2>2, Zenon DEF Own, Described
  <2> QED BY <1>2, <2>1, <2>2, Zenon
<1>9. ASSUME NEW p, NEW o, Reaches(c, p, o)  PROVE Paying(c)' /\ Reaches(c, p, o)'
  <2>1. descriptors[c] # <<>>
    BY <1>9 DEF Reaches
  <2>2. CASE pc' = pc /\ next'[c] = next[c] + 1 /\ batch' = batch
    <3>1. next[c] + 1 > Len(batch[c]) + 1
      BY <1>2, <1>3
    <3> QED BY <1>2, <1>6, <1>9, <2>2, <3>1, Zenon DEF Paying
  <2>3. CASE pc'[c] = "frontier"
    BY <1>6, <1>9, <2>3, Zenon DEF Paying
  <2> QED BY <1>2, <2>1, <2>2, <2>3, Zenon
<1>10. ASSUME NEW p \in Partitions, NEW o \in 1..committed'[p]  PROVE Excused(p, o)'
  <2>1. CASE Excused(p, o)
    <3>1. CASE \E d \in Compactors : Paying(d) /\ Reaches(d, p, o)
      <4>1. PICK d \in Compactors : Paying(d) /\ Reaches(d, p, o)
        BY <3>1, Zenon
      <4>2. Paying(d)' /\ Reaches(d, p, o)'
        BY <1>1, <1>9, <4>1, OthersAlone, Zenon
      <4> QED BY <4>2, Zenon DEF Excused
    <3>2. CASE <<p, o>> \in Deleted \/ o <= stored[p] \/ p \in lapsed
      BY <1>2, <1>6, <3>2, Zenon DEF Excused
    <3> QED BY <2>1, <3>1, <3>2, Zenon DEF Excused
  <2>2. CASE ~Excused(p, o)
    <3>1. o \notin 1..committed[p]
      BY <1>1, <2>2, Zenon DEF AllExcused
    <3>2. p \in assigned[c] /\ o \in 1..position[c][p]
      BY <1>2, <1>4, <3>1, Zenon DEF Committed
    <3>3. committed[p] \in Int /\ position[c][p] \in Int
      BY <1>1 DEF Types, Frontiers
    <3>4. ~(o <= committed[p])
      BY <3>1, <3>2, <3>3
    <3>5. PICK i \in DOMAIN batch[c] : batch[c][i] = <<p, o>>
      BY <1>1, <1>2, <3>2, <3>4, Zenon DEF Own, InBatch
    <3>6. batch[c][i][1] = p /\ batch[c][i][2] = o
      BY <3>5
    <3>7. <<p, o>> \in Deleted \/ Reaches(c, p, o)
      BY <1>1, <1>7, <3>5, <3>6, Zenon DEF Own, Described
    <3> QED BY <1>6, <1>9, <3>7, Zenon DEF Excused
  <2> QED BY <2>1, <2>2, Zenon
<1>11. Holds(c)'
  BY <1>1, <1>2, Zenon DEF Own, Holds
<1> QED BY <1>5, <1>8, <1>10, <1>11, Zenon DEF Own, AllExcused

\* A put covers its descriptor, and what it takes back counts as lapsed.
LEMMA PersistLag ==
    ASSUME CompactorInv, LagInv, CompactorInv', NEW c \in Compactors, PersistFrontier(c)
    PROVE  Own(c)' /\ AllExcused'
<1> DEFINE d == Head(descriptors[c])
           now == Advance(front[c], d)
<1>1. Types /\ Own(c) /\ AllExcused /\ CompactorStep(c) /\ Compactor(c) /\ stored' \in Frontiers
  BY Zenon DEF CompactorInv, LagInv, Own, CompactorStep, Types
<1>2. /\ UNCHANGED <<joined, owner, generation, assigned, position, batch, next, committed,
                     deleting>>
      /\ pc[c] = "frontier"
      /\ lapsed' = {p \in Partitions : /\ p \in lapsed \/ stored'[p] < stored[p]
                                       /\ stored'[p] < committed[p]}
  BY Zenon DEF PersistFrontier, broker
<1>3. \/ UNCHANGED <<descriptors, pc>>
      \/ /\ stored' = now /\ descriptors'[c] = Tail(descriptors[c])
         /\ descriptors'[c] # <<>> => pc'[c] = "frontier"
  BY <1>1, Zenon DEF PersistFrontier, Persisted, Goto, Types
<1>4. Holds(c)' /\ InBatch(c)'
  BY <1>1, <1>2, Zenon DEF Own, Holds, InBatch
<1>5. Described(c)'
  <2>1. next'[c] = 1
    BY <1>1, <1>2, Zenon DEF Compactor
  <2>2. \A i \in DOMAIN batch[c] : ~(i < 1)
    BY <1>1 DEF Types
  <2> QED BY <1>2, <2>1, <2>2, Zenon DEF Described
<1>6. Deleted' = Deleted
  BY <1>2, Zenon DEF Deleted
<1>7. /\ descriptors[c] \in Seq(Descriptors) /\ descriptors[c] # <<>>
      /\ front[c] \in Frontiers
  BY <1>1, <1>2, Zenon DEF Types, Compactor, Claims
<1>8. ASSUME NEW p \in Partitions, NEW o \in Nat, Reaches(c, p, o)
      PROVE  o <= stored'[p] \/ (Paying(c)' /\ Reaches(c, p, o)')
  <2>1. CASE UNCHANGED <<descriptors, pc>>
    BY <1>2, <1>8, <2>1, Zenon DEF Paying, Reaches
  <2>2. CASE /\ stored' = now /\ descriptors'[c] = Tail(descriptors[c])
             /\ descriptors'[c] # <<>> => pc'[c] = "frontier"
    <3>1. PICK i \in DOMAIN descriptors[c] :
            descriptors[c][i].part = p /\ descriptors[c][i].last >= o
      BY <1>8, Zenon DEF Reaches
    <3>2. CASE i = 1
      <4>1. d = descriptors[c][1] /\ d \in Descriptors
        BY <1>7
      <4>2. d.part = p /\ d.last >= o
        BY <3>1, <3>2, <4>1, Zenon
      <4>3. d.last \in Nat /\ front[c] \in [Partitions -> 0..MaxRecords]
        BY <1>7, <4>1 DEF Descriptors, Offsets, Frontiers
      <4> HIDE DEF d
      <4>4. now[p] = IF d.last > front[c][p] THEN d.last ELSE front[c][p]
        BY <4>2, <4>3, Zenon DEF Advance
      <4>5. front[c][p] \in Nat
        BY <4>3, BoundsAssumption
      <4> HIDE DEF now
      <4>6. o <= now[p]
        BY <4>2, <4>3, <4>4, <4>5
      <4> QED BY <2>2, <4>6, Zenon
    <3>3. CASE i # 1
      <4>1. /\ i - 1 \in DOMAIN Tail(descriptors[c])
            /\ Tail(descriptors[c])[i - 1] = descriptors[c][i]
        BY <1>7, <3>3
      <4>2. Tail(descriptors[c]) # <<>>
        BY <4>1
      <4>3. Reaches(c, p, o)'
        BY <2>2, <3>1, <4>1, Zenon DEF Reaches
      <4> QED BY <2>2, <4>2, <4>3, Zenon DEF Paying
    <3> QED BY <3>2, <3>3, Zenon
  <2> QED BY <1>3, <2>1, <2>2, Zenon
<1>9. ASSUME NEW p \in Partitions, NEW o \in 1..committed[p]  PROVE Excused(p, o)'
  <2>1. Excused(p, o)
    BY <1>1, Zenon DEF AllExcused
  <2>2. /\ committed[p] \in 0..MaxRecords /\ stored[p] \in 0..MaxRecords
        /\ stored'[p] \in 0..MaxRecords
    BY <1>1, Zenon DEF Types, Frontiers
  <2>3. o \in Nat /\ o <= committed[p]
    BY <2>2, BoundsAssumption
  <2>4. CASE o <= stored[p] \/ p \in lapsed
    <3>1. CASE o <= stored'[p]
      BY <3>1, Zenon DEF Excused
    <3>2. CASE ~(o <= stored'[p])
      <4>1. stored'[p] < committed[p] /\ (o <= stored[p] => stored'[p] < stored[p])
        BY <2>2, <2>3, <3>2, BoundsAssumption
      <4>2. p \in lapsed'
        BY <1>2, <2>4, <4>1, Zenon
      <4> QED BY <4>2, Zenon DEF Excused
    <3> QED BY <3>1, <3>2, Zenon
  <2>5. CASE \E x \in Compactors : Paying(x) /\ Reaches(x, p, o)
    <3>1. PICK x \in Compactors : Paying(x) /\ Reaches(x, p, o)
      BY <2>5, Zenon
    <3>2. CASE x = c
      BY <1>8, <2>3, <3>1, <3>2, Zenon DEF Excused
    <3>3. CASE x # c
      <4>1. Paying(x)' /\ Reaches(x, p, o)'
        BY <1>1, <3>1, <3>3, OthersAlone, Zenon
      <4> QED BY <4>1, Zenon DEF Excused
    <3> QED BY <3>2, <3>3, Zenon
  <2>6. CASE <<p, o>> \in Deleted
    BY <1>6, <2>6, Zenon DEF Excused
  <2> QED BY <2>1, <2>4, <2>5, <2>6, Zenon DEF Excused
<1>10. AllExcused'
  BY <1>2, <1>9, Zenon DEF AllExcused
<1> QED BY <1>4, <1>5, <1>10, Zenon DEF Own
-----------------------------------------------------------------------------
\* Initially nothing is committed.
LEMMA LagInit == Init => LagInv
<1> SUFFICES ASSUME Init  PROVE LagInv
  BY Zenon
<1>1. GroupTypes
  <2>1. 1 \in Nat \ {0} /\ 1 <= 1
    OBVIOUS
  <2> QED BY <2>1, Zenon DEF Init, GroupTypes, Labels
<1>2. \A p \in Partitions : 1..committed[p] = {}
  BY DEF Init, None
<1>3. \A c \in Compactors : /\ DOMAIN batch[c] = {} /\ assigned[c] \subseteq Partitions
                            /\ \A p \in Partitions : 1..position[c][p] = {}
  BY DEF Init, None
<1>4. \A c \in Compactors : Holds(c) /\ InBatch(c) /\ Described(c)
  <2>1. \A c \in Compactors : Holds(c)
    BY Zenon DEF Init, Holds
  <2> QED BY <1>3, <2>1, Zenon DEF InBatch, Described
<1> QED BY <1>1, <1>2, <1>4, Zenon DEF LagInv, AllExcused

\* Every step keeps LagInv.
LEMMA LagStep == CompactorInv /\ CompactorInv' /\ LagInv /\ [Next]_vars => LagInv'
<1> SUFFICES ASSUME CompactorInv, CompactorInv', LagInv, [Next]_vars  PROVE LagInv'
  BY Zenon
<1>1. Types /\ GroupTypes /\ GroupTypes' /\ AllExcused
      /\ \A c \in Compactors : Holds(c) /\ InBatch(c) /\ Described(c)
  BY GroupTypesStep, Zenon DEF CompactorInv, LagInv
<1>2. ASSUME NEW c \in Compactors, CompactorStep(c)  PROVE LagInv'
  <2>1. Own(c)' /\ AllExcused'
    BY <1>2, QuietLag, RestartLag, PollLag, WriteLag, CommitLag, PersistLag, Zenon
       DEF CompactorStep
  <2>2. ASSUME NEW x \in Compactors, x # c  PROVE Holds(x)' /\ InBatch(x)' /\ Described(x)'
    <3>1. Holds(x)' /\ Described(x)' /\ UNCHANGED <<joined[x], owner, generation>>
      BY <1>1, <1>2, <2>2, OthersAlone, Zenon
    <3>2. UNCHANGED <<assigned[x], position[x], batch[x]>>
      BY <1>1, <1>2, <2>2, OwnEntries, Zenon
    <3>3. joined[x] = generation => \A p \in assigned[x] : committed'[p] = committed[p]
      <4>1. CASE Commit(c)
        <5>1. /\ committed' = Committed(c) /\ joined[c] = generation
          BY <4>1, Zenon DEF Commit
        <5>2. joined[x] = generation =>
                \A p \in assigned[x] : p \in Partitions /\ p \notin assigned[c]
          <6>1. assigned[c] = {p \in Partitions : owner[p] = c}
            BY <1>1, <5>1, Zenon DEF Holds
          <6>2. joined[x] = generation => assigned[x] = {p \in Partitions : owner[p] = x}
            BY <1>1, Zenon DEF Holds
          <6> QED BY <2>2, <6>1, <6>2, Zenon
        <5> QED BY <5>1, <5>2, Zenon DEF Committed
      <4>2. CASE ~Commit(c)
        <5>1. committed' = committed
          BY <1>2, <4>2, Zenon DEF CompactorStep, Top, Poll, StartCompaction, WriteChunk,
                ChunkFails, CommitRefused, PersistFrontier, Crash, Restart, broker
        <5> QED BY <5>1, Zenon
      <4> QED BY <4>1, <4>2, Zenon
    <3>4. InBatch(x)'
      BY <1>1, <3>1, <3>2, <3>3, InBatchStays, Zenon
    <3> QED BY <3>1, <3>4, Zenon
  <2> QED BY <1>1, <2>1, <2>2, Zenon DEF LagInv, Own
<1>3. ASSUME UNCHANGED <<committed, stored, pc, joined, assigned, position, batch, next,
                         descriptors, lapsed>>,
             Deleted \subseteq Deleted',
             UNCHANGED <<owner, generation>> \/ \A c \in Compactors : joined[c] # generation'
      PROVE  LagInv'
  <2>1. \A c \in Compactors : Holds(c)' /\ InBatch(c)'
    BY <1>1, <1>3, Zenon DEF Holds, InBatch
  <2>2. \A c, p, o : Reaches(c, p, o)' <=> Reaches(c, p, o)
    BY <1>3, Zenon DEF Reaches
  <2>3. \A c \in Compactors : Described(c)'
    BY <1>1, <1>3, <2>2, Zenon DEF Described
  <2>4. \A c : Paying(c)' <=> Paying(c)
    BY <1>3, Zenon DEF Paying
  <2>5. \A p \in Partitions : \A o : Excused(p, o) => Excused(p, o)'
    BY <1>3, <2>2, <2>4, Zenon DEF Excused
  <2>6. AllExcused'
    BY <1>1, <1>3, <2>5, Zenon DEF AllExcused
  <2> QED BY <1>1, <2>1, <2>3, <2>6, Zenon DEF LagInv
<1>4. CASE (\E p \in Partitions : Produce(p)) \/ DeleteRequest \/ UNCHANGED vars
  <2>1. Deleted \subseteq Deleted'
    <3>1. deleting' = deleting \/ ~deleting
      BY <1>4, Zenon DEF Produce, DeleteRequest, vars
    <3>2. CASE deleting' = deleting
      BY <3>2, Zenon DEF Deleted
    <3>3. CASE ~deleting
      BY <3>3, Zenon DEF Deleted
    <3> QED BY <3>1, <3>2, <3>3, Zenon
  <2> QED BY <1>3, <1>4, <2>1, Zenon DEF Produce, DeleteRequest, vars, compactor, broker
<1>5. CASE Rebalance
  <2>1. generation' = generation + 1
    BY <1>5, Zenon DEF Rebalance
  <2>2. generation \in Nat /\ joined \in [Compactors -> Nat]
        /\ \A c \in Compactors : joined[c] <= generation
    BY <1>1, Zenon DEF GroupTypes
  <2>3. \A c \in Compactors : joined[c] # generation'
    BY <2>1, <2>2
  <2> QED BY <1>3, <1>5, <2>3, Zenon DEF Rebalance, Deleted, compactor
<1> QED BY <1>2, <1>4, <1>5, Zenon DEF Next

\* LagInv holds in every reachable state.
THEOREM LagInvariant == Spec => [](CompactorInv /\ LagInv)
BY InvInit, InvStep, LagInit, LagStep, PTL DEF Spec

\* A record served both from a block and from the WAL tail is there only while a
\* live compactor has to put the frontier for it
\* (advance_and_persist_compaction_frontier), or after a crash before that put or
\* the put of a stale frontier.
THEOREM LagExplained == Spec => []LagIsExplained
<1>1. CompactorInv /\ LagInv => LagIsExplained
  <2> SUFFICES ASSUME CompactorInv, LagInv, NEW s \in RowsOf(index) \ Deleted,
                      ~(s[2] > committed[s[1]])
               PROVE  \/ s[2] <= stored[s[1]] \/ s[1] \in lapsed
                      \/ \E c \in Compactors : s[1] \in Owed(c) /\ pc[c] # "down" /\
                            \E i \in DOMAIN descriptors[c] :
                                descriptors[c][i].part = s[1] /\ descriptors[c][i].last >= s[2]
    BY Zenon DEF LagIsExplained
  <2>1. s \in Records
    <3>1. PICK b \in index : s \in b.rows
      BY Zenon DEF RowsOf
    <3>2. b \in Blocks
      BY Zenon DEF CompactorInv, Sound
    <3> QED BY <3>1, <3>2 DEF Blocks
  <2>2. s = <<s[1], s[2]>> /\ s[1] \in Partitions /\ s[2] \in Nat /\ 1 <= s[2]
    BY <2>1 DEF Records, Offsets
  <2>3. committed[s[1]] \in Int
    BY <2>2 DEF CompactorInv, Types, Frontiers
  <2>4. s[2] \in 1..committed[s[1]]
    BY <2>2, <2>3
  <2>5. Excused(s[1], s[2]) /\ <<s[1], s[2]>> \notin Deleted
    BY <2>2, <2>4, Zenon DEF LagInv, AllExcused
  <2>6. ASSUME NEW c \in Compactors, Paying(c), Reaches(c, s[1], s[2])
        PROVE  s[1] \in Owed(c) /\ pc[c] # "down"
    BY <2>6, Zenon DEF Paying, Reaches, Owed
  <2> QED BY <2>5, <2>6, Zenon DEF Excused, Reaches
<1> QED BY <1>1, LagInvariant, PTL

\* Every variable keeps its type through every interleaving of the compactors.
THEOREM TypeCorrect == Spec => []TypeOK
<1>1. CompactorInv /\ LagInv => TypeOK
  <2> SUFFICES ASSUME CompactorInv, LagInv  PROVE TypeOK
    BY Zenon
  <2>1. ASSUME NEW c \in Compactors  PROVE {batch[c][i] : i \in DOMAIN batch[c]} \subseteq Records
    BY DEF CompactorInv, Types
  <2>2. index \subseteq Blocks
    BY Zenon DEF CompactorInv, Sound
  <2> QED BY <2>1, <2>2, Zenon DEF CompactorInv, Types, LagInv, GroupTypes, Labels, TypeOK
<1> QED BY <1>1, LagInvariant, PTL
=============================================================================
