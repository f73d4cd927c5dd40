------------------------ MODULE LogCompactorsProofs ------------------------
(***************************************************************************)
(* TLAPS proof that the logs compactors implement LogHandover, for any     *)
(* compactors, partitions, tenants, delete requests and bounds.            *)
(***************************************************************************)
EXTENDS LogCompactors, SequenceTheorems, WellFoundedInduction, TLAPS

Descriptors == [part : Partitions, last : Offsets]

Types ==
    /\ end \in Frontiers /\ committed \in Frontiers /\ stored \in Frontiers
    /\ deleting \in BOOLEAN
    /\ position \in [Compactors -> Frontiers]
    /\ front \in [Compactors -> Frontiers]
    /\ assigned \in [Compactors -> SUBSET Partitions]
    /\ batch \in [Compactors -> Seq(Records)]
    /\ next \in [Compactors -> Nat \ {0}]
    /\ descriptors \in [Compactors -> Seq(Descriptors)]
    /\ DOMAIN pc = Compactors /\ DOMAIN joined = Compactors

\* The first n records of p may leave the WAL tail.
Covered(p, n) == \A o \in 1..n : <<p, o>> \in Safe

\* A batch has the records of a partition in order, and without gaps where they
\* are neighbours.
InOrder(b) ==
    /\ \A i, j \in DOMAIN b : i < j /\ b[i][1] = b[j][1] => b[i][2] < b[j][2]
    /\ \A i, j \in DOMAIN b :
          i <= j /\ (\A m \in i..j : b[m][1] = b[i][1]) => b[j][2] = b[i][2] + (j - i)

\* The batch of c ends where c stopped polling.
UpTo(c) ==
    /\ \A i \in DOMAIN batch[c] :
          /\ batch[c][i][1] \in assigned[c]
          /\ batch[c][i][2] <= position[c][batch[c][i][1]]
    /\ batch[c] # <<>> =>
          batch[c][Len(batch[c])][2] = position[c][batch[c][Len(batch[c])][1]]

\* What c polled and has not written as a block is in the rest of its batch.
Pending(c) ==
    \A p \in assigned[c] : \A o \in 1..position[c][p] :
        \/ <<p, o>> \in Safe
        \/ \E i \in DOMAIN batch[c] : i >= next[c] /\ batch[c][i] = <<p, o>>

\* Whatever c may put into the frontier is covered.
Claims(c) ==
    /\ \A i \in DOMAIN descriptors[c] :
          Covered(descriptors[c][i].part, descriptors[c][i].last)
    /\ \A p \in Partitions : Covered(p, front[c][p])
    /\ pc[c] = "frontier" => descriptors[c] # <<>>

Compactor(c) ==
    /\ InOrder(batch[c]) /\ UpTo(c) /\ Pending(c) /\ Claims(c)
    /\ pc[c] \in {"top", "poll", "frontier"} => next[c] = 1

\* A block holds records of the range in its key only.
InRange(b) == b.rows \subseteq {b.part} \X (b.first..b.last)

\* An index whose blocks hold what their keys say.
Sound(blocks) == blocks \subseteq Blocks /\ \A b \in blocks : InRange(b)

\* The inductive invariant.
CompactorInv ==
    /\ Types
    /\ Sound(index)
    /\ \A p \in Partitions : Covered(p, committed[p]) /\ Covered(p, stored[p])
    /\ \A c \in Compactors : Compactor(c)
-----------------------------------------------------------------------------
\* The chunk wal_compaction_chunks starts at k ends in the batch, and all its
\* records have the tenant and the partition of the first.
LEMMA ChunkEnds ==
    ASSUME NEW b \in Seq(Records), NEW k \in DOMAIN b
    PROVE  /\ ChunkEnd(b, k) \in k..Len(b)
           /\ \A i \in k..ChunkEnd(b, k) : SameChunk(b[k], b[i])
<1> DEFINE T == {j \in Nat : k <= j /\ j < Len(b) /\ ~SameChunk(b[k], b[j + 1])}
           Ends(j) == /\ \A i \in k..j : SameChunk(b[k], b[i])
                      /\ j = Len(b) \/ ~SameChunk(b[k], b[j + 1])
<1>0. /\ k \in Nat /\ Len(b) \in Nat /\ 1 <= k /\ k <= Len(b)
      /\ SameChunk(b[k], b[k])
  BY DEF SameChunk
<1>1. T = {} => \E j \in k..Len(b) : Ends(j)
  <2> HAVE T = {}
  <2>1. ASSUME NEW i \in k..Len(b)  PROVE SameChunk(b[k], b[i])
    <3>1. CASE i = k  BY <3>1, <1>0, Zenon
    <3>2. CASE i > k
      <4>1. i - 1 \in Nat /\ k <= i - 1 /\ i - 1 < Len(b) /\ (i - 1) + 1 = i
        BY <1>0, <3>2
      <4> QED BY <4>1, Zenon
    <3> QED BY <1>0, <3>1, <3>2
  <2>2. Len(b) \in k..Len(b) /\ Ends(Len(b))
    BY <1>0, <2>1
  <2> QED BY <2>2, Zenon
<1>2. T # {} => \E j \in k..Len(b) : Ends(j)
  <2> HAVE T # {}
  <2> DEFINE R == {ss \in Nat \X Nat : ss[1] < ss[2]}
  <2>0. IsWellFoundedOn(R, Nat)
    BY NatLessThanWellFounded, Zenon DEF OpToRel
  <2>1. PICK j \in T : \A y \in T : ~(<<y, j>> \in R)
    <3> HIDE DEF R
    <3> QED BY <2>0, WFMin, Zenon
  <2>2. \A y \in T : ~(y < j)
    BY <2>1, Zenon
  <2>3. ASSUME NEW i \in k..j  PROVE SameChunk(b[k], b[i])
    <3>1. CASE i = k  BY <3>1, <1>0, Zenon
    <3>2. CASE i > k
      <4>1. i - 1 \in Nat /\ k <= i - 1 /\ i - 1 < Len(b) /\ i - 1 < j /\ (i - 1) + 1 = i
        BY <1>0, <3>2
      <4> QED BY <2>2, <4>1, Zenon
    <3> QED BY <1>0, <3>1, <3>2
  <2>4. j \in k..Len(b) /\ Ends(j)
    BY <1>0, <2>3
  <2> QED BY <2>4, Zenon
<1>3. \E j \in k..Len(b) : Ends(j)
  BY <1>1, <1>2, Zenon
<1> QED BY <1>3, Zenon DEF ChunkEnd

\* The block of a chunk spans exactly the records of the chunk: its key says
\* what it holds.
LEMMA BlockSpans ==
    ASSUME NEW b \in Seq(Records), InOrder(b), NEW k \in DOMAIN b
    PROVE  LET block == Block(b, k)
               span == {block.part} \X (block.first..block.last)
           IN  /\ block \in Blocks
               /\ block.part = b[k][1] /\ block.last = b[ChunkEnd(b, k)][2]
               /\ block.rows = span \ Deleted
               /\ \A i \in k..ChunkEnd(b, k) : b[i] \in span
<1> DEFINE e == ChunkEnd(b, k)
           part == b[k][1]
           low == b[k][2]
           high == low + (e - k)
           chunk == {b[i] : i \in k..e}
           offsets == {r[2] : r \in chunk}
<1>1. /\ k \in Nat /\ 1 <= k /\ e \in k..Len(b) /\ Len(b) \in Nat
      /\ \A i \in k..e : i \in DOMAIN b /\ b[i][1] = part
  BY ChunkEnds DEF SameChunk
<1>2. \A i \in DOMAIN b : b[i] \in Partitions \X Offsets
  BY DEF Records
<1>3. part \in Partitions /\ low \in Offsets /\ Offsets \subseteq Nat
  BY <1>2 DEF Offsets
<1>4. \A i \in k..e : b[i] = <<part, low + (i - k)>>
  <2> SUFFICES ASSUME NEW i \in k..e  PROVE b[i] = <<part, low + (i - k)>>
    BY Zenon
  <2>1. i \in DOMAIN b /\ k <= i /\ \A m \in k..i : b[m][1] = b[k][1]
    BY <1>1
  <2>2. b[i][2] = low + (i - k)
    BY <2>1, Zenon DEF InOrder
  <2> HIDE DEF e
  <2> QED BY <1>1, <1>2, <2>1, <2>2
<1> HIDE DEF e, part, low
<1>5. /\ high \in Nat /\ low <= high
      /\ \A i \in k..e : b[i] \in {part} \X (low..high)
      /\ \A o \in low..high : \E i \in k..e : b[i] = <<part, o>>
  <2>1. low \in Nat /\ k \in Nat /\ e \in Nat /\ k <= e
    BY <1>1, <1>3
  <2>2. high \in Nat /\ low <= high /\ \A i \in k..e : low + (i - k) \in low..high
    BY <2>1
  <2>3. \A o \in low..high : k + (o - low) \in k..e /\ low + ((k + (o - low)) - k) = o
    BY <2>1
  <2> HIDE DEF high
  <2>4. \A o \in low..high : <<part, o>> \in {part} \X (low..high)
    BY Zenon
  <2>5. \A i \in k..e : b[i] \in {part} \X (low..high)
    BY <1>4, <2>2, <2>4, Zenon
  <2>6. \A o \in low..high : \E i \in k..e : b[i] = <<part, o>>
    BY <1>4, <2>3, Zenon
  <2> QED BY <2>2, <2>5, <2>6, Zenon
<1>6. b[e] = <<part, high>>
  BY <1>1, <1>4
<1> HIDE DEF high
<1>7. chunk = {part} \X (low..high) /\ chunk \subseteq Records
  <2> DEFINE span == {part} \X (low..high)
  <2>1. \A r : r \in chunk <=> \E i \in k..e : r = b[i]
    BY Zenon
  <2>2. \A r \in span : r = <<part, r[2]>> /\ r[2] \in low..high
    OBVIOUS
  <2>3. \A i \in k..e : b[i] \in span
    BY <1>5, Zenon
  <2>4. \A i \in k..e : b[i] \in Records
    BY <1>1, <1>2, Zenon DEF Records
  <2> HIDE DEF chunk, span
  <2>5. \A r : r \in chunk <=> r \in span
    <3>1. ASSUME NEW r \in span  PROVE r \in chunk
      <4>1. PICK i \in k..e : b[i] = <<part, r[2]>>
        BY <1>5, <2>2, Zenon
      <4> QED BY <4>1, <2>1, <2>2, Zenon
    <3> QED BY <3>1, <2>1, <2>3, Zenon
  <2>6. chunk = span /\ chunk \subseteq Records
    BY <2>1, <2>4, <2>5, Zenon
  <2> QED BY <2>6, Zenon DEF span
<1> HIDE DEF chunk
<1>8. offsets = low..high
  <2>1. \A o : o \in offsets <=> \E r \in chunk : o = r[2]
    BY Zenon
  <2> HIDE DEF offsets
  <2>2. \A o \in low..high : <<part, o>> \in chunk /\ <<part, o>>[2] = o
    BY <1>7, Zenon
  <2>3. \A r \in chunk : r[2] \in low..high
    BY <1>7, Zenon
  <2> QED BY <2>1, <2>2, <2>3, Zenon
<1> HIDE DEF offsets
<1>9. /\ (CHOOSE o \in offsets : \A other \in offsets : o <= other) = low
      /\ (CHOOSE o \in offsets : \A other \in offsets : o >= other) = high
  <2>1. low \in offsets /\ high \in offsets
        /\ \A other \in offsets : low <= other /\ high >= other
    BY <1>3, <1>5, <1>8
  <2>2. \A o \in offsets : o <= low => o = low
    BY <1>3, <1>5, <1>8
  <2>3. \A o \in offsets : o >= high => o = high
    BY <1>3, <1>5, <1>8
  <2> QED BY <2>1, <2>2, <2>3, Zenon
<1>10. Block(b, k) = [part |-> part, first |-> low, last |-> high, rows |-> chunk \ Deleted]
  BY <1>9, Zenon DEF Block, chunk, offsets, e, part
<1>11. high \in Offsets
  BY <1>1, <1>2, <1>6
<1>12. Block(b, k) \in Blocks
  BY <1>3, <1>7, <1>10, <1>11 DEF Blocks
<1>13. e = ChunkEnd(b, k) /\ part = b[k][1]
  BY Zenon DEF e, part
<1> QED
  BY <1>5, <1>6, <1>7, <1>10, <1>12, <1>13
-----------------------------------------------------------------------------
\* Replacing the block of a key loses no record: the new block of the key holds
\* all of its range that no delete request names.
LEMMA ListingKeeps ==
    ASSUME NEW block \in Blocks, Sound(index),
           block.rows = ({block.part} \X (block.first..block.last)) \ Deleted
    PROVE  /\ Safe \subseteq RowsOf(Listed(block)) \cup Deleted
           /\ block.rows \subseteq RowsOf(Listed(block))
           /\ Sound(Listed(block))
<1> DEFINE span == {block.part} \X (block.first..block.last)
<1>1. block \in Listed(block) /\ Listed(block) \subseteq index \cup {block}
  BY Zenon DEF Listed
<1>2. ASSUME NEW b \in index, b \notin Listed(block)  PROVE b.rows \subseteq span
  <2>1. <<b.part, b.first, b.last>> = <<block.part, block.first, block.last>>
    BY <1>2, Zenon DEF Listed
  <2>2. b.part = block.part /\ b.first = block.first /\ b.last = block.last
    BY <2>1, Zenon
  <2> QED BY <2>2, Zenon DEF Sound, InRange
<1>3. \A r : r \in span => r \in block.rows \/ r \in Deleted
  BY Zenon
<1>4. block.rows \subseteq span
  BY Zenon
<1>5. InRange(block)
  BY <1>4, Zenon DEF InRange
<1> HIDE DEF span
<1>6. \A blocks, r : r \in RowsOf(blocks) <=> \E b \in blocks : r \in b.rows
  BY Zenon DEF RowsOf
<1>7. ASSUME NEW r \in Safe  PROVE r \in RowsOf(Listed(block)) \cup Deleted
  <2>1. CASE r \in Deleted
    BY <2>1, Zenon
  <2>2. CASE r \in RowsOf(index)
    <3>1. PICK b \in index : r \in b.rows
      BY <2>2, <1>6, Zenon
    <3> QED BY <3>1, <1>1, <1>2, <1>3, <1>6, Zenon
  <2> QED BY <2>1, <2>2, Zenon DEF Safe
<1>8. block.rows \subseteq RowsOf(Listed(block))
  BY <1>1, <1>6, Zenon
<1>9. Sound(Listed(block))
  BY <1>1, <1>5, Zenon DEF Sound
<1> QED BY <1>7, <1>8, <1>9, Zenon

\* Materialising delete requests takes only the rows they name.
LEMMA MaterializingKeeps ==
    ASSUME Sound(index)
    PROVE  Safe \subseteq RowsOf(Materialized) \cup Deleted /\ Sound(Materialized)
<1>1. ASSUME NEW a \in index
      PROVE  /\ Cut(a) \in Blocks /\ InRange(Cut(a))
             /\ Cut(a).rows = a.rows \ Deleted
  <2>1. a \in Blocks /\ InRange(a)
    BY Zenon DEF Sound
  <2>2. /\ Cut(a).rows = a.rows \ Deleted /\ Cut(a).part = a.part
        /\ Cut(a).first = a.first /\ Cut(a).last = a.last /\ Cut(a) \in Blocks
    BY <2>1, Zenon DEF Blocks, Cut
  <2> QED BY <2>1, <2>2, Zenon DEF InRange
<1>2. \A b : b \in Materialized <=> b.rows # {} /\ \E a \in index : b = Cut(a)
  BY Zenon DEF Materialized
<1>3. Sound(Materialized)
  BY <1>1, <1>2 DEF Sound
<1>4. \A blocks, r : r \in RowsOf(blocks) <=> \E b \in blocks : r \in b.rows
  BY Zenon DEF RowsOf
<1>5. ASSUME NEW r \in RowsOf(index), r \notin Deleted  PROVE r \in RowsOf(Materialized)
  <2>1. PICK a \in index : r \in a.rows
    BY <1>4, <1>5, Zenon
  <2>2. r \in Cut(a).rows
    BY <1>1, <1>5, <2>1, Zenon
  <2> QED BY <1>2, <1>4, <2>2, Zenon
<1> QED BY <1>3, <1>5, Zenon DEF Safe

\* A chunk that is written is safe, whether the put is new or replaces a block.
LEMMA ChunkListed ==
    ASSUME CompactorInv, NEW c \in Compactors, next[c] <= Len(batch[c]),
           index' = Listed(Block(batch[c], next[c])), UNCHANGED deleting
    PROVE  /\ Safe \subseteq Safe' /\ Sound(index')
           /\ \A i \in next[c]..ChunkEnd(batch[c], next[c]) : batch[c][i] \in Safe'
<1> DEFINE block == Block(batch[c], next[c])
           span == {block.part} \X (block.first..block.last)
<1>1. /\ batch[c] \in Seq(Records) /\ InOrder(batch[c]) /\ next[c] \in DOMAIN batch[c]
      /\ Sound(index)
  BY DEF CompactorInv, Types, Compactor
<1>2. /\ block \in Blocks /\ block.rows = span \ Deleted
      /\ \A i \in next[c]..ChunkEnd(batch[c], next[c]) : batch[c][i] \in span
  BY <1>1, BlockSpans
<1> HIDE DEF block
<1>3. /\ Safe \subseteq RowsOf(Listed(block)) \cup Deleted
      /\ block.rows \subseteq RowsOf(Listed(block)) /\ Sound(Listed(block))
  BY <1>1, <1>2, ListingKeeps, Zenon
<1>4. Safe' = RowsOf(Listed(block)) \cup Deleted
  BY Zenon DEF Safe, RowsOf, Deleted, block
<1>5. index' = Listed(block)
  BY Zenon DEF block
<1> HIDE DEF span
<1> QED BY <1>2, <1>3, <1>4, <1>5, Zenon

\* No step takes a record back: what is safe stays safe.
LEMMA SafeGrows ==
    ASSUME CompactorInv, [Next]_vars
    PROVE  Safe \subseteq Safe' /\ Sound(index') /\ Safe' \subseteq Records
<1>1. Sound(index)
  BY Zenon DEF CompactorInv
<1>2. ASSUME UNCHANGED <<index, deleting>>  PROVE Safe \subseteq Safe' /\ Sound(index')
  BY <1>1, <1>2, Zenon DEF Safe, RowsOf, Deleted
<1>3. ASSUME NEW c \in Compactors, CompactorStep(c)
      PROVE  Safe \subseteq Safe' /\ Sound(index')
  <2>1. CASE Top(c)
    <3>1. index' = Materialized /\ deleting' = deleting
      BY <2>1, Zenon DEF Top
    <3>2. Safe' = RowsOf(Materialized) \cup Deleted
      BY <3>1, Zenon DEF Safe, RowsOf, Deleted
    <3> QED BY <1>1, <3>1, <3>2, MaterializingKeeps
  <2>2. CASE WriteChunk(c)
    <3>1. deleting' = deleting /\ next[c] <= Len(batch[c])
          /\ (index' = index \/ index' = Listed(Block(batch[c], next[c])))
      BY <2>2 DEF WriteChunk
    <3> QED BY <1>2, <3>1, ChunkListed, Zenon
  <2>3. CASE ChunkFails(c)
    <3>1. deleting' = deleting /\ next[c] <= Len(batch[c])
          /\ (index' = index \/ index' = Listed(Block(batch[c], next[c])))
      BY <2>3 DEF ChunkFails
    <3> QED BY <1>2, <3>1, ChunkListed, Zenon
  <2>4. CASE \/ Poll(c) \/ StartCompaction(c) \/ Commit(c) \/ CommitRefused(c)
             \/ PersistFrontier(c) \/ Crash(c) \/ Restart(c)
    BY <1>2, <2>4, Zenon DEF Poll, StartCompaction, Commit, CommitRefused, PersistFrontier,
                      Crash, Restart
  <2> QED BY <1>3, <2>1, <2>2, <2>3, <2>4, Zenon DEF CompactorStep
<1>4. ASSUME DeleteRequest  PROVE Safe \subseteq Safe' /\ Sound(index')
  BY <1>1, <1>4 DEF DeleteRequest, Safe, RowsOf, Deleted
<1>5. ASSUME (\E p \in Partitions : Produce(p)) \/ Rebalance \/ UNCHANGED vars
      PROVE  Safe \subseteq Safe' /\ Sound(index')
  BY <1>2, <1>5, Zenon DEF Produce, Rebalance, vars
<1>6. Safe \subseteq Safe' /\ Sound(index')
  BY <1>3, <1>4, <1>5, Zenon DEF Next
<1>7. Safe' \subseteq Records
  <2>1. \A b \in index' : b.rows \subseteq Records
    BY <1>6, Zenon DEF Sound, Blocks
  <2> QED BY <2>1, DeletableAssumption, Zenon DEF Safe, RowsOf, Deleted
<1> QED BY <1>6, <1>7, Zenon
-----------------------------------------------------------------------------
\* The claims of a compactor that leaves its descriptors and frontier alone hold on.
LEMMA ClaimsStay ==
    ASSUME NEW c, Claims(c), Safe \subseteq Safe', descriptors'[c] = descriptors[c],
           front'[c] = front[c], pc'[c] = "frontier" => pc[c] = "frontier"
    PROVE  Claims(c)'
BY DEF Claims, Covered

\* A batch that a step leaves alone keeps its order and its place in the log.
LEMMA BatchStays ==
    ASSUME NEW c, InOrder(batch[c]), UpTo(c),
           UNCHANGED <<batch[c], assigned[c], position[c]>>
    PROVE  InOrder(batch[c])' /\ UpTo(c)'
<1>1. InOrder(batch[c])'
  BY Zenon DEF InOrder
<1>2. UpTo(c)'
  BY Zenon DEF UpTo
<1> QED BY <1>1, <1>2, Zenon

\* A compactor that does not step keeps its part of the invariant.
LEMMA OthersStay ==
    ASSUME NEW c, Compactor(c), Safe \subseteq Safe',
           UNCHANGED <<batch[c], assigned[c], position[c], next[c], descriptors[c],
                       front[c], pc[c]>>
    PROVE  Compactor(c)'
<1>1. Claims(c)'
  BY ClaimsStay DEF Compactor
<1>2. Pending(c)'
  BY Zenon DEF Compactor, Pending
<1>3. InOrder(batch[c])' /\ UpTo(c)'
  BY BatchStays, Zenon DEF Compactor
<1> QED BY <1>1, <1>2, <1>3, Zenon DEF Compactor

\* A run of polled records goes on where the records before it end.
LEMMA AppendedInOrder ==
    ASSUME NEW old \in Seq(Records), InOrder(old), NEW p \in Partitions,
           NEW from \in Nat, NEW n \in Nat,
           \A i \in DOMAIN old : old[i][1] = p => old[i][2] <= from,
           old # <<>> /\ old[Len(old)][1] = p => old[Len(old)][2] = from
    PROVE  InOrder(old \o [i \in 1..n |-> <<p, from + i>>])
<1> DEFINE run == [i \in 1..n |-> <<p, from + i>>]
           new == old \o run
           l == Len(old)
<1>1. l \in Nat /\ DOMAIN old = 1..l /\ (l > 0 => old # <<>>)
  OBVIOUS
<1>2. \A i \in DOMAIN old : old[i][2] \in Nat
  BY DEF Records, Offsets
<1>3. DOMAIN new = 1..(l + n)
  OBVIOUS
<1>4. \A i \in 1..(l + n) : /\ i <= l => new[i] = old[i]
                            /\ i > l => new[i] = <<p, from + (i - l)>>
  OBVIOUS
<1> HIDE DEF new, run, l
<1>5. ASSUME NEW i \in 1..(l + n), NEW j \in 1..(l + n), i < j, new[i][1] = new[j][1]
      PROVE  new[i][2] < new[j][2]
  <2>1. CASE j <= l
    <3>1. i \in DOMAIN old /\ j \in DOMAIN old /\ new[i] = old[i] /\ new[j] = old[j]
      BY <1>1, <1>4, <1>5, <2>1
    <3> QED BY <1>5, <3>1, Zenon DEF InOrder
  <2>2. CASE i <= l /\ j > l
    <3>1. new[i] = old[i] /\ new[j] = <<p, from + (j - l)>> /\ i \in DOMAIN old
      BY <1>1, <1>4, <2>2
    <3>2. old[i][1] = p /\ new[j][2] = from + (j - l)
      BY <1>5, <3>1
    <3> QED BY <1>1, <1>2, <2>2, <3>1, <3>2
  <2>3. CASE i > l
    BY <1>1, <1>4, <1>5, <2>3
  <2> QED BY <1>1, <2>1, <2>2, <2>3
<1>6. ASSUME NEW i \in 1..(l + n), NEW j \in 1..(l + n), i <= j,
             \A m \in i..j : new[m][1] = new[i][1]
      PROVE  new[j][2] = new[i][2] + (j - i)
  <2>1. CASE j <= l
    <3>1. i \in 1..l /\ j \in 1..l /\ \A m \in i..j : m \in 1..(l + n) /\ m <= l
      BY <1>1, <1>6, <2>1
    <3>2. \A m \in i..j : old[m][1] = old[i][1]
      BY <1>4, <1>6, <3>1
    <3>3. old[j][2] = old[i][2] + (j - i)
      BY <1>1, <1>6, <3>1, <3>2 DEF InOrder
    <3>4. new[i] = old[i] /\ new[j] = old[j]
      BY <1>4, <3>1, <2>1
    <3> QED BY <3>3, <3>4, Zenon
  <2>2. CASE i <= l /\ j > l
    <3>1. i \in 1..l /\ l \in 1..l /\ \A m \in i..l : m \in i..j /\ m \in 1..(l + n) /\ m <= l
      BY <1>1, <1>6, <2>2
    <3>2. \A m \in i..l : old[m][1] = old[i][1]
      BY <1>4, <1>6, <3>1
    <3>3. old[l][2] = old[i][2] + (l - i)
      BY <1>1, <3>1, <3>2, <2>2 DEF InOrder
    <3>4. old[l][1] = p
      <4>1. j \in i..j /\ l \in i..j /\ l \in 1..(l + n)
        BY <1>1, <1>6, <3>1, <2>2
      <4>2. new[j] = <<p, from + (j - l)>> /\ new[l] = old[l]
        <5>1. l <= l /\ j \in 1..(l + n)
          BY <1>1, <1>6
        <5> QED BY <1>4, <2>2, <4>1, <5>1, Zenon
      <4>3. new[l][1] = new[i][1] /\ new[j][1] = new[i][1]
        BY <1>6, <4>1, Zenon
      <4> QED BY <4>2, <4>3
    <3>5. old[l][2] = from
      BY <1>1, <3>1, <3>4 DEF l
    <3>6. new[j][2] = from + (j - l) /\ new[i][2] = old[i][2]
      BY <1>4, <2>2
    <3>7. l \in Nat /\ i \in Nat /\ j \in Nat
      BY <1>1, <3>1
    <3>8. old[i][2] \in Nat
      BY <1>1, <1>2, <3>1, Zenon
    <3>9. PICK x \in Nat : x = old[i][2]
      BY <3>8, Zenon
    <3>10. from = x + (l - i)
      BY <3>3, <3>5, <3>9, Zenon
    <3>11. from + (j - l) = x + (j - i)
      BY <3>7, <3>10
    <3> QED BY <3>6, <3>9, <3>11, Zenon
  <2>3. CASE i > l
    BY <1>1, <1>4, <1>6, <2>3
  <2> QED BY <1>1, <2>1, <2>2, <2>3
<1>7. InOrder(new)
  BY <1>3, <1>5, <1>6, Zenon DEF InOrder
<1> QED BY <1>7 DEF new, run

\* A poll, with or without a rebalance to apply, keeps the polling compactor's
\* part: after a rejoin its positions are the commits, which are covered, and
\* nothing else is left of its batch.
LEMMA PollStep ==
    ASSUME CompactorInv, Safe \subseteq Safe', NEW c \in Compactors, Poll(c)
    PROVE  /\ position'[c] \in Frontiers /\ assigned'[c] \subseteq Partitions
           /\ batch'[c] \in Seq(Records) /\ Compactor(c)'
<1> DEFINE Run(p, n) == [i \in 1..n |-> <<p, Resume(c, p) + i>>]
<1>1. PICK p \in Partitions, n \in 0..MaxRecords :
        /\ n > 0 => p \in Mine(c) /\ Resume(c, p) + n <= end[p]
        /\ position' = [position EXCEPT ![c] =
               [q \in Partitions |-> Resume(c, q) + (IF q = p THEN n ELSE 0)]]
        /\ batch' = [batch EXCEPT ![c] = Kept(c) \o Run(p, n)]
  BY Zenon DEF Poll
<1> DEFINE from == Resume(c, p)
           old == Kept(c)
           run == Run(p, n)
<1>2. Types /\ Compactor(c) /\ next[c] = 1 /\ MaxRecords \in Nat
  BY BoundsAssumption, Zenon DEF CompactorInv, Compactor, Poll
<1>3. \A q \in Partitions : Resume(c, q) \in 0..MaxRecords
  BY <1>2 DEF Types, Frontiers, Resume
<1>4. Mine(c) \subseteq Partitions /\ assigned'[c] = Mine(c)
  BY <1>2 DEF Types, Mine, Poll
<1>5. n \in Nat /\ from \in Nat /\ from + n <= MaxRecords
  <2>1. n \in Nat /\ from \in 0..MaxRecords /\ MaxRecords \in Nat
    BY <1>2, <1>3
  <2>2. end[p] \in 0..MaxRecords /\ (n > 0 => from + n <= end[p])
    BY <1>1, <1>2, Zenon DEF Types, Frontiers
  <2> HIDE DEF from
  <2> QED BY <2>1, <2>2
<1>6. /\ position'[c] \in Frontiers
      /\ \A q \in Partitions : position'[c][q] = Resume(c, q) + (IF q = p THEN n ELSE 0)
  <2>1. position'[c] = [q \in Partitions |-> Resume(c, q) + (IF q = p THEN n ELSE 0)]
    BY <1>1, <1>2, Zenon DEF Types
  <2> QED BY <1>2, <1>3, <1>5, <2>1 DEF Frontiers
<1>7. run \in Seq(Records) /\ Len(run) = n /\ \A i \in 1..n : run[i] = <<p, from + i>>
  <2>1. \A i \in 1..n : <<p, from + i>> \in Records
    BY <1>2, <1>5 DEF Records, Offsets
  <2> QED BY <1>5, <2>1
<1>8. /\ old \in Seq(Records) /\ InOrder(old)
      /\ \A i \in DOMAIN old : old[i][1] \in Mine(c) /\ old[i][2] <= Resume(c, old[i][1])
      /\ old # <<>> => old[Len(old)][2] = Resume(c, old[Len(old)][1])
      /\ \A q \in Mine(c) : \A o \in 1..Resume(c, q) :
            <<q, o>> \in Safe \/ \E i \in DOMAIN old : old[i] = <<q, o>>
  <2>1. CASE Rejoins(c)
    <3>1. old = <<>> /\ \A q : Resume(c, q) = committed[q]
      BY <2>1, Zenon DEF Kept, Resume
    <3>2. \A q \in Mine(c) : Covered(q, committed[q])
      BY <1>4, Zenon DEF CompactorInv
    <3> HIDE DEF old
    <3> QED BY <3>1, <3>2 DEF Covered, InOrder
  <2>2. CASE ~Rejoins(c)
    <3>1. old = batch[c] /\ Mine(c) = assigned[c] /\ \A q : Resume(c, q) = position[c][q]
      BY <2>2, Zenon DEF Kept, Resume, Mine
    <3>2. InOrder(batch[c]) /\ UpTo(c) /\ Pending(c) /\ batch[c] \in Seq(Records)
      BY <1>2, Zenon DEF Compactor, Types
    <3> HIDE DEF old
    <3> QED BY <1>2, <3>1, <3>2, ZenonT(60) DEF UpTo, Pending
  <2> QED BY <2>1, <2>2, Zenon
<1>9. batch'[c] = old \o run /\ batch'[c] \in Seq(Records)
  <2>1. batch'[c] = old \o run
    BY <1>1, <1>2, Zenon DEF Types
  <2> HIDE DEF old, run
  <2> QED BY <1>7, <1>8, <2>1
<1>10. InOrder(old \o [i \in 1..n |-> <<p, from + i>>])
  <2> HIDE DEF old, from
  <2>1. \A i \in DOMAIN old : old[i][1] = p => old[i][2] <= from
    BY <1>8, Zenon DEF from
  <2>2. old # <<>> /\ old[Len(old)][1] = p => old[Len(old)][2] = from
    BY <1>8, Zenon DEF from
  <2> QED BY <1>5, <1>8, <2>1, <2>2, AppendedInOrder, Zenon
<1>11. InOrder(batch[c])'
  <2>1. InOrder(batch'[c])
    BY <1>9, <1>10, Zenon
  <2> QED BY <2>1, Zenon DEF InOrder
<1> DEFINE new == batch'[c]
           l == Len(old)
<1>12. /\ l \in Nat /\ DOMAIN old = 1..l /\ DOMAIN new = 1..(l + n)
       /\ Len(new) = l + n /\ (old # <<>> <=> l > 0)
       /\ \A i \in 1..l : new[i] = old[i]
       /\ \A i \in 1..n : new[l + i] = <<p, from + i>>
  <2> HIDE DEF old, run, from
  <2>1. l \in Nat /\ DOMAIN old = 1..l /\ (old # <<>> <=> l > 0)
    BY <1>8
  <2>2. /\ Len(old \o run) = l + n
        /\ \A i \in 1..(l + n) : (old \o run)[i] = IF i <= l THEN old[i] ELSE run[i - l]
    BY <1>7, <1>8, ConcatProperties, Zenon
  <2>3. new = old \o run /\ new \in Seq(Records)
    BY <1>9, Zenon
  <2> HIDE DEF new, l
  <2>4. Len(new) = l + n /\ DOMAIN new = 1..(l + n)
    BY <2>2, <2>3
  <2>5. \A i \in 1..l : new[i] = old[i]
    BY <1>5, <2>1, <2>2, <2>3
  <2>6. \A i \in 1..n : new[l + i] = run[i]
    <3>1. \A i \in 1..n : l + i \in 1..(l + n) /\ ~(l + i <= l) /\ (l + i) - l = i
      BY <1>5, <2>1
    <3> QED BY <2>2, <2>3, <3>1, Zenon
  <2> QED BY <1>7, <2>1, <2>4, <2>5, <2>6, Zenon
<1> HIDE DEF old, run, from, l
<1>13. UpTo(c)'
  <2>1. ASSUME NEW i \in DOMAIN new
        PROVE  new[i][1] \in Mine(c) /\ new[i][2] <= position'[c][new[i][1]]
    <3>1. CASE i <= l
      <4>1. /\ new[i] = old[i] /\ old[i][1] \in Mine(c) /\ old[i][1] \in Partitions
            /\ old[i][2] <= Resume(c, old[i][1]) /\ old[i][2] \in Nat
        BY <1>4, <1>8, <1>12, <3>1 DEF Records, Offsets
      <4> QED BY <1>3, <1>5, <1>6, <4>1
    <3>2. CASE i > l
      <4>1. i - l \in 1..n /\ l + (i - l) = i
        BY <1>5, <1>12, <3>2
      <4>2. new[i] = <<p, from + (i - l)>>
        BY <1>12, <4>1, Zenon
      <4>3. position'[c][p] = from + n /\ p \in Mine(c)
        BY <1>1, <1>5, <1>6, <4>1 DEF from
      <4> QED BY <1>5, <4>1, <4>2, <4>3
    <3> QED BY <1>5, <1>12, <3>1, <3>2
  <2>2. ASSUME new # <<>>  PROVE new[Len(new)][2] = position'[c][new[Len(new)][1]]
    <3>1. CASE n = 0
      <4>1. l > 0 /\ Len(new) = l /\ new[l] = old[l] /\ old[l][1] \in Partitions
        BY <1>4, <1>8, <1>9, <1>12, <2>2, <3>1
      <4>2. position'[c][old[l][1]] = Resume(c, old[l][1])
        BY <1>3, <1>6, <3>1, <4>1
      <4> QED BY <1>8, <1>12, <4>1, <4>2, Zenon DEF l
    <3>2. CASE n > 0
      <4>1. n \in 1..n /\ new[l + n] = <<p, from + n>>
        <5>1. n \in 1..n
          BY <1>5, <3>2
        <5> QED BY <1>12, <5>1, Zenon
      <4>2. position'[c][p] = from + n
        BY <1>5, <1>6, Zenon DEF from
      <4> QED BY <1>12, <4>1, <4>2
    <3> QED BY <1>5, <3>1, <3>2
  <2> QED BY <1>4, <2>1, <2>2, Zenon DEF UpTo
<1>14. Pending(c)'
  <2>1. next'[c] = 1
    BY <1>2, Zenon DEF Poll
  <2>2. ASSUME NEW q \in Mine(c), NEW o \in 1..position'[c][q], <<q, o>> \notin Safe'
        PROVE  \E i \in DOMAIN new : i >= 1 /\ new[i] = <<q, o>>
    <3>1. CASE o <= Resume(c, q)
      <4>1. o \in 1..Resume(c, q)
        BY <1>3, <1>4, <3>1
      <4>2. PICK i \in DOMAIN old : old[i] = <<q, o>>
        BY <1>8, <2>2, <4>1, Zenon
      <4> QED BY <1>5, <1>12, <4>2
    <3>2. CASE o > Resume(c, q)
      <4>1. q = p /\ o - from \in 1..n /\ from + (o - from) = o
        BY <1>3, <1>4, <1>5, <1>6, <3>2 DEF from
      <4>2. new[l + (o - from)] = <<p, from + (o - from)>>
        BY <1>12, <4>1, Zenon
      <4>3. l + (o - from) \in DOMAIN new /\ l + (o - from) >= 1
        BY <1>5, <1>12, <4>1
      <4> QED BY <4>1, <4>2, <4>3, Zenon
    <3> QED BY <1>3, <1>4, <3>1, <3>2
  <2> QED BY <1>4, <2>1, <2>2, Zenon DEF Pending
<1>15. Claims(c)'
  BY <1>2, ClaimsStay, Zenon DEF Poll, Compactor
<1>16. next'[c] = 1
  BY <1>2, Zenon DEF Poll
<1> QED
  BY <1>4, <1>6, <1>9, <1>11, <1>13, <1>14, <1>15, <1>16 DEF Compactor

\* Writing a chunk: its records are safe, so the rest of the batch is what is
\* pending, and the descriptor covers everything up to its last record.
LEMMA WriteStep ==
    ASSUME CompactorInv, Safe \subseteq Safe', NEW c \in Compactors, WriteChunk(c)
    PROVE  /\ next'[c] \in Nat \ {0} /\ descriptors'[c] \in Seq(Descriptors)
           /\ Compactor(c)'
<1> DEFINE b == batch[c]
           k == next[c]
           e == ChunkEnd(b, k)
           block == Block(b, k)
           d == [part |-> block.part, last |-> block.last]
<1>1. /\ b \in Seq(Records) /\ InOrder(b) /\ UpTo(c) /\ Pending(c) /\ Claims(c)
      /\ k \in DOMAIN b /\ k \in Nat \ {0} /\ DOMAIN b = 1..Len(b)
  <2>1. /\ b \in Seq(Records) /\ InOrder(b) /\ UpTo(c) /\ Pending(c) /\ Claims(c)
        /\ k \in Nat \ {0} /\ k <= Len(b)
    BY Zenon DEF CompactorInv, Types, Compactor, WriteChunk
  <2> HIDE DEF b, k
  <2>2. k \in DOMAIN b /\ DOMAIN b = 1..Len(b)
    BY <2>1
  <2> QED BY <2>1, <2>2, Zenon
<1>2. e \in k..Len(b) /\ \A i \in k..e : SameChunk(b[k], b[i])
  BY <1>1, ChunkEnds, Zenon
<1>3. /\ block.part = b[k][1] /\ block.last = b[e][2] /\ block \in Blocks
      /\ block.rows = ({block.part} \X (block.first..block.last)) \ Deleted
      /\ \A i \in k..e : b[i] \in {block.part} \X (block.first..block.last)
  BY <1>1, BlockSpans, ZenonT(60)
<1>4. \A i \in k..e : b[i] \in Safe'
  <2>1. CASE block.rows = {}
    BY <1>3, <2>1, Zenon DEF Safe
  <2>2. CASE block.rows # {}
    BY <2>2, ChunkListed, Zenon DEF WriteChunk
  <2> QED BY <2>1, <2>2, Zenon
<1>5. next'[c] = e + 1
  BY Zenon DEF WriteChunk, CompactorInv, Types
<1> HIDE DEF b, k, e, block
<1>6. e \in Nat /\ k <= e /\ e <= Len(b) /\ b[k][1] = b[e][1]
  BY <1>1, <1>2 DEF SameChunk
<1>7. Pending(c)'
  <2>1. ASSUME NEW p \in assigned[c], NEW o \in 1..position[c][p], <<p, o>> \notin Safe'
        PROVE  \E i \in DOMAIN b : i >= e + 1 /\ b[i] = <<p, o>>
    <3>1. PICK i \in DOMAIN b : i >= k /\ b[i] = <<p, o>>
      BY <1>1, <2>1, Zenon DEF Pending, b, k
    <3>2. i \notin k..e
      BY <1>4, <2>1, <3>1, Zenon
    <3> QED BY <1>1, <1>6, <3>1, <3>2
  <2>2. UNCHANGED <<assigned, position, batch>>
    BY Zenon DEF WriteChunk
  <2> QED BY <1>5, <2>1, <2>2, ZenonT(60) DEF Pending, b
<1>8. ASSUME NEW o \in 1..d.last  PROVE <<d.part, o>> \in Safe'
  <2>1. d.part = b[e][1] /\ d.last = b[e][2] /\ e \in DOMAIN b
    BY <1>1, <1>3, <1>6
  <2>2. b[e][1] \in assigned[c] /\ b[e][2] <= position[c][b[e][1]]
    BY <1>1, <2>1, Zenon DEF UpTo, b
  <2>3. /\ b[e][2] \in Nat /\ position[c][b[e][1]] \in Nat
    <3>1. b[e][1] \in Partitions /\ b[e][2] \in Nat
      BY <1>1, <2>1 DEF Records, Offsets
    <3>2. position[c] \in [Partitions -> 0..MaxRecords]
      BY Zenon DEF CompactorInv, Types, Frontiers
    <3> QED BY <3>1, <3>2
  <2>4. o \in 1..position[c][b[e][1]] /\ o <= b[e][2]
    BY <2>1, <2>2, <2>3
  <2>5. CASE <<b[e][1], o>> \in Safe
    BY <2>1, <2>5, Zenon
  <2>6. ASSUME NEW i \in DOMAIN b, i >= k, b[i] = <<b[e][1], o>>
        PROVE  <<d.part, o>> \in Safe'
    <3>1. ~(e < i)
      <4>1. b[i][1] = b[e][1] /\ b[i][2] = o
        BY <2>6
      <4>2. e < i => b[e][2] < b[i][2]
        BY <1>1, <2>1, <4>1, Zenon DEF InOrder
      <4> QED BY <2>3, <2>4, <4>1, <4>2
    <3>2. i \in k..e
      BY <1>1, <1>6, <2>6, <3>1
    <3> QED BY <1>4, <2>1, <2>6, <3>2, Zenon
  <2> QED BY <1>1, <2>2, <2>4, <2>5, <2>6, Zenon DEF Pending, b, k
<1>9. /\ descriptors[c] \in Seq(Descriptors) /\ d \in Descriptors
      /\ descriptors'[c] = descriptors[c] \/ descriptors'[c] = Append(descriptors[c], d)
  <2>1. d \in Descriptors
    BY <1>3, Zenon DEF Blocks, Descriptors
  <2> QED BY <2>1, Zenon DEF WriteChunk, CompactorInv, Types, b, k, block
<1> HIDE DEF d
<1>10. /\ descriptors'[c] \in Seq(Descriptors)
       /\ \A i \in DOMAIN descriptors'[c] :
             descriptors'[c][i] = d \/ \E j \in DOMAIN descriptors[c] :
                                          descriptors'[c][i] = descriptors[c][j]
  <2>1. CASE descriptors'[c] = descriptors[c]
    BY <1>9, <2>1, Zenon
  <2>2. CASE descriptors'[c] = Append(descriptors[c], d)
    <3> DEFINE ds == descriptors[c]
    <3>1. ds \in Seq(Descriptors) /\ d \in Descriptors
      BY <1>9, Zenon
    <3>2. /\ Append(ds, d) \in Seq(Descriptors)
          /\ \A i \in DOMAIN Append(ds, d) :
                Append(ds, d)[i] = d \/ (i \in DOMAIN ds /\ Append(ds, d)[i] = ds[i])
      <4> HIDE DEF ds
      <4> QED BY <3>1
    <3> QED BY <2>2, <3>2, Zenon
  <2> QED BY <1>9, <2>1, <2>2, Zenon
<1>11. Claims(c)'
  <2>1. ASSUME NEW i \in DOMAIN descriptors'[c],
               NEW o \in 1..descriptors'[c][i].last
        PROVE  <<descriptors'[c][i].part, o>> \in Safe'
    BY <1>1, <1>8, <1>10, Zenon DEF Claims, Covered
  <2>2. UNCHANGED <<front, pc>> /\ pc[c] = "write"
    BY Zenon DEF WriteChunk
  <2> QED BY <1>1, <2>1, <2>2, Zenon DEF Claims, Covered
<1>12. InOrder(batch[c])' /\ UpTo(c)'
  <2>1. UNCHANGED <<batch, assigned, position>> /\ InOrder(batch[c]) /\ UpTo(c)
    BY <1>1, Zenon DEF WriteChunk, b
  <2> QED BY <2>1, BatchStays, Zenon
<1>13. pc'[c] = "write"
  BY Zenon DEF WriteChunk
<1> QED BY <1>5, <1>6, <1>7, <1>10, <1>11, <1>12, <1>13 DEF Compactor

\* A commit after the last chunk covers what it commits: nothing is pending.
LEMMA CommitStep ==
    ASSUME CompactorInv, Safe \subseteq Safe', NEW c \in Compactors, Commit(c)
    PROVE  /\ committed' \in Frontiers /\ \A p \in Partitions : Covered(p, committed[p])'
           /\ batch'[c] \in Seq(Records) /\ next'[c] \in Nat \ {0} /\ Compactor(c)'
<1>1. /\ Types /\ Compactor(c) /\ batch[c] \in Seq(Records) /\ next[c] \in Nat \ {0}
      /\ position[c] \in Frontiers /\ committed \in Frontiers /\ next[c] > Len(batch[c])
      /\ committed' = Committed(c) /\ UNCHANGED <<assigned, position, descriptors, front>>
  BY Zenon DEF CompactorInv, Types, Commit
<1>2. \A p \in assigned[c] : Covered(p, position[c][p])
  <2>1. \A i \in DOMAIN batch[c] : ~(i >= next[c])
    BY <1>1
  <2>2. Pending(c)
    BY <1>1, Zenon DEF Compactor
  <2> QED BY <2>1, <2>2, Zenon DEF Pending, Covered
<1>3. committed' \in Frontiers
  BY <1>1, Zenon DEF Committed, Frontiers
<1>4. ASSUME NEW p \in Partitions  PROVE Covered(p, committed[p])'
  <2>1. committed'[p] = IF p \in assigned[c] THEN position[c][p] ELSE committed[p]
    BY <1>1, Zenon DEF Committed
  <2>2. Covered(p, committed[p])
    BY Zenon DEF CompactorInv
  <2> QED BY <1>2, <2>1, <2>2, Zenon DEF Covered
<1>5. Pending(c)'
  BY <1>1, <1>2, Zenon DEF Pending, Covered
<1>6. CASE ~LastCommit(c)
  <2>1. UNCHANGED <<pc, batch>> /\ next'[c] = next[c] + 1 /\ pc[c] = "write"
    BY <1>1, <1>6, Zenon DEF Commit, Types
  <2>2. InOrder(batch[c])' /\ UpTo(c)' /\ Claims(c)'
    BY <1>1, <2>1, ClaimsStay, BatchStays, Zenon DEF Compactor
  <2> QED BY <1>1, <1>3, <1>4, <1>5, <2>1, <2>2 DEF Compactor
<1>7. CASE LastCommit(c)
  <2>1. /\ batch'[c] = <<>> /\ next'[c] = 1
        /\ pc'[c] = IF descriptors[c] = <<>> THEN "top" ELSE "frontier"
    BY <1>1, <1>7, Zenon DEF Commit, Types, Goto
  <2>2. InOrder(batch[c])' /\ UpTo(c)'
    BY <2>1 DEF InOrder, UpTo
  <2>3. Claims(c)'
    BY <1>1, <2>1, Zenon DEF Compactor, Claims, Covered
  <2> QED BY <1>1, <1>3, <1>4, <1>5, <2>1, <2>2, <2>3 DEF Compactor
<1> QED BY <1>6, <1>7, Zenon

\* A frontier put claims what its descriptor and the frontier before it covered.
LEMMA PersistStep ==
    ASSUME CompactorInv, Safe \subseteq Safe', NEW c \in Compactors, PersistFrontier(c)
    PROVE  /\ stored' \in Frontiers /\ \A p \in Partitions : Covered(p, stored[p])'
           /\ front'[c] \in Frontiers /\ descriptors'[c] \in Seq(Descriptors)
           /\ Compactor(c)'
<1> DEFINE d == Head(descriptors[c])
           now == Advance(front[c], d)
<1>1. /\ Types /\ Compactor(c) /\ descriptors[c] \in Seq(Descriptors)
      /\ front[c] \in Frontiers /\ stored \in Frontiers /\ descriptors[c] # <<>>
      /\ pc[c] = "frontier" /\ next[c] = 1
  BY Zenon DEF CompactorInv, Types, PersistFrontier, Compactor, Claims
<1>2. d \in Descriptors /\ Covered(d.part, d.last)
  <2>1. 1 \in DOMAIN descriptors[c] /\ d = descriptors[c][1]
    BY <1>1
  <2>2. \A i \in DOMAIN descriptors[c] : descriptors[c][i] \in Descriptors
    BY <1>1
  <2> QED BY <1>1, <2>1, <2>2, Zenon DEF Compactor, Claims
<1>3. /\ front'[c] = now /\ (stored' = stored \/ stored' = now)
      /\ UNCHANGED <<batch, assigned, position, next>>
      /\ \/ descriptors'[c] = descriptors[c] /\ pc'[c] = pc[c]
         \/ /\ descriptors'[c] = Tail(descriptors[c])
            /\ pc'[c] = IF Tail(descriptors[c]) = <<>> THEN "top" ELSE "frontier"
  BY <1>1, Zenon DEF PersistFrontier, Types, Persisted, Goto
<1> HIDE DEF d
<1>4. now \in Frontiers /\ \A p \in Partitions : now[p] = front[c][p] \/ (p = d.part /\ now[p] = d.last)
  <2>1. d.part \in Partitions /\ d.last \in 0..MaxRecords
    BY <1>2 DEF Descriptors, Offsets
  <2> QED BY <1>1, <2>1, Zenon DEF Advance, Frontiers
<1> HIDE DEF now
<1>5. \A p \in Partitions : Covered(p, now[p])
  BY <1>1, <1>2, <1>4, Zenon DEF Compactor, Claims
<1>6. \A p \in Partitions : Covered(p, stored[p])'
  <2>1. \A p \in Partitions : Covered(p, stored[p])
    BY Zenon DEF CompactorInv
  <2> QED BY <1>3, <1>5, <2>1, Zenon DEF Covered
<1>7. /\ descriptors'[c] \in Seq(Descriptors)
      /\ \A i \in DOMAIN descriptors'[c] :
            \E j \in DOMAIN descriptors[c] : descriptors'[c][i] = descriptors[c][j]
  <2>1. CASE descriptors'[c] = descriptors[c]
    BY <1>1, <2>1, Zenon
  <2>2. CASE descriptors'[c] = Tail(descriptors[c])
    <3>1. /\ descriptors'[c] \in Seq(Descriptors)
          /\ Len(descriptors'[c]) = Len(descriptors[c]) - 1
          /\ \A i \in 1..Len(descriptors'[c]) : descriptors'[c][i] = descriptors[c][i + 1]
      BY <1>1, <2>2, HeadTailProperties
    <3>2. \A i \in DOMAIN descriptors'[c] : i + 1 \in DOMAIN descriptors[c]
      BY <1>1, <3>1
    <3>3. DOMAIN descriptors'[c] = 1..Len(descriptors'[c])
      BY <3>1
    <3> QED BY <3>1, <3>2, <3>3, Zenon
  <2> QED BY <1>3, <2>1, <2>2, Zenon
<1>8. Claims(c)'
  <2>1. \A p \in Partitions : Covered(p, front[c][p])'
    BY <1>3, <1>5, Zenon DEF Covered
  <2>2. \A i \in DOMAIN descriptors'[c] : \A o \in 1..descriptors'[c][i].last :
           <<descriptors'[c][i].part, o>> \in Safe'
    BY <1>1, <1>7, Zenon DEF Compactor, Claims, Covered
  <2>3. pc'[c] = "frontier" => descriptors'[c] # <<>>
    BY <1>1, <1>3, Zenon
  <2> QED BY <2>1, <2>2, <2>3, Zenon DEF Claims, Covered
<1>9. InOrder(batch[c])' /\ UpTo(c)' /\ Pending(c)'
  <2>1. InOrder(batch[c])' /\ UpTo(c)'
    BY <1>1, <1>3, BatchStays, Zenon DEF Compactor
  <2>2. Pending(c)'
    BY <1>1, <1>3, ZenonT(60) DEF Compactor, Pending
  <2> QED BY <2>1, <2>2, Zenon
<1> QED BY <1>1, <1>3, <1>4, <1>6, <1>7, <1>8, <1>9, Zenon DEF Compactor

\* The steps that leave positions and frontier alone, or start from the stored
\* state: a failed chunk makes the whole batch pending again, a restart forgets it.
LEMMA QuietStep ==
    ASSUME CompactorInv, Safe \subseteq Safe', NEW c \in Compactors,
           \/ Top(c) \/ StartCompaction(c) \/ ChunkFails(c) \/ CommitRefused(c)
           \/ Crash(c) \/ Restart(c)
    PROVE  Compactor(c)'
<1>1. Types /\ Compactor(c) /\ next[c] \in Nat \ {0} /\ DOMAIN batch[c] \subseteq Nat \ {0}
  <2>1. Types /\ Compactor(c) /\ next[c] \in Nat \ {0} /\ batch[c] \in Seq(Records)
    BY Zenon DEF CompactorInv, Types
  <2> QED BY <2>1
<1>2. CASE Top(c) \/ StartCompaction(c) \/ CommitRefused(c) \/ Crash(c)
  <2>1. /\ UNCHANGED <<batch, assigned, position, next, descriptors, front>>
        /\ pc'[c] # "frontier" /\ (pc'[c] \in {"top", "poll"} => next[c] = 1)
    BY <1>1, <1>2, Zenon DEF Top, StartCompaction, CommitRefused, Crash, Goto, Types, Compactor
  <2>2. Claims(c)'
    BY <1>1, <2>1, ClaimsStay, Zenon DEF Compactor
  <2>3. InOrder(batch[c])' /\ UpTo(c)'
    BY <1>1, <2>1, BatchStays, Zenon DEF Compactor
  <2>4. Pending(c)'
    BY <1>1, <2>1, ZenonT(60) DEF Compactor, Pending
  <2> QED BY <2>1, <2>2, <2>3, <2>4, Zenon DEF Compactor
<1>3. CASE ChunkFails(c)
  <2>1. /\ UNCHANGED <<batch, assigned, position, front>>
        /\ descriptors'[c] = <<>> /\ next'[c] = 1 /\ pc'[c] = "top"
    BY <1>1, <1>3, Zenon DEF ChunkFails, Goto, Types
  <2>2. Claims(c)'
    BY <1>1, <2>1 DEF Compactor, Claims, Covered
  <2>3. InOrder(batch[c])' /\ UpTo(c)'
    BY <1>1, <2>1, BatchStays, Zenon DEF Compactor
  <2>4. Pending(c)'
    <3>1. \A i \in DOMAIN batch[c] : i >= 1
      BY <1>1
    <3> QED BY <1>1, <2>1, <3>1, Zenon DEF Compactor, Pending
  <2> QED BY <2>1, <2>2, <2>3, <2>4, Zenon DEF Compactor
<1>4. CASE Restart(c)
  <2>1. /\ batch'[c] = <<>> /\ assigned'[c] = {} /\ descriptors'[c] = <<>>
        /\ next'[c] = 1 /\ front'[c] = stored /\ pc'[c] = "top"
    BY <1>1, <1>4, Zenon DEF Restart, Goto, Types
  <2>2. Claims(c)'
    <3>1. \A p \in Partitions : Covered(p, stored[p])
      BY Zenon DEF CompactorInv
    <3> QED BY <2>1, <3>1 DEF Claims, Covered
  <2>3. InOrder(batch[c])' /\ UpTo(c)' /\ Pending(c)'
    BY <2>1 DEF InOrder, UpTo, Pending
  <2> QED BY <2>1, <2>2, <2>3, Zenon DEF Compactor
<1> QED BY <1>2, <1>3, <1>4, Zenon

\* A compactor's step changes entries of that compactor only.
LEMMA OwnEntries ==
    ASSUME Types, NEW c \in Compactors, CompactorStep(c), NEW d \in Compactors, d # c
    PROVE  UNCHANGED <<batch[d], assigned[d], position[d], next[d], descriptors[d],
                       front[d], pc[d]>>
<1>1. CASE Top(c) \/ StartCompaction(c) \/ CommitRefused(c) \/ Crash(c)
  BY <1>1, Zenon DEF Top, StartCompaction, CommitRefused, Crash, Goto, Types
<1>2. CASE Poll(c)
  BY <1>2, Zenon DEF Poll, Types
<1>3. CASE WriteChunk(c)
  BY <1>3, Zenon DEF WriteChunk, Types
<1>4. CASE ChunkFails(c)
  BY <1>4, Zenon DEF ChunkFails, Goto, Types
<1>5. CASE Commit(c)
  BY <1>5, Zenon DEF Commit, Goto, Types
<1>6. CASE PersistFrontier(c)
  BY <1>6, Zenon DEF PersistFrontier, Goto, Types
<1>7. CASE Restart(c)
  BY <1>7, Zenon DEF Restart, Goto, Types
<1> QED BY <1>1, <1>2, <1>3, <1>4, <1>5, <1>6, <1>7, Zenon DEF CompactorStep

\* A step of a compactor keeps its own part, what the group has committed and
\* what the frontier object says covered, and every value in its type.
LEMMA CompactorStepKeeps ==
    ASSUME CompactorInv, Safe \subseteq Safe', NEW c \in Compactors, CompactorStep(c)
    PROVE  /\ Types' /\ Compactor(c)'
           /\ \A p \in Partitions : Covered(p, committed[p])' /\ Covered(p, stored[p])'
<1>1. Types
  BY Zenon DEF CompactorInv
<1>2. UNCHANGED committed => \A p \in Partitions : Covered(p, committed[p])'
  BY Zenon DEF CompactorInv, Covered
<1>3. UNCHANGED stored => \A p \in Partitions : Covered(p, stored[p])'
  BY Zenon DEF CompactorInv, Covered
<1>4. CASE Top(c) \/ StartCompaction(c) \/ CommitRefused(c) \/ Crash(c)
  <2>1. Types' /\ UNCHANGED <<committed, stored>>
    BY <1>1, <1>4, ZenonT(60) DEF Top, StartCompaction, CommitRefused, Crash, Goto, Types, broker
  <2> QED BY <1>2, <1>3, <1>4, <2>1, QuietStep, Zenon
<1>5. CASE Poll(c)
  <2>1. UNCHANGED <<broker, deleting, stored, pc, next, descriptors, front>>
        /\ assigned' = [assigned EXCEPT ![c] = Mine(c)]
        /\ joined' = [joined EXCEPT ![c] = generation]
        /\ (\E x : position' = [position EXCEPT ![c] = x])
        /\ (\E x : batch' = [batch EXCEPT ![c] = x])
    BY <1>5, Zenon DEF Poll
  <2>2. /\ position'[c] \in Frontiers /\ assigned'[c] \subseteq Partitions
        /\ batch'[c] \in Seq(Records) /\ Compactor(c)'
    BY <1>5, PollStep, Zenon
  <2>3. Types'
    BY <1>1, <2>1, <2>2, Zenon DEF Types, broker
  <2> QED BY <1>2, <1>3, <2>1, <2>2, <2>3, Zenon DEF broker
<1>6. CASE WriteChunk(c)
  <2>1. /\ next'[c] \in Nat \ {0} /\ descriptors'[c] \in Seq(Descriptors)
        /\ Compactor(c)'
    BY <1>6, WriteStep, Zenon
  <2>2. /\ UNCHANGED <<broker, deleting, stored, pc, joined, assigned, position, batch, front>>
        /\ (\E x : next' = [next EXCEPT ![c] = x])
        /\ (descriptors' = descriptors \/ \E x : descriptors' = [descriptors EXCEPT ![c] = x])
    BY <1>6, Zenon DEF WriteChunk
  <2>3. Types'
    BY <1>1, <2>1, <2>2, Zenon DEF Types, broker
  <2> QED BY <1>2, <1>3, <2>1, <2>2, <2>3, Zenon DEF broker
<1>7. CASE ChunkFails(c)
  <2>1. Types' /\ UNCHANGED <<committed, stored>>
    <3>1. <<>> \in Seq(Descriptors) /\ 1 \in Nat \ {0}
      OBVIOUS
    <3> QED BY <1>1, <1>7, <3>1, Zenon DEF ChunkFails, Goto, Types, broker
  <2> QED BY <1>2, <1>3, <1>7, <2>1, QuietStep, Zenon
<1>8. CASE Commit(c)
  <2>1. /\ committed' \in Frontiers /\ \A p \in Partitions : Covered(p, committed[p])'
        /\ batch'[c] \in Seq(Records) /\ next'[c] \in Nat \ {0} /\ Compactor(c)'
    BY <1>8, CommitStep, Zenon
  <2>2. /\ UNCHANGED <<end, deleting, stored, joined, assigned, position, descriptors, front>>
        /\ (\E x : next' = [next EXCEPT ![c] = x])
        /\ (batch' = batch \/ \E x : batch' = [batch EXCEPT ![c] = x])
        /\ DOMAIN pc' = DOMAIN pc
    BY <1>1, <1>8, Zenon DEF Commit, Goto, Types
  <2>3. Types'
    BY <1>1, <2>1, <2>2, Zenon DEF Types
  <2> QED BY <1>3, <2>1, <2>2, <2>3, Zenon
<1>9. CASE PersistFrontier(c)
  <2>1. /\ stored' \in Frontiers /\ \A p \in Partitions : Covered(p, stored[p])'
        /\ front'[c] \in Frontiers /\ descriptors'[c] \in Seq(Descriptors)
        /\ Compactor(c)'
    BY <1>9, PersistStep, Zenon
  <2>2. /\ UNCHANGED <<broker, deleting, joined, assigned, position, batch, next>>
        /\ (\E x : front' = [front EXCEPT ![c] = x])
        /\ (descriptors' = descriptors \/ \E x : descriptors' = [descriptors EXCEPT ![c] = x])
        /\ DOMAIN pc' = DOMAIN pc
    BY <1>1, <1>9, Zenon DEF PersistFrontier, Goto, Types
  <2>3. Types'
    BY <1>1, <2>1, <2>2, Zenon DEF Types, broker
  <2> QED BY <1>2, <2>1, <2>2, <2>3, Zenon DEF broker
<1>10. CASE Restart(c)
  <2>1. None \in Frontiers /\ <<>> \in Seq(Records) /\ <<>> \in Seq(Descriptors)
    BY BoundsAssumption DEF None, Frontiers
  <2>2. Types' /\ UNCHANGED <<committed, stored>>
    <3>1. 1 \in Nat \ {0}
      OBVIOUS
    <3> QED BY <1>1, <1>10, <2>1, <3>1, Zenon DEF Restart, Goto, Types, broker
  <2> QED BY <1>2, <1>3, <1>10, <2>2, QuietStep, Zenon
<1> QED
  BY <1>4, <1>5, <1>6, <1>7, <1>8, <1>9, <1>10, Zenon DEF CompactorStep
-----------------------------------------------------------------------------
\* The initial states: empty batches, nothing committed or claimed.
LEMMA InvInit == Init => CompactorInv
<1> SUFFICES ASSUME Init  PROVE CompactorInv
  BY Zenon
<1>1. None \in Frontiers /\ \A p \in Partitions : None[p] = 0
  BY BoundsAssumption DEF None, Frontiers
<1>2. Types
  <2>1. <<>> \in Seq(Records) /\ <<>> \in Seq(Descriptors)
    OBVIOUS
  <2>2. /\ batch \in [Compactors -> Seq(Records)]
        /\ descriptors \in [Compactors -> Seq(Descriptors)]
    BY <2>1, Zenon DEF Init
  <2>3. assigned \in [Compactors -> SUBSET Partitions]
    BY Zenon DEF Init
  <2>4. end \in Frontiers /\ committed \in Frontiers /\ stored \in Frontiers
    BY <1>1, Zenon DEF Init
  <2>5. position \in [Compactors -> Frontiers] /\ front \in [Compactors -> Frontiers]
    BY <1>1, Zenon DEF Init
  <2>6. deleting \in BOOLEAN
    BY Zenon DEF Init
  <2>7. /\ next \in [Compactors -> Nat \ {0}]
        /\ DOMAIN pc = Compactors /\ DOMAIN joined = Compactors
    BY DEF Init
  <2> QED BY <2>2, <2>3, <2>4, <2>5, <2>6, <2>7, Zenon DEF Types
<1>3. Sound(index)
  BY Zenon DEF Init, Sound
<1>4. \A p \in Partitions : Covered(p, None[p])
  BY <1>1 DEF Covered
<1>5. ASSUME NEW c \in Compactors  PROVE Compactor(c)
  <2>1. /\ batch[c] = <<>> /\ position[c] = None /\ next[c] = 1 /\ descriptors[c] = <<>>
        /\ front[c] = None /\ pc[c] = "top" /\ assigned[c] \subseteq Partitions
    BY Zenon DEF Init
  <2> QED BY <1>1, <1>4, <2>1 DEF Compactor, InOrder, UpTo, Pending, Claims
<1> QED BY <1>2, <1>3, <1>4, <1>5, Zenon DEF CompactorInv, Init

\* Every step, a compactor's or one of the broker, the group or the delete API,
\* keeps the invariant.
LEMMA InvStep == CompactorInv /\ [Next]_vars => CompactorInv'
<1> SUFFICES ASSUME CompactorInv, [Next]_vars  PROVE CompactorInv'
  BY Zenon
<1>1. Safe \subseteq Safe' /\ Sound(index)'
  BY SafeGrows, Zenon DEF Sound
<1>2. ASSUME NEW c \in Compactors, CompactorStep(c)  PROVE CompactorInv'
  <2>1. /\ Types' /\ Compactor(c)'
        /\ \A p \in Partitions : Covered(p, committed[p])' /\ Covered(p, stored[p])'
    BY <1>1, <1>2, CompactorStepKeeps, Zenon
  <2>2. ASSUME NEW d \in Compactors, d # c  PROVE Compactor(d)'
    <3>1. Types /\ Compactor(d)
      BY Zenon DEF CompactorInv
    <3> QED BY <1>1, <1>2, <2>2, <3>1, OwnEntries, OthersStay, Zenon
  <2> QED BY <1>1, <2>1, <2>2, Zenon DEF CompactorInv
<1>3. ASSUME Types', UNCHANGED <<committed, stored, compactor>>  PROVE CompactorInv'
  <2>1. \A p \in Partitions : Covered(p, committed[p])' /\ Covered(p, stored[p])'
    BY <1>1, <1>3, Zenon DEF CompactorInv, Covered
  <2>2. ASSUME NEW c \in Compactors  PROVE Compactor(c)'
    <3>1. Compactor(c)
      BY Zenon DEF CompactorInv
    <3> QED BY <1>1, <1>3, <3>1, OthersStay, Zenon DEF compactor
  <2> QED BY <1>1, <1>3, <2>1, <2>2, Zenon DEF CompactorInv
<1>4. CASE \E p \in Partitions : Produce(p)
  <2>1. PICK p \in Partitions : Produce(p)
    BY <1>4, Zenon
  <2>2. end' \in Frontiers
    <3>1. end \in [Partitions -> 0..MaxRecords] /\ end[p] < MaxRecords
          /\ end' = [end EXCEPT ![p] = @ + 1] /\ MaxRecords \in Nat
      BY <2>1, BoundsAssumption, Zenon DEF Produce, CompactorInv, Types, Frontiers
    <3> QED BY <3>1 DEF Frontiers
  <2>3. Types' /\ UNCHANGED <<committed, stored, compactor>>
    BY <2>1, <2>2, Zenon DEF Produce, CompactorInv, Types, compactor
  <2> QED BY <1>3, <2>3, Zenon
<1>5. CASE Rebalance \/ DeleteRequest \/ UNCHANGED vars
  <2>1. Types' /\ UNCHANGED <<committed, stored, compactor>>
    BY <1>5, Zenon DEF Rebalance, DeleteRequest, vars, CompactorInv, Types, compactor, broker
  <2> QED BY <1>3, <2>1, Zenon
<1> QED BY <1>2, <1>4, <1>5, Zenon DEF Next

\* A step of the compactors is a step of the hand-over: a listing, a put of a
\* frontier that covers listed records only, or nothing a reader can see.
LEMMA RefinementStep ==
    ASSUME CompactorInv, CompactorInv', [Next]_vars
    PROVE  [Handover!HandoverNext]_(Handover!handover)
<1>1. Safe \subseteq Safe' /\ Safe' \in SUBSET Records
  BY SafeGrows, Zenon
<1>2. Handover!Records = Records /\ Handover!Frontiers = Frontiers
  BY Zenon DEF Handover!Records, Handover!Offsets, Handover!Frontiers, Records, Offsets, Frontiers
<1>3. ASSUME UNCHANGED <<end, stored>>  PROVE Handover!HandoverNext
  BY <1>1, <1>2, <1>3, Zenon DEF Handover!HandoverNext, Handover!List
<1>4. ASSUME NEW p \in Partitions, Produce(p)  PROVE Handover!HandoverNext
  <2>1. Safe' = Safe
    BY <1>4, Zenon DEF Produce, Safe, RowsOf, Deleted
  <2>2. Handover!Produce(p)
    BY <1>4, <2>1, Zenon DEF Produce, Handover!Produce
  <2> QED BY <2>2, Zenon DEF Handover!HandoverNext
<1>5. ASSUME NEW c \in Compactors, PersistFrontier(c)  PROVE Handover!HandoverNext
  <2>1. Safe' = Safe /\ end' = end
    BY <1>5, Zenon DEF PersistFrontier, broker, Safe, RowsOf, Deleted
  <2>2. stored' \in Frontiers /\ \A p \in Partitions : Covered(p, stored[p])'
    BY Zenon DEF CompactorInv, Types
  <2>3. ASSUME NEW r \in Records, r[2] <= stored'[r[1]]  PROVE r \in Safe
    <3>1. r = <<r[1], r[2]>> /\ r[1] \in Partitions /\ r[2] \in Nat /\ 1 <= r[2]
      BY DEF Records, Offsets
    <3>2. r[2] \in 1..stored'[r[1]]
      BY <2>2, <2>3, <3>1 DEF Frontiers
    <3>3. <<r[1], r[2]>> \in Safe'
      BY <2>2, <3>1, <3>2, Zenon DEF Covered
    <3> QED BY <2>1, <3>1, <3>3, Zenon
  <2>4. Handover!Put
    BY <1>2, <2>1, <2>2, <2>3, Zenon DEF Handover!Put, Handover!CoveredBy, Handover!IsCompacted
  <2> QED BY <2>4, Zenon DEF Handover!HandoverNext
<1>6. CASE \E c \in Compactors : CompactorStep(c)
  <2>1. PICK c \in Compactors : CompactorStep(c)
    BY <1>6, Zenon
  <2>2. PersistFrontier(c) \/ UNCHANGED <<end, stored>>
    BY <2>1, Zenon DEF CompactorStep, Top, Poll, StartCompaction, WriteChunk, ChunkFails, Commit,
                CommitRefused, Crash, Restart, broker
  <2> QED BY <1>3, <1>5, <2>2, Zenon
<1>7. CASE Rebalance \/ DeleteRequest \/ UNCHANGED vars
  BY <1>3, <1>7, Zenon DEF Rebalance, DeleteRequest, vars, broker
<1> QED BY <1>4, <1>6, <1>7, Zenon DEF Next

\* The invariant holds in every reachable state.
THEOREM Invariant == Spec => []CompactorInv
BY InvInit, InvStep, PTL DEF Spec

\* commit_compacted and advance_and_persist_compaction_frontier never count a
\* record that no listed block holds and no delete request names.
THEOREM CommittedIsListed == Spec => []CompactedMeansListed
<1>1. CompactorInv => CompactedMeansListed
  <2> SUFFICES ASSUME CompactorInv, NEW p \in Partitions, NEW o \in Offsets,
                      \/ o <= committed[p] \/ o <= stored[p]
                      \/ \E c \in Compactors : o <= front[c][p]
               PROVE  <<p, o>> \in Safe
    BY Zenon DEF CompactedMeansListed
  <2>1. ASSUME NEW n \in 0..MaxRecords, o <= n, Covered(p, n)  PROVE <<p, o>> \in Safe
    <3>1. o \in 1..n
      BY <2>1, BoundsAssumption DEF Offsets
    <3> QED BY <2>1, <3>1, Zenon DEF Covered
  <2>2. /\ Covered(p, committed[p]) /\ Covered(p, stored[p])
        /\ committed[p] \in 0..MaxRecords /\ stored[p] \in 0..MaxRecords
    BY Zenon DEF CompactorInv, Types, Frontiers
  <2>3. \A c \in Compactors : Covered(p, front[c][p]) /\ front[c][p] \in 0..MaxRecords
    BY Zenon DEF CompactorInv, Types, Frontiers, Compactor, Claims
  <2> QED BY <2>1, <2>2, <2>3, Zenon
<1> QED BY <1>1, Invariant, PTL

\* The logs compactors implement the hand-over their readers rely on: a listed
\* record stays listed, and the frontier object covers listed records only.
THEOREM Refinement == Spec => ImplementsHandover
<1>1. Init => Handover!HandoverInit
  BY Zenon DEF Init, None, Handover!HandoverInit, Handover!Zero, Safe, RowsOf, Deleted
<1>2. CompactorInv /\ CompactorInv' /\ [Next]_vars
        => [Handover!HandoverNext]_(Handover!handover)
  BY RefinementStep, Zenon
<1> QED
  BY <1>1, <1>2, Invariant, PTL DEF Spec, ImplementsHandover, Handover!HandoverSpec
=============================================================================
