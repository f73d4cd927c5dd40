--------------------------- MODULE WalGroupProofs ---------------------------
(***************************************************************************)
(* TLAPS proofs about WalGroup, for any members, partitions and bounds:    *)
(* what the group has committed is published, commits only advance, a      *)
(* buffer is the range its key will name, and a ready gate means that the  *)
(* catch-up is durable.                                                    *)
(***************************************************************************)
EXTENDS WalGroup, SequenceTheorems, TLAPS

Types ==
    /\ end \in [Partitions -> Nat] /\ committed \in [Partitions -> Nat]
    /\ generation \in Nat
    /\ joined \in [Members -> Nat]
    /\ assigned \in [Members -> SUBSET Partitions]
    /\ position \in [Members -> [Partitions -> Nat]]
    /\ buffer \in [Members -> [Partitions -> Seq(Nat)]]
    /\ goal \in [Members -> [Partitions -> Nat]]
    /\ gate \in [Members -> BOOLEAN] /\ caughtUp \in [Members -> BOOLEAN]
    /\ rewound \in [Members -> BOOLEAN]
    /\ DOMAIN pc = Members /\ DOMAIN unapplied = Members

\* The offsets from one up to another, in order.
Run(from, to) == [i \in 1..(to - from) |-> from + i - 1]

Current(m) == joined[m] = generation

\* What m holds: as long as no rebalance has overtaken m, its partitions are its
\* own, and what it has read past the commit is in its buffer or published.
Holds(m) ==
    /\ joined[m] <= generation
    /\ pc[m] = "down" => assigned[m] = {}
    /\ \A p \in Partitions :
          p \notin assigned[m] \/ pc[m] \notin {"poll", "write"} => buffer[m][p] = <<>>
    /\ Current(m) => \A p \in assigned[m] :
          /\ owner[p] = m /\ committed[p] <= position[m][p]
          /\ pc[m] \in {"poll", "write"} => buffer[m][p] = Run(committed[p], position[m][p])
          /\ pc[m] = "commit" => committed[p]..(position[m][p] - 1) \subseteq published[p]

\* What the flags of the watch stand for.
Watches(m) ==
    /\ \A p \in Partitions : goal[m][p] <= end[p]
    /\ unapplied[m] = "none" => \A p \in Partitions : buffer[m][p] = <<>>
    /\ caughtUp[m] /\ ~rewound[m] => \A p \in assigned[m] : goal[m][p] <= position[m][p]
    /\ gate[m] /\ ~rewound[m] => CaughtUpTo(m, goal[m])

\* The inductive invariant.
GroupInv ==
    /\ Types
    /\ CommittedPublished
    /\ \A m \in Members : Holds(m) /\ Watches(m)
-----------------------------------------------------------------------------
\* A run is a sequence of its offsets.
LEMMA RunProperties ==
    ASSUME NEW from \in Nat, NEW to \in Nat, from <= to
    PROVE  /\ Run(from, to) \in Seq(Nat) /\ Len(Run(from, to)) = to - from
           /\ Range(Run(from, to)) = from..(to - 1)
           /\ from = to <=> Run(from, to) = <<>>
<1>1. to - from \in Nat /\ \A i \in 1..(to - from) : from + i - 1 \in Nat
  OBVIOUS
<1>2. Run(from, to) \in Seq(Nat) /\ Len(Run(from, to)) = to - from
      /\ DOMAIN Run(from, to) = 1..(to - from)
  BY <1>1 DEF Run
<1>3. \A i \in 1..(to - from) : Run(from, to)[i] \in from..(to - 1)
  BY <1>1 DEF Run
<1>4. ASSUME NEW o \in from..(to - 1)  PROVE \E i \in 1..(to - from) : Run(from, to)[i] = o
  <2>1. o - from + 1 \in 1..(to - from) /\ from + (o - from + 1) - 1 = o
    OBVIOUS
  <2> QED BY <2>1, Zenon DEF Run
<1>5. Range(Run(from, to)) = from..(to - 1)
  BY <1>2, <1>3, <1>4, Zenon DEF Range
<1>6. from = to <=> Run(from, to) = <<>>
  BY <1>2
<1> QED BY <1>2, <1>5, <1>6, Zenon

\* A run that ends where it starts is empty.
LEMMA EmptyRun == ASSUME NEW n \in Nat PROVE Run(n, n) = <<>>
<1>1. n <= n
  OBVIOUS
<1> QED BY <1>1, RunProperties, Zenon

\* A run that goes on where another ends makes one run of both.
LEMMA RunsJoin ==
    ASSUME NEW a \in Nat, NEW b \in Nat, NEW c \in Nat, a <= b, b <= c
    PROVE  Run(a, b) \o Run(b, c) = Run(a, c)
<1>1. /\ Run(a, b) \in Seq(Nat) /\ Len(Run(a, b)) = b - a
      /\ Run(b, c) \in Seq(Nat) /\ Len(Run(b, c)) = c - b
      /\ Run(a, c) \in Seq(Nat) /\ Len(Run(a, c)) = c - a
  <2>1. a <= c
    OBVIOUS
  <2>2. Run(a, b) \in Seq(Nat) /\ Len(Run(a, b)) = b - a
    BY RunProperties, Zenon
  <2>3. Run(b, c) \in Seq(Nat) /\ Len(Run(b, c)) = c - b
    BY RunProperties, Zenon
  <2>4. Run(a, c) \in Seq(Nat) /\ Len(Run(a, c)) = c - a
    BY <2>1, RunProperties, Zenon
  <2> QED BY <2>2, <2>3, <2>4, Zenon
<1>2. /\ Run(a, b) \o Run(b, c) \in Seq(Nat) /\ Len(Run(a, b) \o Run(b, c)) = c - a
      /\ \A i \in 1..(c - a) : (Run(a, b) \o Run(b, c))[i] =
            IF i <= b - a THEN Run(a, b)[i] ELSE Run(b, c)[i - (b - a)]
  <2> DEFINE s == Run(a, b)
             t == Run(b, c)
  <2>1. (b - a) + (c - b) = c - a
    OBVIOUS
  <2>2. s \in Seq(Nat) /\ t \in Seq(Nat) /\ Len(s) = b - a /\ Len(s) + Len(t) = c - a
    BY <1>1, <2>1, Zenon
  <2> HIDE DEF s, t
  <2>3. /\ s \o t \in Seq(Nat) /\ Len(s \o t) = Len(s) + Len(t)
        /\ \A i \in 1..Len(s) + Len(t) :
              (s \o t)[i] = IF i <= Len(s) THEN s[i] ELSE t[i - Len(s)]
    BY <2>2, ConcatProperties, Zenon
  <2> QED BY <2>2, <2>3, ZenonT(60) DEF s, t
<1>3. ASSUME NEW i \in 1..(c - a)  PROVE (Run(a, b) \o Run(b, c))[i] = Run(a, c)[i]
  <2>1. Run(a, c)[i] = a + i - 1
    BY Zenon DEF Run
  <2>2. CASE i <= b - a
    <3>1. Run(a, b)[i] = a + i - 1
      BY <2>2 DEF Run
    <3> QED BY <1>2, <2>1, <2>2, <3>1, Zenon
  <2>3. CASE ~(i <= b - a)
    <3>1. i - (b - a) \in 1..(c - b) /\ b + (i - (b - a)) - 1 = a + i - 1
      BY <2>3
    <3>2. Run(b, c)[i - (b - a)] = a + i - 1
      BY <3>1, Zenon DEF Run
    <3> QED BY <1>2, <2>1, <2>3, <3>2, Zenon
  <2> QED BY <2>2, <2>3, Zenon
<1> QED BY <1>1, <1>2, <1>3, SeqEqual, Zenon
-----------------------------------------------------------------------------
\* A member that does not step keeps its part, while blocks are only added, the
\* log only grows and nobody commits the partitions of a current member.
LEMMA OthersStay ==
    ASSUME NEW n \in Members, Types, Holds(n), Watches(n),
           UNCHANGED <<pc[n], joined[n], assigned[n], position[n], buffer[n], gate[n],
                       unapplied[n], caughtUp[n], goal[n], rewound[n], generation, owner>>,
           \A p \in Partitions : published[p] \subseteq published'[p],
           \A p \in Partitions : end'[p] \in Nat /\ end[p] <= end'[p],
           Current(n) => \A p \in assigned[n] : committed'[p] = committed[p]
    PROVE  Holds(n)' /\ Watches(n)'
<1>1. assigned[n] \subseteq Partitions
  BY Zenon DEF Types
<1>2. Holds(n)'
  <2>1. ASSUME Current(n)', NEW p \in assigned'[n]
        PROVE  /\ owner'[p] = n /\ committed'[p] <= position'[n][p]
               /\ pc'[n] \in {"poll", "write"} =>
                     buffer'[n][p] = Run(committed'[p], position'[n][p])
               /\ pc'[n] = "commit" => committed'[p]..(position'[n][p] - 1) \subseteq published'[p]
    <3>1. Current(n) /\ p \in assigned[n] /\ p \in Partitions
      BY <1>1, <2>1, Zenon DEF Current
    <3>2. committed'[p] = committed[p] /\ published[p] \subseteq published'[p]
      BY <3>1, Zenon
    <3> QED BY <3>1, <3>2, Zenon DEF Holds
  <2> QED BY <2>1, Zenon DEF Holds, Current, Run
<1>3. \A p \in Partitions : goal'[n][p] <= end'[p]
  BY DEF Types, Watches
<1>4. Watches(n)'
  BY <1>1, <1>3, Zenon DEF Watches, CaughtUpTo
<1> QED BY <1>2, <1>4, Zenon

\* What a poll leaves in the flags of the watch.
LEMMA ObserveFacts ==
    ASSUME Types, NEW m \in Members, NEW pos, NEW has \in BOOLEAN, Observe(m, pos, has)
    PROVE  /\ unapplied'[m] = "none" =>
                /\ ~has
                /\ unapplied[m] = "none" \/ \A p \in Mine(m) : committed[p] >= end[p]
           /\ caughtUp'[m] => \/ caughtUp[m] /\ Mine(m) = assigned[m]
                              \/ \A p \in Mine(m) : pos[p] >= end[p]
           /\ gate'[m] => \/ gate[m] /\ Mine(m) = assigned[m]
                          \/ \A p \in Mine(m) : committed[p] >= end[p]
                          \/ /\ ~has /\ unapplied[m] = "none"
                             /\ \A p \in Mine(m) : pos[p] >= end[p]
           /\ goal'[m] = IF Mine(m) # assigned[m] THEN end ELSE goal[m]
           /\ ~rewound'[m] => \/ Mine(m) # assigned[m]
                              \/ ~rewound[m] /\ ~(Rejoins(m) /\ caughtUp[m])
<1> DEFINE mine == Mine(m)
           changed == mine # assigned[m]
           atEnd == mine # {} /\ \A p \in mine : pos[p] >= end[p]
           wasReady == gate[m] /\ ~changed
           owed == IF unapplied[m] = "held" /\ ~(assigned[m] \subseteq mine)
                   THEN "fenced" ELSE unapplied[m]
           settled == ~wasReady /\ Settled(m, owed, has)
           left == CASE has -> "held" [] settled -> "none" [] OTHER -> owed
           pending == (caughtUp[m] /\ ~changed) \/ (atEnd /\ (has \/ owed # "none"))
<1>1. /\ unapplied'[m] = left
      /\ caughtUp'[m] = pending
      /\ gate'[m] = (wasReady \/ ((atEnd \/ settled) /\ NothingOwed(left)))
      /\ goal'[m] = IF changed THEN end ELSE goal[m]
      /\ rewound'[m] = IF changed THEN FALSE ELSE rewound[m] \/ (Rejoins(m) /\ caughtUp[m])
  BY Zenon DEF Types, Observe
<1>2. owed = "none" => unapplied[m] = "none"
  BY Zenon
<1>3. settled => ~has /\ \A p \in mine : committed[p] >= end[p]
  BY Zenon DEF Settled
<1> HIDE DEF owed, settled
<1>4. left = "none" => ~has /\ (settled \/ owed = "none")
  <2>1. CASE has
    BY <1>3, <2>1, Zenon
  <2>2. CASE ~has /\ settled
    BY <2>2, Zenon
  <2>3. CASE ~has /\ ~settled
    BY <2>3, Zenon
  <2> QED BY <2>1, <2>2, <2>3, Zenon
<1> HIDE DEF left, mine
<1>5. gate'[m] => wasReady \/ ((atEnd \/ settled) /\ left = "none")
  BY <1>1, Zenon DEF NothingOwed
<1>6. ~rewound'[m] => changed \/ (~rewound[m] /\ ~(Rejoins(m) /\ caughtUp[m]))
  BY <1>1, Zenon
<1> QED BY <1>1, <1>2, <1>3, <1>4, <1>5, <1>6, Zenon DEF mine

\* A poll, with or without a rebalance to apply, keeps the polling member's part.
LEMMA PollStep ==
    ASSUME GroupInv, NEW m \in Members, Poll(m)
    PROVE  /\ position'[m] \in [Partitions -> Nat]
           /\ buffer'[m] \in [Partitions -> Seq(Nat)]
           /\ goal'[m] \in [Partitions -> Nat]
           /\ Holds(m)' /\ Watches(m)'
<1>1. PICK pos \in [Partitions -> 0..MaxRecords] :
        /\ \A p \in Partitions :
              IF p \in Mine(m) THEN pos[p] \in Resume(m, p)..end[p] ELSE pos[p] = 0
        /\ position' = [position EXCEPT ![m] = pos]
        /\ buffer' = [buffer EXCEPT ![m] = [p \in Partitions |->
              IF p \in Mine(m)
              THEN Kept(m, p) \o Run(Resume(m, p), pos[p])
              ELSE Kept(m, p)]]
        /\ Observe(m, pos, \E p \in Mine(m) : pos[p] > Resume(m, p))
  BY Zenon DEF Poll, Run
<1> DEFINE has == \E p \in Mine(m) : pos[p] > Resume(m, p)
<1>2. Types /\ Holds(m) /\ Watches(m) /\ CommittedPublished /\ pc[m] = "poll"
  BY Zenon DEF GroupInv, Poll
<1>3. /\ UNCHANGED <<broker, pc>> /\ assigned'[m] = Mine(m) /\ joined'[m] = generation
      /\ Mine(m) \subseteq Partitions /\ position'[m] = pos /\ pos \in [Partitions -> Nat]
      /\ \A p \in Mine(m) : owner[p] = m
  <2>1. pos \in [Partitions -> Nat]
    OBVIOUS
  <2>2. Mine(m) \subseteq Partitions /\ \A p \in Mine(m) : owner[p] = m
    BY <1>2, Zenon DEF Types, Mine, Rejoins, Holds, Current
  <2> QED BY <1>1, <1>2, <2>1, <2>2, Zenon DEF Types, Poll
<1>4. \A p \in Partitions : Resume(m, p) \in Nat
  BY <1>2, Zenon DEF Types, Resume
<1>5. \A p \in Mine(m) : /\ committed[p] \in Nat /\ pos[p] \in Nat /\ end[p] \in Nat
                         /\ committed[p] <= Resume(m, p) /\ Resume(m, p) <= pos[p]
                         /\ pos[p] <= end[p]
                         /\ Kept(m, p) = Run(committed[p], Resume(m, p))
  <2> SUFFICES ASSUME NEW p \in Mine(m)
               PROVE  /\ committed[p] \in Nat /\ pos[p] \in Nat /\ end[p] \in Nat
                      /\ committed[p] <= Resume(m, p) /\ Resume(m, p) <= pos[p]
                      /\ pos[p] <= end[p]
                      /\ Kept(m, p) = Run(committed[p], Resume(m, p))
    BY Zenon
  <2>1. p \in Partitions /\ committed[p] \in Nat /\ end[p] \in Nat /\ pos[p] \in Nat
    BY <1>2, <1>3, Zenon DEF Types
  <2>2. Resume(m, p) <= pos[p] /\ pos[p] <= end[p]
    BY <1>1, <1>4, <2>1
  <2>3. CASE Rejoins(m)
    <3>1. Resume(m, p) = committed[p] /\ Kept(m, p) = <<>>
      BY <1>2, <2>1, <2>3, Zenon DEF Resume, Kept, Holds
    <3>2. Run(committed[p], committed[p]) = <<>>
      BY <2>1, EmptyRun, Zenon
    <3> QED BY <2>1, <2>2, <3>1, <3>2
  <2>4. CASE ~Rejoins(m)
    <3>1. /\ Resume(m, p) = position[m][p] /\ Kept(m, p) = buffer[m][p]
          /\ p \in assigned[m] /\ Current(m)
      BY <2>4, Zenon DEF Resume, Kept, Rejoins, Current, Mine
    <3> QED BY <1>2, <2>1, <2>2, <3>1, Zenon DEF Holds
  <2> QED BY <2>3, <2>4, Zenon
<1>6. \A p \in Partitions : p \notin Mine(m) => Kept(m, p) = <<>>
  BY <1>2, Zenon DEF Kept, Mine, Rejoins, Holds
<1>7. \A p \in Partitions : buffer'[m][p] =
        IF p \in Mine(m) THEN Run(committed[p], pos[p]) ELSE <<>>
  <2> SUFFICES ASSUME NEW p \in Partitions
               PROVE  buffer'[m][p] = IF p \in Mine(m) THEN Run(committed[p], pos[p]) ELSE <<>>
    BY Zenon
  <2>1. buffer'[m][p] = IF p \in Mine(m) THEN Kept(m, p) \o Run(Resume(m, p), pos[p])
                                         ELSE Kept(m, p)
    BY <1>1, <1>2, Zenon DEF Types
  <2>2. CASE p \in Mine(m)
    <3>1. /\ committed[p] \in Nat /\ Resume(m, p) \in Nat /\ pos[p] \in Nat
          /\ committed[p] <= Resume(m, p) /\ Resume(m, p) <= pos[p]
          /\ Kept(m, p) = Run(committed[p], Resume(m, p))
      BY <1>4, <1>5, <2>2, Zenon
    <3>2. Run(committed[p], Resume(m, p)) \o Run(Resume(m, p), pos[p]) = Run(committed[p], pos[p])
      BY <3>1, RunsJoin, Zenon
    <3> QED BY <2>1, <2>2, <3>1, <3>2, Zenon
  <2>3. CASE p \notin Mine(m)
    BY <1>6, <2>1, <2>3, Zenon
  <2> QED BY <2>2, <2>3, Zenon
<1>8. /\ unapplied'[m] = "none" =>
            ~has /\ (unapplied[m] = "none" \/ \A p \in Mine(m) : committed[p] >= end[p])
      /\ caughtUp'[m] => \/ caughtUp[m] /\ Mine(m) = assigned[m]
                         \/ \A p \in Mine(m) : pos[p] >= end[p]
      /\ gate'[m] => \/ gate[m] /\ Mine(m) = assigned[m]
                     \/ \A p \in Mine(m) : committed[p] >= end[p]
                     \/ ~has /\ unapplied[m] = "none" /\ \A p \in Mine(m) : pos[p] >= end[p]
      /\ goal'[m] = IF Mine(m) # assigned[m] THEN end ELSE goal[m]
      /\ ~rewound'[m] => \/ Mine(m) # assigned[m]
                         \/ ~rewound[m] /\ ~(Rejoins(m) /\ caughtUp[m])
  <2>1. has \in BOOLEAN
    BY Zenon
  <2>2. Observe(m, pos, has)
    BY <1>1, Zenon
  <2> HIDE DEF has
  <2> QED BY <1>2, <2>1, <2>2, ObserveFacts, Zenon
<1>9. goal'[m] \in [Partitions -> Nat] /\ \A p \in Partitions : goal'[m][p] <= end[p]
  BY <1>2, <1>8 DEF Types, Watches
<1>10. ASSUME ~has, unapplied[m] = "none", NEW p \in Mine(m)  PROVE pos[p] = committed[p]
  <2>1. pos[p] = Resume(m, p) /\ p \in Partitions /\ Resume(m, p) \in Nat
    BY <1>3, <1>4, <1>5, <1>10
  <2>2. Kept(m, p) = <<>>
    BY <1>2, <1>10, <2>1, Zenon DEF Kept, Watches
  <2>3. Run(committed[p], Resume(m, p)) = <<>> /\ committed[p] <= Resume(m, p)
    BY <1>5, <2>2, Zenon
  <2>4. committed[p] \in Nat
    BY <1>5, Zenon
  <2> QED BY <2>1, <2>3, <2>4, RunProperties, Zenon
<1> HIDE DEF has
<1>11. Holds(m)'
  <2>1. \A p \in Partitions : p \notin assigned'[m] => buffer'[m][p] = <<>>
    BY <1>3, <1>7, Zenon
  <2>2. \A p \in assigned'[m] : /\ owner'[p] = m /\ committed'[p] <= position'[m][p]
                                /\ buffer'[m][p] = Run(committed'[p], position'[m][p])
    <3> SUFFICES ASSUME NEW p \in Mine(m)
                 PROVE  /\ owner[p] = m /\ committed[p] <= pos[p]
                        /\ buffer'[m][p] = Run(committed[p], pos[p])
      BY <1>3, Zenon DEF broker
    <3>1. committed[p] <= pos[p]
      BY <1>3, <1>4, <1>5
    <3> QED BY <1>3, <1>7, <3>1, Zenon
  <2>3. pc'[m] = "poll" /\ joined'[m] <= generation'
    BY <1>2, <1>3 DEF broker, Types
  <2> QED BY <2>1, <2>2, <2>3, Zenon DEF Holds, Run
<1>12. ASSUME unapplied'[m] = "none", NEW p \in Partitions  PROVE buffer'[m][p] = <<>>
  <2>1. CASE p \notin Mine(m)
    BY <1>7, <2>1, Zenon
  <2>2. CASE p \in Mine(m)
    <3>1. pos[p] = committed[p] /\ committed[p] \in Nat
      BY <1>4, <1>5, <1>8, <1>10, <1>12, <2>2
    <3> QED BY <1>7, <2>2, <3>1, EmptyRun, Zenon
  <2> QED BY <2>1, <2>2, Zenon
<1>13. ASSUME caughtUp'[m], ~rewound'[m], NEW p \in Mine(m)  PROVE goal'[m][p] <= pos[p]
  <2>1. p \in Partitions /\ end[p] \in Nat /\ pos[p] \in Nat /\ goal'[m][p] \in Nat
    BY <1>3, <1>5, <1>9, Zenon
  <2>2. CASE pos[p] >= end[p]
    BY <1>9, <2>1, <2>2
  <2>3. CASE caughtUp[m] /\ Mine(m) = assigned[m]
    <3>1. ~rewound[m] /\ ~Rejoins(m) /\ goal'[m] = goal[m]
      BY <1>8, <1>13, <2>3, Zenon
    <3>2. goal[m][p] <= position[m][p] /\ Resume(m, p) = position[m][p]
      BY <1>2, <2>3, <3>1, Zenon DEF Watches, Resume
    <3> QED BY <1>4, <1>5, <2>1, <3>1, <3>2
  <2> QED BY <1>8, <1>13, <2>2, <2>3, Zenon
<1>14. ASSUME gate'[m], ~rewound'[m], NEW p \in Mine(m)
       PROVE  0..(goal'[m][p] - 1) \subseteq published[p]
  <2>1. p \in Partitions /\ end[p] \in Nat /\ committed[p] \in Nat /\ goal'[m][p] \in Nat
    BY <1>3, <1>5, <1>9, Zenon
  <2>2. CASE committed[p] >= end[p]
    <3>1. 0..(committed[p] - 1) \subseteq published[p] /\ goal'[m][p] <= committed[p]
      BY <1>2, <1>9, <2>1, <2>2 DEF CommittedPublished
    <3> QED BY <2>1, <3>1
  <2>3. CASE gate[m] /\ Mine(m) = assigned[m]
    BY <1>2, <1>8, <1>14, <2>3, Zenon DEF Watches, CaughtUpTo
  <2>4. CASE ~has /\ unapplied[m] = "none" /\ pos[p] >= end[p]
    BY <1>10, <2>2, <2>4, Zenon
  <2> QED BY <1>8, <1>14, <2>2, <2>3, <2>4, Zenon
<1>15. Watches(m)'
  BY <1>3, <1>9, <1>12, <1>13, <1>14, Zenon DEF Watches, CaughtUpTo, broker
<1>16. buffer'[m] \in [Partitions -> Seq(Nat)]
  <2>1. \A p \in Partitions : buffer'[m][p] \in Seq(Nat)
    <3> SUFFICES ASSUME NEW p \in Partitions  PROVE buffer'[m][p] \in Seq(Nat)
      BY Zenon
    <3>1. CASE p \in Mine(m)
      <4>1. committed[p] <= pos[p] /\ committed[p] \in Nat /\ pos[p] \in Nat
        BY <1>4, <1>5, <3>1
      <4> QED BY <1>7, <3>1, <4>1, RunProperties, Zenon
    <3>2. CASE p \notin Mine(m)
      <4>1. buffer'[m][p] = <<>>
        BY <1>7, <3>2, Zenon
      <4> QED BY <4>1
    <3> QED BY <3>1, <3>2, Zenon
  <2>2. buffer'[m] = [p \in Partitions |-> buffer'[m][p]]
    BY <1>1, <1>2, Zenon DEF Types
  <2> QED BY <2>1, <2>2, Zenon
<1> QED BY <1>3, <1>9, <1>11, <1>15, <1>16, Zenon

\* A flush publishes what the buffer held, which is all between the commit and
\* the position of a current member.
LEMMA FlushStep ==
    ASSUME GroupInv, NEW m \in Members, FlushWindows(m)
    PROVE  /\ \A p \in Partitions : published[p] \subseteq published'[p]
           /\ Holds(m)' /\ Watches(m)'
<1>1. /\ Types /\ Holds(m) /\ Watches(m) /\ pc[m] = "write" /\ pc'[m] = "commit"
      /\ assigned[m] \subseteq Partitions
      /\ \A p \in Partitions : buffer'[m][p] = <<>>
      /\ UNCHANGED <<end, committed, owner, generation, joined, assigned, position, watch>>
  BY Zenon DEF GroupInv, Types, FlushWindows, Goto, Nothing
<1>2. \A p \in Partitions : published'[p] = published[p] \cup Range(buffer[m][p])
  BY Zenon DEF FlushWindows
<1>3. ASSUME Current(m), NEW p \in assigned[m]
      PROVE  committed[p]..(position[m][p] - 1) \subseteq published'[p]
  <2>1. /\ committed[p] \in Nat /\ position[m][p] \in Nat /\ p \in Partitions
        /\ committed[p] <= position[m][p]
        /\ buffer[m][p] = Run(committed[p], position[m][p])
    BY <1>1, <1>3, ZenonT(60) DEF Types, Holds
  <2>2. Range(buffer[m][p]) = committed[p]..(position[m][p] - 1)
    <3>1. PICK from \in Nat, to \in Nat : from = committed[p] /\ to = position[m][p]
      BY <2>1, Zenon
    <3>2. Range(Run(from, to)) = from..(to - 1)
      BY <2>1, <3>1, RunProperties, Zenon
    <3> QED BY <2>1, <3>1, <3>2, Zenon
  <2> QED BY <1>2, <2>1, <2>2, Zenon
<1>4. Holds(m)'
  BY <1>1, <1>3, Zenon DEF Holds, Current
<1>5. Watches(m)'
  BY <1>1, <1>2, Zenon DEF Watches, CaughtUpTo, watch
<1> QED BY <1>2, <1>4, <1>5, Zenon

\* A commit that is not fenced covers published records only, and takes no offset
\* back.
LEMMA CommitStep ==
    ASSUME GroupInv, NEW m \in Members, CommitSync(m)
    PROVE  /\ committed' \in [Partitions -> Nat] /\ CommittedPublished'
           /\ \A p \in Partitions : committed'[p] >= committed[p]
           /\ Holds(m)' /\ Watches(m)'
<1>1. /\ Types /\ CommittedPublished /\ Holds(m) /\ Watches(m) /\ Current(m)
      /\ pc[m] = "commit" /\ pc'[m] = "poll" /\ assigned[m] \subseteq Partitions
      /\ UNCHANGED <<end, published, owner, generation, reader, goal, rewound>>
  BY Zenon DEF GroupInv, Types, CommitSync, Goto, Fenced, Current, Applied
<1>2. \A p \in Partitions :
        committed'[p] = IF p \in assigned[m] THEN position[m][p] ELSE committed[p]
  BY Zenon DEF CommitSync
<1>3. \A p \in assigned[m] : /\ committed[p] <= position[m][p] /\ owner[p] = m
                             /\ committed[p]..(position[m][p] - 1) \subseteq published[p]
  BY <1>1, Zenon DEF Holds
<1>4. committed' \in [Partitions -> Nat] /\ \A p \in Partitions : committed'[p] >= committed[p]
  <2>1. \A p \in Partitions : committed[p] \in Nat /\ position[m][p] \in Nat
    BY <1>1, Zenon DEF Types
  <2> QED BY <1>2, <1>3, <2>1 DEF CommitSync
<1>5. \A p \in Partitions : 0..(committed'[p] - 1) \subseteq published[p]
  <2> SUFFICES ASSUME NEW p \in Partitions, NEW o \in 0..(committed'[p] - 1)
               PROVE  o \in published[p]
    BY Zenon
  <2>1. committed[p] \in Nat /\ position[m][p] \in Nat /\ 0..(committed[p] - 1) \subseteq published[p]
    BY <1>1, Zenon DEF Types, CommittedPublished
  <2>2. o \in 0..(committed[p] - 1) \/ (p \in assigned[m] /\ o \in committed[p]..(position[m][p] - 1))
    BY <1>2, <2>1
  <2> QED BY <1>3, <2>1, <2>2, Zenon
<1>6. CommittedPublished'
  BY <1>1, <1>5, Zenon DEF CommittedPublished
<1>7. \A p \in Partitions : buffer'[m][p] = <<>>
  BY <1>1, Zenon DEF Holds, reader
<1>8. Holds(m)'
  <2>1. ASSUME NEW p \in assigned[m]
        PROVE  committed'[p] <= position[m][p] /\ buffer'[m][p] = Run(committed'[p], position[m][p])
    <3>1. p \in Partitions /\ committed'[p] = position[m][p] /\ position[m][p] \in Nat
      BY <1>1, <1>2, ZenonT(60) DEF Types
    <3> QED BY <1>7, <3>1, EmptyRun
  <2> QED BY <1>1, <1>3, <1>7, <2>1, Zenon DEF Holds, Current, reader, Run
<1>9. ASSUME gate'[m], ~rewound[m], NEW p \in assigned[m]
      PROVE  0..(goal[m][p] - 1) \subseteq published[p]
  <2>1. gate[m] \/ caughtUp[m] \/ position[m][p] >= end[p]
    BY <1>1, <1>9, Zenon DEF CommitSync, Applied, Types
  <2>2. /\ p \in Partitions /\ position[m][p] \in Nat /\ end[p] \in Nat /\ goal[m][p] \in Nat
        /\ goal[m][p] <= end[p]
    BY <1>1, Zenon DEF Types, Watches
  <2>3. CASE gate[m]
    BY <1>1, <1>9, <2>3, Zenon DEF Watches, CaughtUpTo
  <2>4. CASE goal[m][p] <= position[m][p]
    BY <1>2, <1>5, <2>2, <2>4
  <2>5. CASE caughtUp[m]
    BY <1>1, <1>9, <2>4, <2>5, Zenon DEF Watches
  <2>6. CASE position[m][p] >= end[p]
    BY <2>2, <2>4, <2>6
  <2> QED BY <2>1, <2>3, <2>5, <2>6, Zenon
<1>10. ~caughtUp'[m]
  BY <1>1, Zenon DEF CommitSync, Applied, Types
<1>11. Watches(m)'
  BY <1>1, <1>7, <1>9, <1>10, Zenon DEF Watches, CaughtUpTo, reader
<1> QED BY <1>4, <1>6, <1>8, <1>11, Zenon

\* Draining the accumulator, stopping and starting again.
LEMMA QuietStep ==
    ASSUME GroupInv, NEW m \in Members,
           TakeWindows(m) \/ CommitRefused(m) \/ Crash(m) \/ Restart(m)
    PROVE  Holds(m)' /\ Watches(m)'
<1>1. Types /\ Holds(m) /\ Watches(m)
  BY Zenon DEF GroupInv
<1>2. CASE TakeWindows(m) \/ Restart(m)
  <2>1. /\ UNCHANGED <<broker, reader, watch>> /\ pc'[m] \in {"poll", "write"}
        /\ pc[m] \in {"poll", "down"}
    BY <1>1, <1>2, Zenon DEF TakeWindows, Restart, Goto, Types
  <2>2. Holds(m)'
    <3>1. CASE pc[m] = "poll"
      BY <1>1, <2>1, <3>1, ZenonT(60) DEF Holds, Current, reader, broker, Run
    <3>2. CASE pc[m] = "down"
      BY <1>1, <2>1, <3>2, Zenon DEF Holds, reader, broker
    <3> QED BY <2>1, <3>1, <3>2, Zenon
  <2>3. Watches(m)'
    BY <1>1, <2>1, Zenon DEF Watches, CaughtUpTo, reader, broker, watch
  <2> QED BY <2>2, <2>3, Zenon
<1>3. CASE CommitRefused(m) \/ Crash(m)
  <2>1. /\ UNCHANGED <<end, generation>>
        /\ pc'[m] = "down" /\ joined'[m] = 0 /\ assigned'[m] = {} /\ buffer'[m] = Nothing
        /\ gate'[m] = FALSE /\ caughtUp'[m] = FALSE /\ goal'[m] = Zero
    <3>1. CASE CommitRefused(m)
      BY <1>1, <3>1, Zenon DEF CommitRefused, Stop, Goto, Types, broker
    <3>2. CASE Crash(m)
      BY <1>1, <3>2, Zenon DEF Crash, Stop, Goto, Types, broker
    <3> QED BY <1>3, <3>1, <3>2, Zenon
  <2>2. \A p \in Partitions : buffer'[m][p] = <<>> /\ goal'[m][p] = 0
    BY <2>1, Zenon DEF Nothing, Zero
  <2>3. generation \in Nat /\ \A p \in Partitions : end[p] \in Nat
    BY <1>1, Zenon DEF Types
  <2>4. joined'[m] <= generation' /\ \A p \in Partitions : goal'[m][p] <= end'[p]
    BY <2>1, <2>2, <2>3
  <2>5. Holds(m)'
    BY <2>1, <2>2, <2>4, Zenon DEF Holds
  <2>6. Watches(m)'
    BY <2>1, <2>2, <2>4, Zenon DEF Watches
  <2> QED BY <2>5, <2>6, Zenon
<1> QED BY <1>2, <1>3, Zenon

\* A member's step changes entries of that member only.
LEMMA OwnEntries ==
    ASSUME Types, NEW m \in Members, MemberStep(m) \/ Crash(m), NEW n \in Members, n # m
    PROVE  UNCHANGED <<pc[n], joined[n], assigned[n], position[n], buffer[n], gate[n],
                       unapplied[n], caughtUp[n], goal[n], rewound[n]>>
<1>1. CASE Poll(m)
  BY <1>1 DEF Poll, Observe, Types
<1>2. CASE TakeWindows(m) \/ Restart(m)
  BY <1>2, Zenon DEF TakeWindows, Restart, Goto, Types, reader, watch
<1>3. CASE FlushWindows(m)
  BY <1>3, Zenon DEF FlushWindows, Goto, Types, watch
<1>4. CASE CommitSync(m)
  BY <1>4, Zenon DEF CommitSync, Applied, Goto, Types, reader
<1>5. CASE CommitRefused(m) \/ Crash(m)
  <2>1. CASE CommitRefused(m)
    BY <2>1, Zenon DEF CommitRefused, Stop, Goto, Types
  <2>2. CASE Crash(m)
    BY <2>2, Zenon DEF Crash, Stop, Goto, Types
  <2> QED BY <1>5, <2>1, <2>2, Zenon
<1> QED BY <1>1, <1>2, <1>3, <1>4, <1>5, Zenon DEF MemberStep

\* A member's step keeps every value in its type.
LEMMA TypesStep ==
    ASSUME GroupInv, NEW m \in Members, MemberStep(m) \/ Crash(m)
    PROVE  Types'
<1>1. Types
  BY Zenon DEF GroupInv
<1>2. CASE Poll(m)
  <2>1. /\ position'[m] \in [Partitions -> Nat] /\ buffer'[m] \in [Partitions -> Seq(Nat)]
        /\ goal'[m] \in [Partitions -> Nat]
    BY <1>2, PollStep, Zenon
  <2>2. /\ UNCHANGED <<broker, pc>>
        /\ assigned' = [assigned EXCEPT ![m] = Mine(m)] /\ Mine(m) \subseteq Partitions
        /\ joined' = [joined EXCEPT ![m] = generation]
        /\ \E x : position' = [position EXCEPT ![m] = x]
        /\ \E x : buffer' = [buffer EXCEPT ![m] = x]
        /\ \E x : goal' = [goal EXCEPT ![m] = x]
        /\ \E x : unapplied' = [unapplied EXCEPT ![m] = x]
    BY <1>1, <1>2, Zenon DEF Poll, Observe, Types, Mine
  <2>3. /\ gate' \in [Members -> BOOLEAN] /\ caughtUp' \in [Members -> BOOLEAN]
        /\ rewound' \in [Members -> BOOLEAN]
    <3>1. gate' \in [Members -> BOOLEAN]
      BY <1>1, <1>2, Zenon DEF Poll, Observe, Types
    <3>2. caughtUp' \in [Members -> BOOLEAN]
      BY <1>1, <1>2, Zenon DEF Poll, Observe, Types
    <3>3. rewound' \in [Members -> BOOLEAN]
      BY <1>1, <1>2, Zenon DEF Poll, Observe, Types
    <3> QED BY <3>1, <3>2, <3>3
  <2> QED BY <1>1, <2>1, <2>2, <2>3, Zenon DEF Types, broker
<1>3. CASE TakeWindows(m) \/ Restart(m)
  BY <1>1, <1>3, Zenon DEF TakeWindows, Restart, Goto, Types, broker, reader, watch
<1>4. CASE FlushWindows(m)
  <2>1. Nothing \in [Partitions -> Seq(Nat)]
    BY DEF Nothing
  <2> QED BY <1>1, <1>4, <2>1, Zenon DEF FlushWindows, Goto, Types, watch
<1>5. CASE CommitSync(m)
  <2>1. committed' \in [Partitions -> Nat]
    BY <1>5, CommitStep, Zenon
  <2>2. gate' \in [Members -> BOOLEAN] /\ caughtUp' \in [Members -> BOOLEAN]
    BY <1>1, <1>5, Zenon DEF CommitSync, Applied, Types
  <2> QED BY <1>1, <1>5, <2>1, <2>2, Zenon DEF CommitSync, Applied, Goto, Types, reader
<1>6. CASE CommitRefused(m) \/ Crash(m)
  <2>1. Nothing \in [Partitions -> Seq(Nat)] /\ Zero \in [Partitions -> Nat]
    BY DEF Nothing, Zero
  <2>2. UNCHANGED <<end, committed, generation>> /\ Stop(m)
    BY <1>6, Zenon DEF CommitRefused, Crash, broker
  <2> QED BY <1>1, <2>1, <2>2, Zenon DEF Stop, Goto, Types
<1> QED BY <1>2, <1>3, <1>4, <1>5, <1>6, Zenon DEF MemberStep
-----------------------------------------------------------------------------
\* Nothing is committed, held or ready in the initial states.
LEMMA InvInit == Init => GroupInv
<1> SUFFICES ASSUME Init  PROVE GroupInv
  BY Zenon
<1>1. /\ Nothing \in [Partitions -> Seq(Nat)] /\ Zero \in [Partitions -> Nat]
      /\ \A p \in Partitions : Nothing[p] = <<>> /\ Zero[p] = 0
  BY DEF Nothing, Zero
<1>2. gate \in [Members -> BOOLEAN] /\ caughtUp \in [Members -> BOOLEAN]
      /\ rewound \in [Members -> BOOLEAN]
  BY Zenon DEF Init
<1>3. Types
  BY <1>1, <1>2, Zenon DEF Init, Types
<1>4. CommittedPublished
  BY <1>1 DEF Init, CommittedPublished
<1>5. ASSUME NEW m \in Members  PROVE Holds(m) /\ Watches(m)
  <2>1. /\ joined[m] = 0 /\ generation = 1 /\ assigned[m] = {} /\ buffer[m] = Nothing
        /\ goal[m] = Zero /\ end = Zero /\ pc[m] = "poll"
    BY Zenon DEF Init
  <2>2. ~gate[m] /\ ~caughtUp[m]
    BY Zenon DEF Init
  <2> QED BY <1>1, <2>1, <2>2 DEF Holds, Current, Watches
<1> QED BY <1>3, <1>4, <1>5, Zenon DEF GroupInv

\* A member's step keeps the invariant, and takes no committed offset back.
LEMMA MemberKeeps ==
    ASSUME GroupInv, NEW m \in Members, MemberStep(m) \/ Crash(m)
    PROVE  GroupInv' /\ \A p \in Partitions : committed'[p] >= committed[p]
<1>1. Types /\ Types' /\ CommittedPublished
  BY TypesStep, Zenon DEF GroupInv
<1>2. /\ Holds(m)' /\ Watches(m)' /\ CommittedPublished'
      /\ \A p \in Partitions : published[p] \subseteq published'[p]
      /\ \A p \in Partitions : committed'[p] >= committed[p]
      /\ \A p \in Partitions : committed'[p] # committed[p] => Current(m) /\ p \in assigned[m]
  <2>0. \A p \in Partitions : committed[p] \in Nat
    BY <1>1, Zenon DEF Types
  <2>1. CASE Poll(m)
    <3>1. UNCHANGED <<committed, published>>
      BY <2>1, Zenon DEF Poll, broker
    <3>2. Holds(m)' /\ Watches(m)'
      BY <2>1, PollStep, Zenon
    <3> QED BY <1>1, <2>0, <3>1, <3>2 DEF CommittedPublished
  <2>2. CASE TakeWindows(m) \/ CommitRefused(m) \/ Crash(m) \/ Restart(m)
    <3>1. UNCHANGED <<committed, published>>
      BY <2>2, Zenon DEF TakeWindows, CommitRefused, Crash, Restart, broker
    <3> QED BY <1>1, <2>0, <2>2, <3>1, QuietStep DEF CommittedPublished
  <2>3. CASE FlushWindows(m)
    <3>1. UNCHANGED committed /\ \A p \in Partitions : published[p] \subseteq published'[p]
      BY <2>3, FlushStep, Zenon DEF FlushWindows
    <3>2. CommittedPublished'
      BY <1>1, <3>1, Zenon DEF CommittedPublished
    <3> QED BY <2>0, <2>3, <3>1, <3>2, FlushStep
  <2>4. CASE CommitSync(m)
    <3>1. UNCHANGED published /\ Current(m)
          /\ \A p \in Partitions : committed'[p] # committed[p] => p \in assigned[m]
      BY <2>4, Zenon DEF CommitSync, Fenced, Current
    <3> QED BY <2>4, <3>1, CommitStep, Zenon
  <2> QED BY <2>1, <2>2, <2>3, <2>4, Zenon DEF MemberStep
<1>3. UNCHANGED <<end, generation, owner>>
  BY Zenon DEF MemberStep, Poll, TakeWindows, FlushWindows, CommitSync, CommitRefused, Restart,
         Crash, broker
<1>4. ASSUME NEW n \in Members, n # m  PROVE Holds(n)' /\ Watches(n)'
  <2>1. Holds(n) /\ Watches(n) /\ Holds(m) /\ assigned[n] \subseteq Partitions
    BY <1>1, Zenon DEF GroupInv, Types
  <2>2. Current(n) => \A p \in assigned[n] : committed'[p] = committed[p]
    BY <1>2, <1>4, <2>1, Zenon DEF Holds
  <2>3. \A p \in Partitions : end'[p] \in Nat /\ end[p] <= end'[p]
    BY <1>1, <1>3 DEF Types
  <2>4. UNCHANGED <<pc[n], joined[n], assigned[n], position[n], buffer[n], gate[n],
                    unapplied[n], caughtUp[n], goal[n], rewound[n]>>
    BY <1>1, <1>4, OwnEntries, Zenon
  <2> QED BY <1>1, <1>2, <1>3, <2>1, <2>2, <2>3, <2>4, OthersStay, Zenon
<1> QED BY <1>1, <1>2, <1>4, Zenon DEF GroupInv

\* Appends and rebalances keep it too: a rebalance overtakes every member.
LEMMA BrokerKeeps ==
    ASSUME GroupInv, (\E p \in Partitions : Produce(p)) \/ Rebalance \/ UNCHANGED vars
    PROVE  GroupInv' /\ UNCHANGED committed
<1>1. Types /\ CommittedPublished
  BY Zenon DEF GroupInv
<1>2. /\ UNCHANGED <<committed, published, pc, reader, watch>>
      /\ end' \in [Partitions -> Nat] /\ generation' \in Nat
      /\ \A p \in Partitions : end[p] <= end'[p]
      /\ UNCHANGED <<generation, owner>> \/ generation' = generation + 1
  <2>1. CASE \E p \in Partitions : Produce(p)
    BY <1>1, <2>1 DEF Produce, Types
  <2>2. CASE Rebalance
    BY <1>1, <2>2 DEF Rebalance, Types
  <2>3. CASE UNCHANGED vars
    BY <1>1, <2>3 DEF vars, reader, watch, Types
  <2> QED BY <2>1, <2>2, <2>3, Zenon
<1>3. Types' /\ CommittedPublished'
  BY <1>1, <1>2, Zenon DEF Types, CommittedPublished, reader, watch
<1>4. ASSUME NEW m \in Members  PROVE Holds(m)' /\ Watches(m)'
  <2>1. Holds(m) /\ Watches(m)
    BY Zenon DEF GroupInv
  <2>2. CASE UNCHANGED <<generation, owner>>
    <3>1. UNCHANGED <<pc[m], joined[m], assigned[m], position[m], buffer[m], gate[m],
                      unapplied[m], caughtUp[m], goal[m], rewound[m], generation, owner>>
      BY <1>2, <2>2, Zenon DEF reader, watch
    <3> QED BY <1>1, <1>2, <2>1, <3>1, OthersStay, Zenon
  <2>3. CASE generation' = generation + 1
    <3>1. joined'[m] <= generation' /\ ~(joined'[m] = generation')
      BY <1>1, <1>2, <2>1, <2>3 DEF Types, Holds, reader
    <3>2. Holds(m)'
      BY <1>2, <2>1, <3>1, Zenon DEF Holds, Current, reader
    <3>3. \A p \in Partitions : goal'[m][p] <= end'[p]
      BY <1>1, <1>2, <2>1 DEF Types, Watches, watch
    <3>4. Watches(m)'
      BY <1>2, <2>1, <3>3, Zenon DEF Watches, CaughtUpTo, reader, watch
    <3> QED BY <3>2, <3>4, Zenon
  <2> QED BY <1>2, <2>2, <2>3, Zenon
<1> QED BY <1>2, <1>3, <1>4, Zenon DEF GroupInv

\* The invariant holds in every reachable state.
THEOREM Invariant == Spec => []GroupInv
<1>1. GroupInv /\ [Next]_vars => GroupInv'
  BY MemberKeeps, BrokerKeeps, Zenon DEF Next
<1> QED BY <1>1, InvInit, PTL DEF Spec

\* commit_sync never passes a record that is not in a published block, through
\* fences, rewinds, refused commits and crashes.
THEOREM CommitsArePublished == Spec => []CommittedPublished
<1>1. GroupInv => CommittedPublished
  BY Zenon DEF GroupInv
<1> QED BY <1>1, Invariant, PTL

\* The accumulator of a member that is not overtaken holds exactly the range its
\* block key will name.
THEOREM BuffersAreRanges == Spec => []BufferIsItsRange
<1>1. GroupInv => BufferIsItsRange
  <2> SUFFICES ASSUME GroupInv, NEW m \in Members, NEW p \in Partitions,
                      joined[m] = generation, pc[m] \in {"poll", "write"}
               PROVE  buffer[m][p] = IF p \in assigned[m]
                                     THEN Run(committed[p], position[m][p]) ELSE <<>>
    BY Zenon DEF BufferIsItsRange, Run
  <2>1. Holds(m)
    BY Zenon DEF GroupInv
  <2> QED BY <2>1, Zenon DEF Holds, Current
<1> QED BY <1>1, Invariant, PTL

\* No commit_sync takes a committed offset back: one of an overtaken member is
\* refused, and a current member resumed at the commit or later.
THEOREM CommitsAdvance == Spec => CommitsOnlyAdvance
<1>1. ASSUME GroupInv, [Next]_vars
      PROVE  [\A p \in Partitions : committed'[p] >= committed[p]]_vars
  <2>1. \A p \in Partitions : committed[p] \in Nat
    BY <1>1, Zenon DEF GroupInv, Types
  <2>2. CASE (\E p \in Partitions : Produce(p)) \/ Rebalance \/ UNCHANGED vars
    BY <1>1, <2>1, <2>2, BrokerKeeps
  <2>3. CASE \E m \in Members : MemberStep(m) \/ Crash(m)
    BY <1>1, <2>3, MemberKeeps, Zenon
  <2> QED BY <1>1, <2>2, <2>3, Zenon DEF Next
<1> QED BY <1>1, Invariant, PTL DEF Spec, CommitsOnlyAdvance

\* A gate that is ready, and was not rewound under caught_up_after_apply, means
\* that everything in the log when it closed is in published blocks.
THEOREM ReadyIsCaughtUp == Spec => []ReadyMeansAppliedUnlessRewound
<1>1. GroupInv => ReadyMeansAppliedUnlessRewound
  BY Zenon DEF GroupInv, Watches, ReadyMeansAppliedUnlessRewound
<1> QED BY <1>1, Invariant, PTL
-----------------------------------------------------------------------------
(* Nothing is beyond the end of the log. *)

Labels == {"poll", "write", "commit", "down"}

\* What m has read exists.
Read(m) ==
    \A p \in Partitions : position[m][p] <= end[p] /\ Range(buffer[m][p]) \subseteq Offsets

WithinLog ==
    /\ end \in [Partitions -> 0..MaxRecords]
    /\ \A p \in Partitions : committed[p] <= end[p]
    /\ published \in [Partitions -> SUBSET Offsets]
    /\ owner \in [Partitions -> Members] /\ crashes \in 0..MaxCrashes
    /\ pc \in [Members -> Labels]
    /\ unapplied \in [Members -> {"none", "held", "fenced"}]
    /\ \A m \in Members : Read(m)

\* A poll reads up to the end of its partitions at most.
LEMMA PollReads ==
    ASSUME GroupInv, GroupInv', WithinLog, NEW m \in Members, Poll(m)
    PROVE  Read(m)'
<1>1. /\ Types /\ Holds(m)' /\ UNCHANGED <<broker, pc>> /\ pc[m] = "poll"
      /\ assigned'[m] = Mine(m) /\ joined'[m] = generation
  BY Zenon DEF GroupInv, Types, Poll
<1>2. PICK pos \in [Partitions -> 0..MaxRecords] :
        /\ \A p \in Partitions :
              IF p \in Mine(m) THEN pos[p] \in Resume(m, p)..end[p] ELSE pos[p] = 0
        /\ position' = [position EXCEPT ![m] = pos]
  BY Zenon DEF Poll
<1>3. position'[m] = pos
  BY <1>1, <1>2, Zenon DEF Types
<1> SUFFICES ASSUME NEW p \in Partitions
             PROVE  pos[p] <= end[p] /\ Range(buffer'[m][p]) \subseteq Offsets
  BY <1>1, <1>3, Zenon DEF Read, broker
<1>4. end[p] \in 0..MaxRecords /\ MaxRecords \in Nat /\ committed[p] \in Nat
      /\ pos[p] \in 0..MaxRecords
  BY <1>1, BoundsAssumption, Zenon DEF WithinLog, Types
<1>5. CASE p \in Mine(m)
  <2>1. pos[p] \in Resume(m, p)..end[p]
    BY <1>2, <1>5, Zenon
  <2>2. pos[p] <= end[p] /\ pos[p] \in Nat
    BY <1>4, <2>1
  <2>3. committed[p] <= pos[p] /\ buffer'[m][p] = Run(committed[p], pos[p])
    <3>1. UNCHANGED <<committed, generation>> /\ pc'[m] = "poll" /\ p \in assigned'[m]
      BY <1>1, <1>5, Zenon DEF broker
    <3>2. Current(m)'
      BY <1>1, <3>1, Zenon DEF Current
    <3>3. committed'[p] <= position'[m][p] /\ buffer'[m][p] = Run(committed[p], position[m][p])'
      BY <1>1, <3>1, <3>2, Zenon DEF Holds
    <3> QED BY <1>3, <3>1, <3>3, Zenon DEF Run
  <2>4. Range(buffer'[m][p]) = committed[p]..(pos[p] - 1)
    <3>1. PICK from \in Nat, to \in Nat : from = committed[p] /\ to = pos[p]
      BY <1>4, <2>2, Zenon
    <3>2. Range(Run(from, to)) = from..(to - 1)
      BY <2>3, <3>1, RunProperties, Zenon
    <3> QED BY <2>3, <3>1, <3>2, Zenon
  <2>5. committed[p]..(pos[p] - 1) \subseteq Offsets
    BY <1>4, <2>2 DEF Offsets
  <2> QED BY <2>2, <2>4, <2>5, Zenon
<1>6. CASE p \notin Mine(m)
  <2>1. pos[p] = 0 /\ buffer'[m][p] = <<>>
    BY <1>1, <1>2, <1>6, Zenon DEF Holds
  <2>2. Range(<<>>) = {}
    BY DEF Range
  <2> QED BY <1>4, <2>1, <2>2
<1> QED BY <1>5, <1>6, Zenon

\* Every step stays within the log.
LEMMA WithinStep ==
    ASSUME GroupInv, GroupInv', WithinLog, [Next]_vars
    PROVE  WithinLog'
<1>1. /\ Types /\ end \in [Partitions -> 0..MaxRecords] /\ MaxRecords \in Nat
      /\ \A p \in Partitions : committed[p] <= end[p]
      /\ published \in [Partitions -> SUBSET Offsets]
      /\ owner \in [Partitions -> Members] /\ crashes \in 0..MaxCrashes
      /\ pc \in [Members -> Labels]
      /\ unapplied \in [Members -> {"none", "held", "fenced"}]
      /\ \A m \in Members : Read(m)
  BY BoundsAssumption, Zenon DEF GroupInv, WithinLog
<1>2. \A m \in Members, l \in Labels : [pc EXCEPT ![m] = l] \in [Members -> Labels]
  BY <1>1, Zenon
<1>3. \A m \in Members, u \in {"none", "held", "fenced"} :
         [unapplied EXCEPT ![m] = u] \in [Members -> {"none", "held", "fenced"}]
  BY <1>1, Zenon
<1>4. ASSUME NEW p \in Partitions, Produce(p)  PROVE WithinLog'
  <2>1. /\ end' = [end EXCEPT ![p] = end[p] + 1] /\ end[p] < MaxRecords
        /\ UNCHANGED <<committed, published, owner, crashes, pc, unapplied, position, buffer>>
    BY <1>4, Zenon DEF Produce, reader, watch
  <2>2. end' \in [Partitions -> 0..MaxRecords] /\ \A q \in Partitions : end[q] <= end'[q]
    BY <1>1, <2>1
  <2>3. \A n \in Nat : \A q \in Partitions : n <= end[q] => n <= end'[q]
    BY <1>1, <2>2
  <2>4. \A q \in Partitions : committed[q] <= end'[q]
    BY <1>1, <2>3, Zenon DEF Types
  <2>5. \A m \in Members : Read(m)'
    <3>1. \A m \in Members, q \in Partitions : position[m][q] \in Nat
      BY <1>1, Zenon DEF Types
    <3> QED BY <1>1, <2>1, <2>3, <3>1, Zenon DEF Read
  <2> QED BY <1>1, <2>1, <2>2, <2>4, <2>5, Zenon DEF WithinLog
<1>5. CASE Rebalance
  <2>1. /\ UNCHANGED <<end, committed, published, crashes, pc, unapplied, position, buffer>>
        /\ owner' \in [Partitions -> Members]
    BY <1>5, Zenon DEF Rebalance, reader, watch
  <2> QED BY <1>1, <2>1, Zenon DEF WithinLog, Read
<1>6. ASSUME NEW m \in Members, MemberStep(m) \/ Crash(m)  PROVE WithinLog'
  <2>1. ASSUME UNCHANGED <<end, owner>>, Read(m)', pc' \in [Members -> Labels],
               unapplied' \in [Members -> {"none", "held", "fenced"}],
               published' \in [Partitions -> SUBSET Offsets], crashes' \in 0..MaxCrashes,
               \A p \in Partitions : committed'[p] <= end[p]
        PROVE  WithinLog'
    <3>1. ASSUME NEW n \in Members, n # m  PROVE Read(n)'
      <4>1. UNCHANGED <<position[n], buffer[n]>>
        BY <1>1, <1>6, <3>1, OwnEntries, Zenon
      <4> QED BY <1>1, <2>1, <4>1, Zenon DEF Read
    <3>2. \A n \in Members : Read(n)'
      BY <2>1, <3>1, Zenon
    <3> QED BY <1>1, <2>1, <3>2, Zenon DEF WithinLog
  <2>2. CASE Poll(m)
    <3>1. UNCHANGED <<end, owner, published, crashes, committed, pc>>
      BY <2>2, Zenon DEF Poll, broker
    <3>2. \E u \in {"none", "held", "fenced"} : unapplied' = [unapplied EXCEPT ![m] = u]
      <4>1. unapplied[m] \in {"none", "held", "fenced"}
        BY <1>1, Zenon
      <4> QED BY <2>2, <4>1, Zenon DEF Poll, Observe
    <3>3. Read(m)'
      BY <2>2, PollReads, Zenon
    <3>4. unapplied' \in [Members -> {"none", "held", "fenced"}]
      BY <1>3, <3>2, Zenon
    <3> QED BY <1>1, <2>1, <3>1, <3>3, <3>4, Zenon
  <2>3. CASE TakeWindows(m) \/ Restart(m)
    <3>1. /\ UNCHANGED <<end, owner, published, crashes, committed, unapplied, position, buffer>>
          /\ \E l \in Labels : pc' = [pc EXCEPT ![m] = l]
      BY <2>3, Zenon DEF TakeWindows, Restart, Goto, broker, reader, watch, Labels
    <3>2. Read(m)'
      BY <1>1, <3>1, Zenon DEF Read
    <3>3. pc' \in [Members -> Labels]
      BY <1>2, <3>1, Zenon
    <3> QED BY <1>1, <2>1, <3>1, <3>2, <3>3, Zenon
  <2>4. CASE FlushWindows(m)
    <3>1. /\ UNCHANGED <<end, owner, crashes, committed, unapplied, position>>
          /\ pc' = [pc EXCEPT ![m] = "commit"] /\ buffer'[m] = Nothing
          /\ published' = [p \in Partitions |-> published[p] \cup Range(buffer[m][p])]
      BY <1>1, <2>4, Zenon DEF FlushWindows, Goto, watch, Types
    <3>2. \A p \in Partitions : Range(buffer'[m][p]) = {}
      BY <3>1 DEF Nothing, Range
    <3>3. Read(m)'
      BY <1>1, <3>1, <3>2, Zenon DEF Read
    <3>4. "commit" \in Labels
      BY Zenon DEF Labels
    <3>5. pc' \in [Members -> Labels] /\ published' \in [Partitions -> SUBSET Offsets]
      BY <1>1, <1>2, <3>1, <3>4, Zenon DEF Read
    <3> QED BY <1>1, <2>1, <3>1, <3>3, <3>5, Zenon
  <2>5. CASE CommitSync(m)
    <3>1. /\ UNCHANGED <<end, owner, published, crashes, position, buffer>>
          /\ pc' = [pc EXCEPT ![m] = "poll"] /\ unapplied' = [unapplied EXCEPT ![m] = "none"]
          /\ \A p \in Partitions :
                committed'[p] = IF p \in assigned[m] THEN position[m][p] ELSE committed[p]
      BY <2>5, Zenon DEF CommitSync, Goto, Applied, reader
    <3>2. \A p \in Partitions : committed'[p] <= end[p]
      BY <1>1, <3>1, Zenon DEF Read
    <3>3. "poll" \in Labels
      BY Zenon DEF Labels
    <3>4. /\ pc' \in [Members -> Labels] /\ Read(m)'
          /\ unapplied' \in [Members -> {"none", "held", "fenced"}]
      BY <1>1, <1>2, <1>3, <3>1, <3>3, Zenon DEF Read
    <3> QED BY <1>1, <2>1, <3>1, <3>2, <3>4, Zenon
  <2>6. CASE CommitRefused(m) \/ Crash(m)
    <3>1. /\ UNCHANGED <<end, owner, published, committed>> /\ Stop(m)
          /\ crashes' = crashes \/ (crashes < MaxCrashes /\ crashes' = crashes + 1)
      BY <2>6, Zenon DEF CommitRefused, Crash, broker
    <3>2. /\ pc' = [pc EXCEPT ![m] = "down"] /\ unapplied' = [unapplied EXCEPT ![m] = "none"]
          /\ position'[m] = Zero /\ buffer'[m] = Nothing
      BY <1>1, <3>1, Zenon DEF Stop, Goto, Types
    <3>3. crashes' \in 0..MaxCrashes
      BY <1>1, <3>1, BoundsAssumption
    <3>4. \A p \in Partitions : Range(buffer'[m][p]) = {} /\ position'[m][p] <= end[p]
      BY <1>1, <3>2 DEF Nothing, Range, Zero
    <3>5. Read(m)'
      BY <3>1, <3>4, Zenon DEF Read
    <3>6. "down" \in Labels
      BY Zenon DEF Labels
    <3>7. pc' \in [Members -> Labels] /\ unapplied' \in [Members -> {"none", "held", "fenced"}]
      BY <1>2, <1>3, <3>2, <3>6, Zenon
    <3> QED BY <1>1, <2>1, <3>1, <3>3, <3>5, <3>7, Zenon
  <2> QED BY <1>6, <2>2, <2>3, <2>4, <2>5, <2>6, Zenon DEF MemberStep
<1>7. CASE UNCHANGED vars
  BY <1>1, <1>7, Zenon DEF vars, WithinLog, Read
<1> QED BY <1>4, <1>5, <1>6, <1>7, Zenon DEF Next

\* Every variable keeps its type: no commit, position, buffer or goal is beyond the
\* end of its partition, and no member is ahead of the group.
THEOREM TypeCorrect == Spec => []TypeOK
<1>1. Init => WithinLog
  <2> SUFFICES ASSUME Init  PROVE WithinLog
    BY Zenon
  <2>1. 0 \in 0..MaxRecords /\ 0 \in 0..MaxCrashes /\ 0 <= 0
    BY BoundsAssumption
  <2>2. Range(<<>>) = {}
    BY DEF Range
  <2>3. \A m \in Members : Read(m)
    BY <2>1, <2>2, Zenon DEF Init, Read, Zero, Nothing
  <2>4. /\ end \in [Partitions -> 0..MaxRecords] /\ \A p \in Partitions : committed[p] <= end[p]
    BY <2>1, Zenon DEF Init, Zero
  <2> QED BY <2>1, <2>3, <2>4, Zenon DEF Init, WithinLog, Labels
<1>2. GroupInv /\ GroupInv' /\ WithinLog /\ [Next]_vars => WithinLog'
  BY WithinStep, Zenon
<1>3. GroupInv /\ WithinLog => TypeOK
  <2> SUFFICES ASSUME GroupInv, WithinLog  PROVE TypeOK
    BY Zenon
  <2>1. \A n, k \in Nat : n <= k => n \in 0..k
    OBVIOUS
  <2>2. \A p \in Partitions : end[p] \in Nat /\ committed[p] \in 0..end[p]
    BY <2>1, Zenon DEF GroupInv, Types, WithinLog
  <2>3. joined \in [Members -> 0..generation]
    BY <2>1, Zenon DEF GroupInv, Types, Holds
  <2>4. ASSUME NEW m \in Members, NEW p \in Partitions
        PROVE  /\ position[m][p] \in 0..end[p] /\ Range(buffer[m][p]) \subseteq Offsets
               /\ goal[m][p] \in 0..end[p]
    <3>1. /\ position[m][p] \in Nat /\ goal[m][p] \in Nat /\ position[m][p] <= end[p]
          /\ goal[m][p] <= end[p] /\ Range(buffer[m][p]) \subseteq Offsets
      BY Zenon DEF GroupInv, Types, Watches, WithinLog, Read
    <3> QED BY <2>1, <2>2, <3>1, Zenon
  <2> QED BY <2>2, <2>3, <2>4, Zenon DEF GroupInv, Types, WithinLog, Labels, TypeOK
<1> QED BY <1>1, <1>2, <1>3, Invariant, PTL DEF Spec
=============================================================================
