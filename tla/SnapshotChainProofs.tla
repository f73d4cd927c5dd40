------------------------ MODULE SnapshotChainProofs ------------------------
(***************************************************************************)
(* Proofs about SnapshotChain for every set of writers, records and slots  *)
(* and every Retain, MaxAttempts and MaxGeneration.                        *)
(*                                                                         *)
(* The argument.  A prune only deletes generations that have Retain stored *)
(* ones above them, so the newest Retain generations are always stored     *)
(* (Window).  A writer that merged into generation g therefore finds g + 1 *)
(* free in two cases only: g is still the newest generation, and then its  *)
(* merge is a merge into what is published; or g + 1 was created and       *)
(* pruned since, and then at least Retain generations lie above it.        *)
(***************************************************************************)
EXTENDS SnapshotChain, FiniteSetTheorems, TLAPS

USE RetainAssumption, MaxAttemptsAssumption, MaxGenerationAssumption,
    AmbiguousPutAssumption DEF Generations

-----------------------------------------------------------------------------
(* What the operators of the specification return. *)

\* A set of integers has one greatest element.
LEMMA GreatestIsOne ==
  ASSUME NEW S, S \subseteq Int, NEW n \in S, \A h \in S : h <= n
  PROVE  n = CHOOSE g \in S : g \in S /\ \A h \in S : h <= g
<1>1. \E g \in S : g \in S /\ \A h \in S : h <= g
  BY Zenon
<1>2. PICK c \in S : /\ c = CHOOSE g \in S : g \in S /\ \A h \in S : h <= g
                    /\ \A h \in S : h <= c
  BY <1>1, Zenon
<1>3. c <= n /\ n <= c /\ c \in Int /\ n \in Int
  BY <1>2, Zenon
<1>4. c = n
  BY <1>3
<1> QED
  BY <1>2, <1>4, Zenon

\* A reader is given the manifest of the newest generation.
LEMMA PublishedOfNewest ==
  ASSUME NEW g, IsNewest(g), stored \subseteq Int
  PROVE  Published = manifest[g]
<1>1. g \in stored /\ \A h \in stored : h <= g
  BY Zenon DEF IsNewest
<1>2. g = CHOOSE h \in stored : IsNewest(h)
  BY <1>1, GreatestIsOne, Zenon DEF IsNewest
<1> QED
  BY <1>1, <1>2, Zenon DEF Published

\* With no generation stored a reader is given the empty index.
LEMMA PublishedOfNothing ==
  ASSUME stored = {}
  PROVE  Published = NoShards
BY Zenon DEF Published

\* Spans are made of slots, so what a save touches is.
LEMMA TouchedType ==
  ASSUME TypeOK, NEW w \in Writers, NEW noBase
  PROVE  /\ Contributed(w, noBase) \subseteq Records
         /\ Touched(w, noBase) \subseteq Slots
<1>1. Contributed(w, noBase) \subseteq Records /\ removals[w] \subseteq Records
  BY Zenon DEF Contributed, TypeOK
<1>2. \A r \in Records : r.span \subseteq Slots
  BY RecordsAssumption DEF Records
<1> QED
  BY <1>1, <1>2, Zenon DEF Touched

\* A merge yields a manifest, whatever it is merged into.
LEMMA MergeType ==
  ASSUME TypeOK, NEW w \in Writers, NEW base \in Manifests, NEW noBase
  PROVE  Merge(w, base, noBase) \in Manifests
<1>1. Contributed(w, noBase) \subseteq Records
  BY TouchedType, Zenon
<1>2. \A s \in Slots : base[s] \subseteq Records
  BY Zenon DEF Manifests
<1> QED
  BY <1>1, <1>2, Zenon DEF Merge, Manifests

\* A merge depends on what its writer holds and on its base only.
LEMMA MergeKept ==
  ASSUME NEW v, UNCHANGED <<index[v], additions[v], removals[v]>>
  PROVE  /\ Merge(v, NoShards, TRUE)' = Merge(v, NoShards, TRUE)
         /\ Refused(v, NoShards, TRUE)' <=> Refused(v, NoShards, TRUE)
         /\ manifest'[listed'[v]] = manifest[listed[v]] =>
              /\ Merge(v, manifest[listed[v]], FALSE)' = Merge(v, manifest[listed[v]], FALSE)
              /\ Refused(v, manifest[listed[v]], FALSE)' <=> Refused(v, manifest[listed[v]], FALSE)
<1>1. /\ Contributed(v, TRUE)' = Contributed(v, TRUE)
      /\ Contributed(v, FALSE)' = Contributed(v, FALSE)
  BY Zenon DEF Contributed
<1>2. /\ Touched(v, TRUE)' = Touched(v, TRUE)
      /\ Touched(v, FALSE)' = Touched(v, FALSE)
  BY <1>1, Zenon DEF Touched
<1>3. /\ Merge(v, NoShards, TRUE)' = Merge(v, NoShards, TRUE)
      /\ Refused(v, NoShards, TRUE)' <=> Refused(v, NoShards, TRUE)
  BY <1>1, <1>2, Zenon DEF Merge, Refused
<1>4. ASSUME manifest'[listed'[v]] = manifest[listed[v]]
      PROVE  /\ Merge(v, manifest[listed[v]], FALSE)' = Merge(v, manifest[listed[v]], FALSE)
             /\ Refused(v, manifest[listed[v]], FALSE)' <=> Refused(v, manifest[listed[v]], FALSE)
  BY <1>1, <1>2, <1>4, Zenon DEF Merge, Refused
<1> QED
  BY <1>3, <1>4, Zenon

\* A load yields records of a manifest.
LEMMA LoadedType ==
  ASSUME NEW m \in Manifests
  PROVE  NoShards \in Manifests /\ Held(m) \subseteq Records /\ Loaded(m) \subseteq Records
BY Zenon DEF Manifests, NoShards, Held, Loaded

\* A generation with at least Retain stored ones above it lies Retain or more
\* below the newest: generation numbers cannot repeat.
LEMMA StaleIsFarBehind ==
  ASSUME stored \subseteq Generations,
         NEW n, IsNewest(n),
         NEW g \in stored,
         Cardinality({h \in stored : h > g}) >= Retain
  PROVE  g + Retain <= n
<1> DEFINE above == {h \in stored : h > g}
<1>1. n \in Int /\ g \in Int /\ g <= n
  BY DEF IsNewest
<1>2. ASSUME NEW h \in above
      PROVE  h \in (g + 1)..n
  <2>1. h \in Int /\ g < h /\ h <= n
    BY <1>1 DEF IsNewest
  <2> QED
    BY <2>1, <1>1
<1>3. /\ IsFiniteSet((g + 1)..n)
      /\ Cardinality((g + 1)..n) = n - g
  <2>1. g + 1 \in Int
    BY <1>1
  <2> HIDE DEF above
  <2>2. /\ IsFiniteSet((g + 1)..n)
        /\ Cardinality((g + 1)..n) = IF g + 1 > n THEN 0 ELSE n - (g + 1) + 1
    BY <2>1, <1>1, FS_Interval, Zenon
  <2> QED
    BY <2>2, <1>1
<1>4. IsFiniteSet(above) /\ Cardinality(above) <= n - g
  BY <1>2, <1>3, FS_Subset, Zenon
<1>5. Cardinality(above) \in Int
  BY <1>4, FS_CardinalityType
<1> QED
  BY <1>1, <1>4, <1>5
-----------------------------------------------------------------------------
(* Type correctness. *)

\* Every step keeps every variable in its type.
LEMMA TypeStep ==
  ASSUME TypeOK, [Next]_vars
  PROVE  TypeOK'
<1> USE DEF TypeOK, Labels, Goto, memory, history
<1>1. ASSUME NEW w \in Writers, LoadList(w)
      PROVE  TypeOK'
  BY <1>1, Zenon DEF LoadList, ListNewest
<1>2. ASSUME NEW w \in Writers, LoadRead(w)
      PROVE  TypeOK'
  <2>1. ASSUME listed[w] \in stored
        PROVE  Loaded(manifest[listed[w]]) \in SUBSET Records
    <3>1. PICK m \in Manifests : m = manifest[listed[w]]
      BY <2>1, Zenon
    <3> QED BY <3>1, LoadedType, Zenon
  <2>2. index' \in [Writers -> SUBSET Records]
    <3>1. CASE UNCHANGED index
      BY <3>1, Zenon
    <3>2. CASE listed[w] \in stored /\ index' = [index EXCEPT ![w] = Loaded(manifest[listed[w]])]
      BY <2>1, <3>2, Zenon
    <3> QED BY <1>2, <3>1, <3>2, Zenon DEF LoadRead
  <2>3. pc' \in [Writers -> Labels] /\ listed' \in [Writers -> Generations \cup {-1}]
    BY <1>2, Zenon DEF LoadRead
  <2> QED
    BY <1>2, <2>2, <2>3, Zenon DEF LoadRead
<1>n. 1 \in 1..MaxAttempts /\ NoShards \in Manifests
  <2>1. NoShards \in Manifests
    BY Zenon DEF NoShards, Manifests
  <2> QED BY <2>1
<1>k. ASSUME NEW r \in Records
      PROVE  r.key \in Keys
  BY RecordsAssumption DEF Records
<1>3. ASSUME NEW w \in Writers, NEW r \in Records, AddBlock(w, r)
      PROVE  TypeOK'
  BY <1>3, <1>k, Zenon DEF AddBlock, Without
<1>4. ASSUME NEW w \in Writers, NEW r \in Records, NEW K \in SUBSET Keys,
             ReplaceBlocks(w, K, r)
      PROVE  TypeOK'
  BY <1>4, <1>k, Zenon DEF ReplaceBlocks, Retired, Without
<1>5. ASSUME NEW w \in Writers, NEW K \in SUBSET Keys, RemoveBlocks(w, K)
      PROVE  TypeOK'
  BY <1>5, Zenon DEF RemoveBlocks, Retired, Without
<1>6. ASSUME NEW w \in Writers, BeginSave(w)
      PROVE  TypeOK'
  BY <1>6, Zenon DEF BeginSave
<1>7. ASSUME NEW w \in Writers, ListBase(w)
      PROVE  TypeOK'
  BY <1>7, Zenon DEF ListBase, ListNewest
<1>8. ASSUME NEW w \in Writers, ReadBase(w)
      PROVE  TypeOK'
  <2>0. NoShards \in Manifests
    BY Zenon DEF NoShards, Manifests
  <2>1. Merge(w, NoShards, TRUE) \in Manifests
    BY <2>0, MergeType, Zenon
  <2>2. listed[w] \in stored => Merge(w, manifest[listed[w]], FALSE) \in Manifests
    BY MergeType, Zenon
  <2>3. PICK R \in Manifests : merged' = [merged EXCEPT ![w] = R]
    BY <1>8, <2>0, <2>1, <2>2, Zenon DEF ReadBase, TryAgain
  <2>4. merged' \in [Writers -> Manifests]
    BY <2>3, Zenon
  <2>5. pc' \in [Writers -> Labels]
    BY <1>8, Zenon DEF ReadBase, TryAgain
  <2>6. listed' \in [Writers -> Generations \cup {-1}]
    BY <1>8, Zenon DEF ReadBase, TryAgain
  <2>7. attempt' \in [Writers -> 1..MaxAttempts]
    <3>1. CASE attempt' = attempt
      BY <3>1, Zenon
    <3>2. CASE TryAgain(w)
      BY <3>2 DEF TryAgain
    <3> QED
      BY <1>8, <3>1, <3>2, Zenon DEF ReadBase
  <2> QED
    BY <1>8, <2>4, <2>5, <2>6, <2>7, Zenon DEF ReadBase
<1>9. ASSUME NEW w \in Writers, Land(w)
      PROVE  /\ stored' \in SUBSET Generations
             /\ manifest' \in [Generations -> Manifests]
             /\ owed' \in Manifests
             /\ overtaken' \in BOOLEAN
             /\ landed' \in [Writers -> SUBSET Records]
  <2>1. Merge(w, owed, listed[w] = -1) \in Manifests
    BY MergeType, Zenon
  <2>2. Contributed(w, listed[w] = -1) \in SUBSET Records
    BY TouchedType, Zenon
  <2> QED
    BY <1>9, <2>1, <2>2, Zenon DEF Land, Claim
<1>10. ASSUME NEW w \in Writers, Create(w)
       PROVE  TypeOK'
  BY <1>10, <1>9, <1>n, Zenon DEF Create
<1>11. ASSUME NEW w \in Writers, CreateConflict(w)
       PROVE  TypeOK'
  <2>1. attempt' \in [Writers -> 1..MaxAttempts]
    <3>1. TryAgain(w)
      BY <1>11, Zenon DEF CreateConflict
    <3> QED BY <3>1 DEF TryAgain
  <2> QED BY <1>11, <1>n, <2>1, Zenon DEF CreateConflict, TryAgain
<1>12. ASSUME NEW w \in Writers, CreateUnseen(w)
       PROVE  TypeOK'
  BY <1>12, <1>9, Zenon DEF CreateUnseen
<1>13. ASSUME NEW w \in Writers, PruneList(w)
       PROVE  TypeOK'
  BY <1>13, Zenon DEF PruneList
<1>14. ASSUME NEW w \in Writers, PruneDelete(w)
       PROVE  TypeOK'
  <2>1. PICK g \in stale[w] : /\ stored' = stored \ {g}
                             /\ manifest' = [manifest EXCEPT ![g] = NoShards]
                             /\ stale' = [stale EXCEPT ![w] = @ \ {g}]
    BY <1>14, Zenon DEF PruneDelete
  <2>2. stored' \in SUBSET Generations
    BY <2>1, Zenon
  <2>3. manifest' \in [Generations -> Manifests]
    BY <1>n, <2>1, Zenon
  <2>4. stale' \in [Writers -> SUBSET Generations]
    BY <2>1, Zenon
  <2> QED BY <1>14, <2>2, <2>3, <2>4, Zenon DEF PruneDelete
<1>15. ASSUME NEW w \in Writers, CommitPending(w)
       PROVE  TypeOK'
  BY <1>15, Zenon DEF CommitPending
<1>16. ASSUME NEW w \in Writers, Crash(w)
       PROVE  TypeOK'
  BY <1>16, <1>n, ZenonT(60) DEF Crash
<1>17. CASE UNCHANGED vars
  BY <1>17, Zenon DEF vars
<1> QED
  BY <1>1, <1>2, <1>3, <1>4, <1>5, <1>6, <1>7, <1>8, <1>10, <1>11, <1>12,
     <1>13, <1>14, <1>15, <1>16, <1>17, Zenon DEF Next, Edit, Save, Records

\* Every variable of the chain keeps its type.
THEOREM TypeCorrect == Spec => []TypeOK
<1>1. Init => TypeOK
  <2> SUFFICES ASSUME Init PROVE TypeOK
    BY Zenon
  <2>1. 1 \in 1..MaxAttempts
    OBVIOUS
  <2>2. NoShards \in Manifests
    BY Zenon DEF NoShards, Manifests
  <2> QED
    BY <2>1, <2>2, Zenon DEF Init, TypeOK, Labels
<1>2. TypeOK /\ [Next]_vars => TypeOK'
  BY TypeStep, Zenon
<1> QED
  BY <1>1, <1>2, PTL DEF Spec
-----------------------------------------------------------------------------
(* The inductive invariant. *)

\* There is a newest generation as soon as there is any.
NewestExists == stored = {} \/ \E n \in stored : IsNewest(n)

\* The newest Retain generations are stored.
Window ==
    \A n \in stored, g \in Generations :
        IsNewest(n) /\ g <= n /\ n < g + Retain => g \in stored

\* What a prune has still to delete lies below that window.
StaleBelowWindow ==
    \A w \in Writers : \A g \in stale[w] : \E h \in stored : g + Retain <= h

\* The newest generation never falls behind what a writer has listed.
ListedNotAhead ==
    \A w \in Writers : listed[w] # -1 => \E h \in stored : listed[w] <= h

\* While its base is still the newest generation, what a writer is about to
\* create is its merge into what is published.
MergedIntoBase ==
    \A w \in Writers :
        pc[w] = "create" =>
           /\ listed[w] = -1 =>
                 /\ merged[w] = Merge(w, NoShards, TRUE)
                 /\ ~Refused(w, NoShards, TRUE)
           /\ IsNewest(listed[w]) =>
                 /\ merged[w] = Merge(w, manifest[listed[w]], FALSE)
                 /\ ~Refused(w, manifest[listed[w]], FALSE)

ChainInv ==
    /\ TypeOK
    /\ NewestExists
    /\ Window
    /\ StaleBelowWindow
    /\ ListedNotAhead
    /\ MergedIntoBase
    /\ LandedSavesVisible

\* Only writer w moves, and no generation is created or deleted.
OnlyMoves(w) ==
    /\ UNCHANGED <<stored, manifest, owed, overtaken>>
    /\ \A v \in Writers \ {w} :
          /\ UNCHANGED <<pc[v], index[v], additions[v], removals[v]>>
          /\ UNCHANGED <<listed[v], merged[v], stale[v]>>

\* Steps that neither create nor delete a generation.
LEMMA QuietStep ==
  ASSUME ChainInv, TypeOK', NEW w \in Writers, OnlyMoves(w),
         listed'[w] # -1 => \E h \in stored : listed'[w] <= h,
         \A g \in stale'[w] : \E h \in stored : g + Retain <= h,
         pc'[w] = "create" =>
            /\ listed'[w] = -1 =>
                  /\ merged'[w] = Merge(w, NoShards, TRUE)'
                  /\ ~Refused(w, NoShards, TRUE)'
            /\ IsNewest(listed'[w]) =>
                  /\ merged'[w] = Merge(w, manifest[listed[w]], FALSE)'
                  /\ ~Refused(w, manifest[listed[w]], FALSE)'
  PROVE  ChainInv'
<1> USE DEF OnlyMoves
<1>1. NewestExists'
  BY Zenon DEF ChainInv, NewestExists, IsNewest
<1>2. Window'
  BY Zenon DEF ChainInv, Window, IsNewest
<1>3. StaleBelowWindow'
  <2> SUFFICES ASSUME NEW v \in Writers, NEW g \in stale'[v]
               PROVE  \E h \in stored : g + Retain <= h
    BY Zenon DEF StaleBelowWindow
  <2> QED
    BY Zenon DEF ChainInv, StaleBelowWindow
<1>4. ListedNotAhead'
  <2> SUFFICES ASSUME NEW v \in Writers, listed'[v] # -1
               PROVE  \E h \in stored : listed'[v] <= h
    BY Zenon DEF ListedNotAhead
  <2> QED
    BY Zenon DEF ChainInv, ListedNotAhead
<1>5. MergedIntoBase'
  <2> SUFFICES ASSUME NEW v \in Writers, pc'[v] = "create"
               PROVE  /\ listed'[v] = -1 =>
                            /\ merged'[v] = Merge(v, NoShards, TRUE)'
                            /\ ~Refused(v, NoShards, TRUE)'
                      /\ IsNewest(listed[v])' =>
                            /\ merged'[v] = Merge(v, manifest[listed[v]], FALSE)'
                            /\ ~Refused(v, manifest[listed[v]], FALSE)'
    BY Zenon DEF MergedIntoBase
  <2>1. CASE v = w
    BY <2>1, Zenon DEF IsNewest
  <2>2. CASE v # w
    <3>1. /\ UNCHANGED <<pc[v], index[v], additions[v], removals[v]>>
          /\ UNCHANGED <<listed[v], merged[v], manifest>>
      BY <2>2, Zenon
    <3>2. /\ Merge(v, NoShards, TRUE)' = Merge(v, NoShards, TRUE)
          /\ Refused(v, NoShards, TRUE)' <=> Refused(v, NoShards, TRUE)
          /\ Merge(v, manifest[listed[v]], FALSE)' = Merge(v, manifest[listed[v]], FALSE)
          /\ Refused(v, manifest[listed[v]], FALSE)' <=> Refused(v, manifest[listed[v]], FALSE)
      BY <3>1, MergeKept, Zenon
    <3>3. IsNewest(listed[v])' <=> IsNewest(listed[v])
      BY <3>1, Zenon DEF IsNewest
    <3> QED
      BY <3>1, <3>2, <3>3, ZenonT(60) DEF ChainInv, MergedIntoBase
  <2> QED
    BY <2>1, <2>2, Zenon
<1>6. LandedSavesVisible'
  BY DEF ChainInv, LandedSavesVisible, Published, IsNewest
<1> QED
  BY <1>1, <1>2, <1>3, <1>4, <1>5, <1>6, Zenon DEF ChainInv

\* A create that finds its base still the newest makes it the second newest.
LEMMA LandInTurn ==
  ASSUME ChainInv, TypeOK', NEW w \in Writers, Land(w), pc[w] = "create",
         \A g \in stored : g <= listed[w]
  PROVE  /\ \A m \in stored' : IsNewest(m)' <=> m = Claim(w)
         /\ Claim(w) \in stored'
         /\ listed[w] # -1 => IsNewest(listed[w])
         /\ listed[w] = -1 => stored = {}
         /\ Published' = Merge(w, Published, listed[w] = -1)
         /\ ~Refused(w, Published, listed[w] = -1)
<1>1. listed[w] \in Int /\ Claim(w) = listed[w] + 1 /\ stored \subseteq Int
  BY DEF ChainInv, TypeOK, Claim
<1>2. stored' = stored \cup {Claim(w)} /\ stored' \subseteq Int
  BY DEF Land, TypeOK
<1>3. ASSUME NEW m \in stored'
      PROVE  IsNewest(m)' <=> m = Claim(w)
  BY <1>1, <1>2, <1>3 DEF IsNewest
<1>4. listed[w] # -1 => IsNewest(listed[w])
  BY <1>1 DEF ChainInv, ListedNotAhead, IsNewest
<1>5. listed[w] = -1 => stored = {}
  BY <1>1 DEF ChainInv, TypeOK
<1>6. Published' = manifest'[Claim(w)]
  <2>1. Claim(w) \in stored' /\ \A h \in stored' : h <= Claim(w)
    BY <1>2, <1>3, Zenon DEF IsNewest
  <2>2. Claim(w) = CHOOSE h \in stored' : h \in stored' /\ \A k \in stored' : k <= h
    BY <1>2, <2>1, GreatestIsOne, Zenon
  <2> QED
    BY <2>1, <2>2, Zenon DEF Published, IsNewest
<1>7. manifest'[Claim(w)] = merged[w]
  BY Zenon DEF Land, ChainInv, TypeOK
<1>8. CASE listed[w] = -1
  <2>1. Published = NoShards
    BY <1>5, <1>8, PublishedOfNothing, Zenon
  <2>2. merged[w] = Merge(w, NoShards, TRUE) /\ ~Refused(w, NoShards, TRUE)
    BY <1>8, Zenon DEF ChainInv, MergedIntoBase
  <2>3. Merge(w, Published, listed[w] = -1) = Merge(w, NoShards, TRUE)
    BY <2>1, <1>8, Zenon
  <2>4. ~Refused(w, Published, listed[w] = -1)
    BY <2>1, <2>2, <1>8, Zenon
  <2> QED
    BY <1>2, <1>3, <1>4, <1>5, <1>6, <1>7, <2>2, <2>3, <2>4, Zenon
<1>9. CASE listed[w] # -1
  <2>1. Published = manifest[listed[w]]
    BY <1>1, <1>4, <1>9, PublishedOfNewest, Zenon
  <2>2. /\ merged[w] = Merge(w, manifest[listed[w]], FALSE)
        /\ ~Refused(w, manifest[listed[w]], FALSE)
    BY <1>4, <1>9, Zenon DEF ChainInv, MergedIntoBase
  <2>3. Merge(w, Published, listed[w] = -1) = Merge(w, manifest[listed[w]], FALSE)
    BY <2>1, <1>9, Zenon
  <2>4. ~Refused(w, Published, listed[w] = -1)
    BY <2>1, <2>2, <1>9, Zenon
  <2> QED
    BY <1>2, <1>3, <1>4, <1>5, <1>6, <1>7, <2>2, <2>3, <2>4, Zenon
<1> QED
  BY <1>8, <1>9, Zenon

\* A create that lands below the newest generation changes nothing a reader
\* sees, and lands Retain or more generations behind.
LEMMA LandLate ==
  ASSUME ChainInv, TypeOK', NEW w \in Writers, Land(w),
         ~(\A g \in stored : g <= listed[w])
  PROVE  /\ \A m \in stored' : IsNewest(m)' <=> m \in stored /\ IsNewest(m)
         /\ \E n \in stored : /\ IsNewest(n)
                              /\ n # Claim(w)
                              /\ manifest'[n] = manifest[n]
                              /\ Claim(w) + Retain <= n
         /\ Published' = Published
         /\ overtaken'
<1>1. listed[w] \in Int /\ Claim(w) = listed[w] + 1 /\ stored \subseteq Int
  BY DEF ChainInv, TypeOK, Claim
<1>2. stored' = stored \cup {Claim(w)} /\ stored' \subseteq Int
  BY DEF Land, TypeOK
<1>3. PICK h \in stored : listed[w] < h
  BY <1>1
<1>4. PICK n \in stored : IsNewest(n)
  BY Zenon DEF ChainInv, NewestExists
<1>5. Claim(w) \in Generations /\ Claim(w) \notin stored
  BY Zenon DEF Land
<1>6. Claim(w) < n /\ n # Claim(w)
  BY <1>1, <1>3, <1>4, <1>5 DEF IsNewest
<1>7. Claim(w) + Retain <= n
  BY <1>1, <1>4, <1>5, <1>6 DEF ChainInv, Window
<1>8. ASSUME NEW m \in stored'
      PROVE  IsNewest(m)' <=> m \in stored /\ IsNewest(m)
  BY <1>1, <1>2, <1>4, <1>6, <1>8 DEF IsNewest
<1>9. manifest'[n] = manifest[n]
  BY <1>4, <1>6, Zenon DEF Land, ChainInv, TypeOK
<1>10. IsNewest(n)'
  BY <1>2, <1>4, <1>8
<1>11. Published' = manifest'[n]
  <2>1. n \in stored' /\ \A i \in stored' : i <= n
    BY <1>10, Zenon DEF IsNewest
  <2>2. n = CHOOSE i \in stored' : i \in stored' /\ \A k \in stored' : k <= i
    BY <1>2, <2>1, GreatestIsOne, Zenon
  <2> QED
    BY <2>1, <2>2, Zenon DEF Published, IsNewest
<1>12. Published = manifest[n]
  BY <1>1, <1>4, PublishedOfNewest, Zenon
<1>13. overtaken'
  BY <1>3, Zenon DEF Land
<1>14. \E m \in stored : /\ IsNewest(m)
                        /\ m # Claim(w)
                        /\ manifest'[m] = manifest[m]
                        /\ Claim(w) + Retain <= m
  BY <1>4, <1>6, <1>7, <1>9, Zenon
<1>15. \A m \in stored' : IsNewest(m)' <=> m \in stored /\ IsNewest(m)
  BY <1>8, Zenon
<1>16. Published' = Published
  BY <1>9, <1>11, <1>12, Zenon
<1> QED
  BY <1>13, <1>14, <1>15, <1>16, Zenon

\* A create preserves the invariant whether or not its writer learns of it.
LEMMA LandStep ==
  ASSUME ChainInv, TypeOK', NEW w \in Writers, pc[w] = "create", Land(w),
         UNCHANGED <<memory, stale>>,
         \A v \in Writers :
            pc'[v] = "create" =>
               pc[v] = "create" /\ UNCHANGED <<listed[v], merged[v]>>,
         \A v \in Writers : listed'[v] = listed[v] \/ listed'[v] = -1
  PROVE  ChainInv'
<1> DEFINE inTurn == \A g \in stored : g <= listed[w]
<1>1. listed[w] \in Int /\ Claim(w) = listed[w] + 1 /\ stored \subseteq Int
  BY DEF ChainInv, TypeOK, Claim
<1>2. /\ stored' = stored \cup {Claim(w)}
      /\ manifest' = [manifest EXCEPT ![Claim(w)] = merged[w]]
      /\ owed' = Merge(w, owed, listed[w] = -1)
  BY Zenon DEF Land
<1>3. NewestExists'
  <2>1. CASE inTurn
    BY <2>1, LandInTurn, Zenon DEF NewestExists
  <2>2. CASE ~inTurn
    BY <2>2, <1>2, LandLate DEF NewestExists
  <2> QED
    BY <2>1, <2>2, Zenon
<1>4. Window'
  <2> SUFFICES ASSUME NEW n \in stored', NEW g \in Generations,
                      IsNewest(n)', g <= n, n < g + Retain
               PROVE  g \in stored'
    BY Zenon DEF Window
  <2>1. CASE inTurn
    <3>1. n = Claim(w)
      BY <2>1, LandInTurn, Zenon
    <3>2. CASE g = Claim(w)
      BY <3>2, <1>2, Zenon
    <3>3. CASE g # Claim(w)
      <4>1. g <= listed[w] /\ listed[w] < g + Retain /\ listed[w] # -1
        BY <3>1, <3>3, <1>1
      <4>2. IsNewest(listed[w])
        BY <2>1, <4>1, LandInTurn
      <4> QED
        BY <4>1, <4>2, <1>2 DEF ChainInv, Window, IsNewest
    <3> QED
      BY <3>2, <3>3
  <2>2. CASE ~inTurn
    <3>1. n \in stored /\ IsNewest(n)
      BY <2>2, LandLate, Zenon
    <3> QED
      BY <3>1, <1>2, Zenon DEF ChainInv, Window
  <2> QED
    BY <2>1, <2>2, Zenon
<1>5. StaleBelowWindow'
  BY <1>2, Zenon DEF ChainInv, StaleBelowWindow
<1>6. ListedNotAhead'
  BY <1>2 DEF ChainInv, ListedNotAhead
<1>7. MergedIntoBase'
  <2> SUFFICES ASSUME NEW v \in Writers, pc'[v] = "create"
               PROVE  /\ listed'[v] = -1 =>
                            /\ merged'[v] = Merge(v, NoShards, TRUE)'
                            /\ ~Refused(v, NoShards, TRUE)'
                      /\ IsNewest(listed[v])' =>
                            /\ merged'[v] = Merge(v, manifest[listed[v]], FALSE)'
                            /\ ~Refused(v, manifest[listed[v]], FALSE)'
    BY Zenon DEF MergedIntoBase
  <2>1. /\ pc[v] = "create"
        /\ UNCHANGED <<listed[v], merged[v], index, additions, removals>>
    BY Zenon DEF memory
  <2>2. Merge(v, NoShards, TRUE)' = Merge(v, NoShards, TRUE) /\ (Refused(v, NoShards, TRUE)' <=> Refused(v, NoShards, TRUE))
    BY <2>1, MergeKept, Zenon
  <2>3. listed'[v] = -1 => merged'[v] = Merge(v, NoShards, TRUE)' /\ ~Refused(v, NoShards, TRUE)'
    BY <2>1, <2>2, Zenon DEF ChainInv, MergedIntoBase
  <2>4. ASSUME IsNewest(listed[v])'
        PROVE  IsNewest(listed[v]) /\ manifest'[listed[v]] = manifest[listed[v]]
    <3>1. listed[v] \in stored' /\ \A m \in stored' : m <= listed[v]
      BY <2>1, <2>4, Zenon DEF IsNewest
    <3>2. CASE inTurn
      <4>1. listed[v] \in Int /\ Claim(w) <= listed[v]
        <5>1. listed[v] \in Generations \cup {-1}
          BY Zenon DEF ChainInv, TypeOK
        <5>2. Claim(w) <= listed[v]
          BY <3>1, <1>2, Zenon
        <5> QED BY <5>1, <5>2
      <4>2. listed[v] # -1
        <5>1. listed[w] \in Generations \cup {-1}
          BY Zenon DEF ChainInv, TypeOK
        <5> QED BY <4>1, <5>1, <1>1
      <4>3. PICK h \in stored : listed[v] <= h
        BY <4>2, Zenon DEF ChainInv, ListedNotAhead
      <4> QED
        BY <3>2, <4>1, <4>3, <1>1
    <3>3. CASE ~inTurn
      <4>1. listed[v] \in stored /\ IsNewest(listed[v])
        <5>1. \A m \in stored' : IsNewest(m)' <=> m \in stored /\ IsNewest(m)
          BY <3>3, LandLate, Zenon
        <5>2. PICK m \in stored' : m = listed[v]
          BY <3>1, Zenon
        <5>3. IsNewest(m)'
          BY <5>2, <3>1, Zenon DEF IsNewest
        <5> QED
          BY <5>1, <5>2, <5>3, Zenon
      <4>2. listed[v] # Claim(w)
        BY <4>1 DEF Land
      <4> QED
        BY <4>1, <4>2, <1>2, Zenon DEF ChainInv, TypeOK
    <3> QED
      BY <3>2, <3>3, Zenon
  <2>5. ASSUME IsNewest(listed[v])'
        PROVE  /\ merged'[v] = Merge(v, manifest[listed[v]], FALSE)'
               /\ ~Refused(v, manifest[listed[v]], FALSE)'
    <3>1. manifest'[listed'[v]] = manifest[listed[v]] /\ IsNewest(listed[v])
      BY <2>1, <2>4, <2>5, Zenon
    <3>2. /\ Merge(v, manifest[listed[v]], FALSE)' = Merge(v, manifest[listed[v]], FALSE)
          /\ Refused(v, manifest[listed[v]], FALSE)' <=> Refused(v, manifest[listed[v]], FALSE)
      BY <2>1, <3>1, MergeKept, Zenon
    <3> QED
      BY <2>1, <3>1, <3>2, Zenon DEF ChainInv, MergedIntoBase
  <2> QED
    BY <2>3, <2>5, Zenon
<1>8. LandedSavesVisible'
  <2>1. CASE inTurn
    <3>1. Published' = Merge(w, Published, listed[w] = -1)
      BY <2>1, LandInTurn, Zenon
    <3>2. ~overtaken' => ~overtaken
      BY Zenon DEF Land
    <3>3. ~overtaken => Published = owed
      BY Zenon DEF ChainInv, LandedSavesVisible
    <3> QED
      BY <3>1, <3>2, <3>3, <1>2, Zenon DEF LandedSavesVisible
  <2>2. CASE ~inTurn
    BY <2>2, LandLate, Zenon DEF LandedSavesVisible
  <2> QED
    BY <2>1, <2>2
<1> QED
  BY <1>3, <1>4, <1>5, <1>6, <1>7, <1>8 DEF ChainInv

\* A prune deletes below the window only, so it preserves the invariant.
LEMMA DeleteStep ==
  ASSUME ChainInv, TypeOK', NEW w \in Writers, PruneDelete(w)
  PROVE  ChainInv' /\ Published' = Published
<1> USE DEF memory, history
<1>1. PICK d \in stale[w] : /\ stored' = stored \ {d}
                           /\ manifest' = [manifest EXCEPT ![d] = NoShards]
                           /\ stale' = [stale EXCEPT ![w] = @ \ {d}]
  BY Zenon DEF PruneDelete
<1>2. UNCHANGED <<pc, index, additions, removals, listed, merged, owed, overtaken>>
  BY Zenon DEF PruneDelete
<1>3. stored \subseteq Int /\ d \in Int /\ d \in Generations
  BY DEF ChainInv, TypeOK
<1>4. PICK h \in stored : d + Retain <= h
  BY DEF ChainInv, StaleBelowWindow
<1>5. PICK n \in stored : IsNewest(n)
  BY <1>4, Zenon DEF ChainInv, NewestExists
<1>6. d + Retain <= n /\ n # d /\ n \in stored'
  BY <1>1, <1>3, <1>4, <1>5 DEF IsNewest
<1>7. \A m \in stored : m <= n
  BY <1>5, Zenon DEF IsNewest
<1>8. IsNewest(n)'
  BY <1>1, <1>6, <1>7 DEF IsNewest
<1>9. ASSUME NEW m \in stored', IsNewest(m)'
      PROVE  m = n
  BY <1>1, <1>3, <1>6, <1>7, <1>9 DEF IsNewest
<1>10. NewestExists'
  BY <1>6, <1>8, Zenon DEF NewestExists
<1>11. Window'
  <2> SUFFICES ASSUME NEW m \in stored', NEW g \in Generations,
                      IsNewest(m)', g <= m, m < g + Retain
               PROVE  g \in stored'
    BY Zenon DEF Window
  <2>1. m = n
    BY <1>9
  <2>2. g \in stored
    BY <2>1, <1>5, Zenon DEF ChainInv, Window
  <2>3. n \in Int /\ g \in Int /\ n < g + Retain
    BY <2>1, <2>2, <1>3, Zenon
  <2>4. g # d
    BY <2>3, <1>6
  <2> QED
    BY <2>2, <2>4, <1>1, Zenon
<1>12. StaleBelowWindow'
  <2> SUFFICES ASSUME NEW v \in Writers, NEW g \in stale'[v]
               PROVE  g + Retain <= n
    BY <1>6 DEF StaleBelowWindow
  <2>1. g \in stale[v] /\ g \in Int
    BY <1>1 DEF ChainInv, TypeOK
  <2>2. PICK k \in stored : g + Retain <= k
    BY <2>1, Zenon DEF ChainInv, StaleBelowWindow
  <2>3. k \in Int /\ n \in Int /\ k <= n
    BY <1>3, <1>7, Zenon
  <2> QED
    BY <2>1, <2>2, <2>3
<1>13. ListedNotAhead'
  <2> SUFFICES ASSUME NEW v \in Writers, listed[v] # -1
               PROVE  listed[v] <= n
    BY <1>2, <1>6 DEF ListedNotAhead
  <2>1. PICK k \in stored : listed[v] <= k
    BY Zenon DEF ChainInv, ListedNotAhead
  <2>2. listed[v] \in Int
    BY DEF ChainInv, TypeOK
  <2> QED
    BY <2>1, <2>2, <1>3, <1>7
<1>14. MergedIntoBase'
  <2> SUFFICES ASSUME NEW v \in Writers, pc[v] = "create"
               PROVE  /\ listed[v] = -1 =>
                            /\ merged[v] = Merge(v, NoShards, TRUE)'
                            /\ ~Refused(v, NoShards, TRUE)'
                      /\ IsNewest(listed[v])' =>
                            /\ merged[v] = Merge(v, manifest[listed[v]], FALSE)'
                            /\ ~Refused(v, manifest[listed[v]], FALSE)'
    BY <1>2, Zenon DEF MergedIntoBase
  <2>1. Merge(v, NoShards, TRUE)' = Merge(v, NoShards, TRUE) /\ (Refused(v, NoShards, TRUE)' <=> Refused(v, NoShards, TRUE))
    BY <1>2, MergeKept, Zenon
  <2>2. listed[v] = -1 => merged[v] = Merge(v, NoShards, TRUE)' /\ ~Refused(v, NoShards, TRUE)'
    BY <2>1, Zenon DEF ChainInv, MergedIntoBase
  <2>3. ASSUME IsNewest(listed[v])'
        PROVE  /\ merged[v] = Merge(v, manifest[listed[v]], FALSE)'
               /\ ~Refused(v, manifest[listed[v]], FALSE)'
    <3>1. listed[v] = n
      <4>1. listed[v] \in stored' /\ \A m \in stored' : m <= listed[v]
        BY <2>3, <1>2, Zenon DEF IsNewest
      <4>2. listed[v] \in stored /\ n <= listed[v]
        BY <4>1, <1>1, <1>6, Zenon
      <4>3. listed[v] \in Int /\ n \in Int /\ listed[v] <= n
        BY <4>2, <1>3, <1>7, Zenon
      <4> QED
        BY <4>2, <4>3
    <3>2. manifest'[listed'[v]] = manifest[listed[v]]
      BY <3>1, <1>1, <1>2, <1>6, Zenon DEF ChainInv, TypeOK
    <3>3. /\ Merge(v, manifest[listed[v]], FALSE)' = Merge(v, manifest[listed[v]], FALSE)
          /\ Refused(v, manifest[listed[v]], FALSE)' <=> Refused(v, manifest[listed[v]], FALSE)
      BY <1>2, <3>2, MergeKept, Zenon
    <3> QED
      BY <1>5, <3>1, <3>3, Zenon DEF ChainInv, MergedIntoBase
  <2> QED
    BY <2>2, <2>3, Zenon
<1>15. LandedSavesVisible' /\ Published' = Published
  <2>1. Published = manifest[n]
    BY <1>3, <1>5, PublishedOfNewest, Zenon
  <2>2. /\ stored' \subseteq Int /\ n \in stored' /\ \A i \in stored' : i <= n
        /\ n = CHOOSE i \in stored' : i \in stored' /\ \A k \in stored' : k <= i
    <3>1. stored' \subseteq Int /\ n \in stored' /\ \A i \in stored' : i <= n
      BY <1>1, <1>3, <1>6, <1>8, Zenon DEF IsNewest
    <3> QED BY <3>1, GreatestIsOne, Zenon
  <2>3. Published' = manifest'[n]
    BY <2>2, Zenon DEF Published, IsNewest
  <2>4. manifest'[n] = manifest[n]
    BY <1>1, <1>6, Zenon DEF ChainInv, TypeOK
  <2> QED
    BY <2>1, <2>3, <2>4, <1>2, Zenon DEF ChainInv, LandedSavesVisible
<1> QED
  BY <1>10, <1>11, <1>12, <1>13, <1>14, <1>15 DEF ChainInv

\* The invariant holds initially and every step preserves it.
LEMMA ChainInitial == Init => ChainInv
<1> SUFFICES ASSUME Init PROVE ChainInv
  BY Zenon
<1>1. TypeOK
  <2>1. 1 \in 1..MaxAttempts
    OBVIOUS
  <2>2. NoShards \in Manifests
    BY Zenon DEF NoShards, Manifests
  <2> QED
    BY <2>1, <2>2, Zenon DEF Init, TypeOK, Labels
<1>2. LandedSavesVisible
  BY PublishedOfNothing, Zenon DEF Init, LandedSavesVisible
<1> QED
  BY <1>1, <1>2, Zenon DEF Init, ChainInv, NewestExists, Window, StaleBelowWindow,
     ListedNotAhead, MergedIntoBase

\* A listing names the newest generation.
LEMMA ListingStep ==
  ASSUME ChainInv, NEW w \in Writers, ListNewest(w)
  PROVE  /\ listed' = [listed EXCEPT ![w] = listed'[w]]
         /\ listed'[w] # -1 => \E h \in stored : listed'[w] <= h
BY Zenon DEF ListNewest, ChainInv, TypeOK, IsNewest

\* Every step of every writer preserves the invariant.
LEMMA ChainStep ==
  ASSUME ChainInv, [Next]_vars
  PROVE  ChainInv'
<1> USE DEF Goto, memory, history
<1>0. TypeOK /\ TypeOK'
  BY TypeStep, Zenon DEF ChainInv
<1>a. \A w \in Writers : \A g \in stale[w] : \E h \in stored : g + Retain <= h
  BY Zenon DEF ChainInv, StaleBelowWindow
<1>b. \A w \in Writers : listed[w] # -1 => \E h \in stored : listed[w] <= h
  BY Zenon DEF ChainInv, ListedNotAhead
<1>1. ASSUME NEW w \in Writers, LoadList(w)
      PROVE  ChainInv'
  <2>1. /\ listed' = [listed EXCEPT ![w] = listed'[w]]
        /\ listed'[w] # -1 => \E h \in stored : listed'[w] <= h
    BY <1>1, ListingStep, Zenon DEF LoadList
  <2>2. OnlyMoves(w)
    BY <1>0, <1>1, <2>1, Zenon DEF LoadList, OnlyMoves, TypeOK
  <2>3. stale'[w] = stale[w] /\ pc'[w] # "create"
    BY <1>0, <1>1, Zenon DEF LoadList, TypeOK
  <2> QED
    BY <1>0, <1>a, <2>1, <2>2, <2>3, QuietStep, Zenon
<1>2. ASSUME NEW w \in Writers, LoadRead(w)
      PROVE  ChainInv'
  <2>1. OnlyMoves(w)
    BY <1>0, <1>2, Zenon DEF LoadRead, OnlyMoves, TypeOK
  <2>2. /\ stale'[w] = stale[w] \/ stale'[w] = {}
        /\ listed'[w] = listed[w] \/ listed'[w] = -1
        /\ pc'[w] # "create"
    BY <1>0, <1>2, Zenon DEF LoadRead, TypeOK
  <2> QED
    BY <1>0, <1>a, <1>b, <2>1, <2>2, QuietStep, Zenon
<1>3. ASSUME NEW w \in Writers, NEW r \in Records, AddBlock(w, r)
      PROVE  ChainInv'
  <2>1. OnlyMoves(w)
    BY <1>0, <1>3, Zenon DEF AddBlock, OnlyMoves, TypeOK
  <2>2. /\ stale'[w] = stale[w] \/ stale'[w] = {}
        /\ listed'[w] = listed[w] \/ listed'[w] = -1
        /\ pc'[w] # "create"
    BY <1>0, <1>3, Zenon DEF AddBlock, TypeOK
  <2> QED
    BY <1>0, <1>a, <1>b, <2>1, <2>2, QuietStep, Zenon
<1>4. ASSUME NEW w \in Writers, NEW r \in Records, NEW K \in SUBSET Keys, ReplaceBlocks(w, K, r)
      PROVE  ChainInv'
  <2>1. OnlyMoves(w)
    BY <1>0, <1>4, Zenon DEF ReplaceBlocks, OnlyMoves, TypeOK
  <2>2. /\ stale'[w] = stale[w] \/ stale'[w] = {}
        /\ listed'[w] = listed[w] \/ listed'[w] = -1
        /\ pc'[w] # "create"
    BY <1>0, <1>4, Zenon DEF ReplaceBlocks, TypeOK
  <2> QED
    BY <1>0, <1>a, <1>b, <2>1, <2>2, QuietStep, Zenon
<1>5. ASSUME NEW w \in Writers, NEW K \in SUBSET Keys, RemoveBlocks(w, K)
      PROVE  ChainInv'
  <2>1. OnlyMoves(w)
    BY <1>0, <1>5, Zenon DEF RemoveBlocks, OnlyMoves, TypeOK
  <2>2. /\ stale'[w] = stale[w] \/ stale'[w] = {}
        /\ listed'[w] = listed[w] \/ listed'[w] = -1
        /\ pc'[w] # "create"
    BY <1>0, <1>5, Zenon DEF RemoveBlocks, TypeOK
  <2> QED
    BY <1>0, <1>a, <1>b, <2>1, <2>2, QuietStep, Zenon
<1>6. ASSUME NEW w \in Writers, BeginSave(w)
      PROVE  ChainInv'
  <2>1. OnlyMoves(w)
    BY <1>0, <1>6, Zenon DEF BeginSave, OnlyMoves, TypeOK
  <2>2. /\ stale'[w] = stale[w] \/ stale'[w] = {}
        /\ listed'[w] = listed[w] \/ listed'[w] = -1
        /\ pc'[w] # "create"
    BY <1>0, <1>6, Zenon DEF BeginSave, TypeOK
  <2> QED
    BY <1>0, <1>a, <1>b, <2>1, <2>2, QuietStep, Zenon
<1>7. ASSUME NEW w \in Writers, ListBase(w)
      PROVE  ChainInv'
  <2>1. /\ listed' = [listed EXCEPT ![w] = listed'[w]]
        /\ listed'[w] # -1 => \E h \in stored : listed'[w] <= h
    BY <1>7, ListingStep, Zenon DEF ListBase
  <2>2. OnlyMoves(w)
    BY <1>0, <1>7, <2>1, ZenonT(60) DEF ListBase, OnlyMoves, TypeOK
  <2>3. stale'[w] = stale[w] /\ pc'[w] # "create"
    BY <1>0, <1>7, Zenon DEF ListBase, TypeOK
  <2> QED
    BY <1>0, <1>a, <2>1, <2>2, <2>3, QuietStep, Zenon
<1>8. ASSUME NEW w \in Writers, ReadBase(w)
      PROVE  ChainInv'
  <2>1. OnlyMoves(w)
    BY <1>0, <1>8, ZenonT(60) DEF ReadBase, TryAgain, OnlyMoves, TypeOK
  <2>2. stale'[w] = stale[w] /\ (listed'[w] = listed[w] \/ listed'[w] = -1)
    BY <1>0, <1>8, Zenon DEF ReadBase, TryAgain, TypeOK
  <2>3. UNCHANGED <<stored, manifest, index, additions, removals>>
    BY <1>8, Zenon DEF ReadBase
  <2>4. ASSUME pc'[w] = "create"
        PROVE  /\ listed' = listed
               /\ listed[w] = -1 =>
                     /\ merged'[w] = Merge(w, NoShards, TRUE)
                     /\ ~Refused(w, NoShards, TRUE)
               /\ IsNewest(listed[w]) =>
                     /\ merged'[w] = Merge(w, manifest[listed[w]], FALSE)
                     /\ ~Refused(w, manifest[listed[w]], FALSE)
    <3>1. ~TryAgain(w)
      BY <1>0, <2>4, Zenon DEF TryAgain, TypeOK
    <3>2. -1 \notin stored
      BY <1>0 DEF TypeOK
    <3>3. CASE listed[w] = -1
      <4>1. /\ ~Refused(w, NoShards, TRUE)
            /\ merged' = [merged EXCEPT ![w] = Merge(w, NoShards, TRUE)]
            /\ listed' = listed
        BY <1>8, <3>1, <3>2, <3>3, Zenon DEF ReadBase
      <4> QED
        BY <1>0, <3>2, <3>3, <4>1, Zenon DEF TypeOK, IsNewest
    <3>4. CASE listed[w] # -1
      <4>1. /\ ~Refused(w, manifest[listed[w]], FALSE)
            /\ merged' = [merged EXCEPT ![w] = Merge(w, manifest[listed[w]], FALSE)]
            /\ listed' = listed
        BY <1>8, <3>1, <3>4, Zenon DEF ReadBase
      <4> QED
        BY <1>0, <3>4, <4>1, Zenon DEF TypeOK
    <3> QED
      BY <3>3, <3>4, Zenon
  <2>5. /\ Merge(w, NoShards, TRUE)' = Merge(w, NoShards, TRUE)
        /\ Refused(w, NoShards, TRUE)' <=> Refused(w, NoShards, TRUE)
    BY <2>3, MergeKept, Zenon
  <2>6. ASSUME listed' = listed
        PROVE  /\ Merge(w, manifest[listed[w]], FALSE)' = Merge(w, manifest[listed[w]], FALSE)
               /\ Refused(w, manifest[listed[w]], FALSE)' <=> Refused(w, manifest[listed[w]], FALSE)
    BY <2>3, <2>6, MergeKept, Zenon
  <2> QED
    BY <1>0, <1>a, <1>b, <2>1, <2>2, <2>4, <2>5, <2>6, QuietStep, Zenon
<1>9. ASSUME NEW w \in Writers, CreateConflict(w)
      PROVE  ChainInv'
  <2>1. OnlyMoves(w)
    BY <1>0, <1>9, ZenonT(60) DEF CreateConflict, TryAgain, OnlyMoves, TypeOK
  <2>2. /\ stale'[w] = stale[w] \/ stale'[w] = {}
        /\ listed'[w] = listed[w] \/ listed'[w] = -1
        /\ pc'[w] # "create"
    BY <1>0, <1>9, Zenon DEF CreateConflict, TryAgain, TypeOK
  <2> QED
    BY <1>0, <1>a, <1>b, <2>1, <2>2, QuietStep, Zenon
<1>10. ASSUME NEW w \in Writers, PruneList(w)
      PROVE  ChainInv'
  <2>1. OnlyMoves(w)
    BY <1>0, <1>10, Zenon DEF PruneList, OnlyMoves, TypeOK
  <2>2. listed'[w] = listed[w] /\ pc'[w] # "create"
    BY <1>0, <1>10, Zenon DEF PruneList, TypeOK
  <2>3. ASSUME NEW g \in stale'[w]
        PROVE  \E h \in stored : g + Retain <= h
    <3>1. g \in stored /\ Cardinality({h \in stored : h > g}) >= Retain
      BY <1>0, <1>10, Zenon DEF PruneList, TypeOK
    <3>2. PICK n \in stored : IsNewest(n)
      BY <3>1, Zenon DEF ChainInv, NewestExists
    <3> QED
      BY <1>0, <3>1, <3>2, StaleIsFarBehind, Zenon DEF TypeOK
  <2> QED
    BY <1>0, <1>b, <2>1, <2>2, <2>3, QuietStep, Zenon
<1>11. ASSUME NEW w \in Writers, CommitPending(w)
      PROVE  ChainInv'
  <2>1. OnlyMoves(w)
    BY <1>0, <1>11, Zenon DEF CommitPending, OnlyMoves, TypeOK
  <2>2. /\ stale'[w] = stale[w] \/ stale'[w] = {}
        /\ listed'[w] = listed[w] \/ listed'[w] = -1
        /\ pc'[w] # "create"
    BY <1>0, <1>11, Zenon DEF CommitPending, TypeOK
  <2> QED
    BY <1>0, <1>a, <1>b, <2>1, <2>2, QuietStep, Zenon
<1>12. ASSUME NEW w \in Writers, Crash(w)
      PROVE  ChainInv'
  <2>1. OnlyMoves(w)
    BY <1>0, <1>12, Zenon DEF Crash, OnlyMoves, TypeOK
  <2>2. /\ stale'[w] = stale[w] \/ stale'[w] = {}
        /\ listed'[w] = listed[w] \/ listed'[w] = -1
        /\ pc'[w] # "create"
    BY <1>0, <1>12, ZenonT(60) DEF Crash, TypeOK
  <2> QED
    BY <1>0, <1>a, <1>b, <2>1, <2>2, QuietStep, Zenon
<1>13. ASSUME NEW w \in Writers, Create(w)
       PROVE  ChainInv'
  <2>1. \A v \in Writers :
           pc'[v] = "create" =>
              pc[v] = "create" /\ UNCHANGED <<listed[v], merged[v]>>
    BY <1>0, <1>13, Zenon DEF Create, TypeOK
  <2>2. \A v \in Writers : listed'[v] = listed[v] \/ listed'[v] = -1
    BY <1>0, <1>13, Zenon DEF Create, TypeOK
  <2> QED
    BY <1>0, <1>13, <2>1, <2>2, LandStep, Zenon DEF Create
<1>14. ASSUME NEW w \in Writers, CreateUnseen(w)
       PROVE  ChainInv'
  BY <1>0, <1>14, LandStep, Zenon DEF CreateUnseen
<1>15. ASSUME NEW w \in Writers, PruneDelete(w)
       PROVE  ChainInv'
  BY <1>0, <1>15, DeleteStep, Zenon
<1>16. CASE UNCHANGED vars
  <2> USE <1>16 DEF vars, ChainInv
  <2>1. NewestExists' /\ Window'
    BY Zenon DEF NewestExists, Window, IsNewest
  <2>2. StaleBelowWindow' /\ ListedNotAhead'
    BY Zenon DEF StaleBelowWindow, ListedNotAhead
  <2>3. MergedIntoBase'
    <3>1. \A v, base, first : /\ Merge(v, base, first)' = Merge(v, base, first)
                              /\ Refused(v, base, first)' = Refused(v, base, first)
      BY DEF Merge, Contributed, Refused, Touched
    <3> QED BY <3>1, Zenon DEF MergedIntoBase, IsNewest
  <2>4. LandedSavesVisible'
    BY Zenon DEF LandedSavesVisible, Published, IsNewest
  <2> QED
    BY <1>0, <2>1, <2>2, <2>3, <2>4, Zenon
<1> QED
  BY <1>1, <1>2, <1>3, <1>4, <1>5, <1>6, <1>7, <1>8, <1>9, <1>10, <1>11,
     <1>12, <1>13, <1>14, <1>15, <1>16, Zenon DEF Next, Edit, Save, Records

\* A landed save is never lost while no create lands below the newest
\* generation: the published index is the fold of every landed save, for any
\* number of writers, generations and attempts.
THEOREM LandedSavesStayVisible == Spec => []LandedSavesVisible
<1>1. Init => ChainInv
  BY ChainInitial, Zenon
<1>2. ChainInv /\ [Next]_vars => ChainInv'
  BY ChainStep, Zenon
<1>3. ChainInv => LandedSavesVisible
  BY Zenon DEF ChainInv
<1> QED
  BY <1>1, <1>2, <1>3, PTL DEF Spec
-----------------------------------------------------------------------------
(* What a step may do. *)

\* Generations appear by a create only; what a reader sees moves by a create
\* only.
LEMMA StepKinds ==
  ASSUME ChainInv, [Next]_vars
  PROVE  \/ /\ stored' \subseteq stored
            /\ Published' = Published
         \/ \E w \in Writers : pc[w] = "create" /\ Land(w)
<1> USE DEF Goto, memory, history
<1>1. ASSUME UNCHANGED <<stored, manifest>>
      PROVE  Published' = Published
  BY <1>1 DEF Published, IsNewest
<1>2. ASSUME NEW w \in Writers, PruneDelete(w)
      PROVE  stored' \subseteq stored /\ Published' = Published
  <2>1. TypeOK'
    BY TypeStep, Zenon DEF ChainInv
  <2>2. Published' = Published
    BY <1>2, <2>1, DeleteStep, Zenon
  <2>3. stored' \subseteq stored
    BY <1>2, Zenon DEF PruneDelete
  <2> QED
    BY <2>2, <2>3, Zenon
<1>3. ASSUME NEW w \in Writers, Create(w) \/ CreateUnseen(w)
      PROVE  pc[w] = "create" /\ Land(w)
  BY <1>3, Zenon DEF Create, CreateUnseen
<1>4. ASSUME NEW w \in Writers, Edit(w)
      PROVE  UNCHANGED <<stored, manifest>>
  BY <1>4, Zenon DEF Edit, AddBlock, ReplaceBlocks, RemoveBlocks
<1>5. ASSUME NEW w \in Writers,
             LoadList(w) \/ LoadRead(w) \/ BeginSave(w) \/ ListBase(w) \/ Crash(w)
      PROVE  UNCHANGED <<stored, manifest>>
  BY <1>5, Zenon DEF LoadList, LoadRead, BeginSave, ListBase, Crash
<1>6. ASSUME NEW w \in Writers,
             ReadBase(w) \/ CreateConflict(w) \/ PruneList(w) \/ CommitPending(w)
      PROVE  UNCHANGED <<stored, manifest>>
  BY <1>6, Zenon DEF ReadBase, CreateConflict, PruneList, CommitPending
<1>7. CASE UNCHANGED vars
  BY <1>1, <1>7, Zenon DEF vars
<1>8. CASE Next
  <2>1. PICK w \in Writers : LoadList(w) \/ LoadRead(w) \/ Edit(w) \/ Save(w) \/ Crash(w)
    BY <1>8, Zenon DEF Next
  <2> QED
    BY <2>1, <1>1, <1>2, <1>3, <1>4, <1>5, <1>6, Zenon DEF Save
<1> QED
  BY <1>7, <1>8, Zenon

\* No update is lost between two generations: what readers see only ever moves
\* by one writer's merge into exactly what they saw before.
THEOREM NoLostUpdate == Spec => PublishedMovesByMerge
<1>1. Init => ChainInv
  BY ChainInitial, Zenon
<1>2. ChainInv /\ [Next]_vars => ChainInv'
  BY ChainStep, Zenon
<1>3. ASSUME ChainInv, [Next]_vars, Published' # Published
      PROVE  \E w \in Writers : /\ pc[w] = "create"
                               /\ Published' = Merge(w, Published, listed[w] = -1)
  <2>1. PICK w \in Writers : pc[w] = "create" /\ Land(w)
    BY <1>3, StepKinds, Zenon
  <2>2. TypeOK'
    BY <1>3, TypeStep, Zenon DEF ChainInv
  <2>3. \A g \in stored : g <= listed[w]
    BY <1>3, <2>1, <2>2, LandLate, Zenon
  <2> QED
    BY <1>3, <2>1, <2>2, <2>3, LandInTurn, Zenon
<1>4. ChainInv /\ [Next]_vars =>
        [Published' # Published =>
           \E w \in Writers : /\ pc[w] = "create"
                              /\ Published' = Merge(w, Published, listed[w] = -1)]_vars
  BY <1>3, Zenon
<1> QED
  BY <1>1, <1>2, <1>4, PTL DEF Spec, PublishedMovesByMerge

\* A writer loses its save to a prune only when Retain generations beyond the
\* one it claims are created during a single attempt of it.
THEOREM LateCreates == Spec => LateCreateIsFarBehind
<1>1. Init => ChainInv
  BY ChainInitial, Zenon
<1>2. ChainInv /\ [Next]_vars => ChainInv'
  BY ChainStep, Zenon
<1>3. ASSUME ChainInv, [Next]_vars, NEW g \in stored' \ stored
      PROVE  \/ \A h \in stored : h < g
             \/ \E h \in stored : g + Retain <= h
  <2>1. PICK w \in Writers : pc[w] = "create" /\ Land(w)
    BY <1>3, StepKinds, Zenon
  <2>2. TypeOK'
    BY <1>3, TypeStep, Zenon DEF ChainInv
  <2>3. g = Claim(w)
    BY <2>1, Zenon DEF Land
  <2>4. CASE \A h \in stored : h <= listed[w]
    <3>1. listed[w] \in Int /\ stored \subseteq Int /\ g = listed[w] + 1
      BY <1>3, <2>3 DEF ChainInv, TypeOK, Claim
    <3> QED
      BY <2>4, <3>1
  <2>5. CASE ~(\A h \in stored : h <= listed[w])
    BY <1>3, <2>1, <2>2, <2>3, <2>5, LandLate, Zenon
  <2> QED
    BY <2>4, <2>5, Zenon
<1>4. ChainInv /\ [Next]_vars =>
        [\A g \in stored' \ stored :
            \/ \A h \in stored : h < g
            \/ \E h \in stored : g + Retain <= h]_vars
  BY <1>3, Zenon
<1> QED
  BY <1>1, <1>2, <1>4, PTL DEF Spec, LateCreateIsFarBehind

\* A load fails on a pruned manifest only when Retain generations were created
\* between its listing and its read.
THEOREM FailedLoads == Spec => LoadFailsOnlyFarBehind
<1>1. Init => ChainInv
  BY ChainInitial, Zenon
<1>2. ChainInv /\ [Next]_vars => ChainInv'
  BY ChainStep, Zenon
<1>3. ASSUME ChainInv, [Next]_vars, NEW w \in Writers,
             pc[w] = "load", listed'[w] # -1, pc'[w] = "down"
      PROVE  \E h \in stored : listed[w] + Retain <= h
  <2> USE DEF Goto, memory, history
  <2>0. TypeOK
    BY <1>3, Zenon DEF ChainInv
  <2>1. ASSUME NEW v \in Writers, v # w,
               \/ LoadList(v) \/ LoadRead(v) \/ Edit(v) \/ Save(v) \/ Crash(v)
        PROVE  pc'[w] = pc[w]
    BY <2>0, <2>1, Zenon DEF TypeOK, LoadList, LoadRead, Edit, AddBlock, ReplaceBlocks,
       RemoveBlocks, Save, BeginSave, ListBase, ReadBase, TryAgain, Create,
       CreateConflict, CreateUnseen, PruneList, PruneDelete, CommitPending, Crash
  <2>2. ~Crash(w)
    BY <1>3, <2>0, Zenon DEF Crash, TypeOK
  <2>3. ~Edit(w) /\ ~Save(w) /\ ~LoadList(w)
    BY <1>3, Zenon DEF Edit, AddBlock, ReplaceBlocks, RemoveBlocks, Save, BeginSave,
       ListBase, ReadBase, Create, CreateConflict, CreateUnseen, PruneList,
       PruneDelete, CommitPending, LoadList
  <2>4. LoadRead(w)
    BY <1>3, <2>1, <2>2, <2>3, Zenon DEF Next, vars
  <2>5. listed[w] # -1 /\ listed[w] \notin stored
    BY <1>3, <2>0, <2>4, Zenon DEF LoadRead, TypeOK
  <2>6. listed[w] \in Generations /\ stored \subseteq Int
    BY <2>0, <2>5 DEF TypeOK
  <2>7. PICK h \in stored : listed[w] <= h
    BY <1>3, <2>5, Zenon DEF ChainInv, ListedNotAhead
  <2>8. PICK n \in stored : IsNewest(n)
    BY <1>3, <2>7, Zenon DEF ChainInv, NewestExists
  <2>9. listed[w] <= n
    BY <2>6, <2>7, <2>8 DEF IsNewest
  <2>10. ~(n < listed[w] + Retain)
    BY <1>3, <2>5, <2>6, <2>8, <2>9, Zenon DEF ChainInv, Window
  <2>11. n \in Int /\ listed[w] \in Int
    BY <2>6
  <2>12. listed[w] + Retain <= n
    BY <2>10, <2>11
  <2> QED
    BY <2>8, <2>12, Zenon
<1>4. ChainInv /\ [Next]_vars =>
        [\A w \in Writers :
            (pc[w] = "load" /\ listed'[w] # -1 /\ pc'[w] = "down") =>
               \E h \in stored : listed[w] + Retain <= h]_vars
  BY <1>3, Zenon
<1> QED
  BY <1>1, <1>2, <1>4, PTL DEF Spec, LoadFailsOnlyFarBehind

-----------------------------------------------------------------------------
(* One record per key in a shard. *)

\* No two records of R are of one key.
Distinct(R) == \A r, s \in R : r.key = s.key => r = s

\* A shard holds records of its own slot, no two of one key.
Sound(m) == \A s \in Slots : Distinct(m[s]) /\ \A r \in m[s] : s \in r.span

\* Manifests and the manifests about to be created are sound, and indexes hold
\* one record per key.
KeysDistinct ==
    /\ \A g \in Generations : Sound(manifest[g])
    /\ \A w \in Writers : Distinct(index[w]) /\ Sound(merged[w])

\* A merge keeps shards sound: in a touched shard what is contributed replaces
\* its namesakes, and the others are carried as they are.
LEMMA MergeSound ==
  ASSUME NEW w, NEW base, NEW noBase, Sound(base), Distinct(index[w])
  PROVE  Sound(Merge(w, base, noBase))
<1> DEFINE new == Contributed(w, noBase)
           M == Merge(w, base, noBase)
<1>1. Distinct(new)
  BY Zenon DEF Distinct, Contributed
<1>2. \A r \in new : r.key \in KeysOf(new)
  BY Zenon DEF KeysOf
<1>3. ASSUME NEW s \in Slots, NEW r \in M[s]
      PROVE  \/ r \in new /\ s \in r.span
             \/ r \in base[s] /\ (M[s] = base[s] \/ r.key \notin KeysOf(new))
  BY <1>3, Zenon DEF Merge
<1> HIDE DEF new, M
<1>4. ASSUME NEW s \in Slots, NEW r \in M[s]
      PROVE  s \in r.span
  BY <1>3, <1>4, Zenon DEF Sound
<1>5. ASSUME NEW s \in Slots, NEW r \in M[s], NEW q \in M[s], r.key = q.key
      PROVE  r = q
  <2>1. Distinct(base[s])
    BY Zenon DEF Sound
  <2>2. CASE r \in new /\ q \in new
    BY <1>1, <1>5, <2>2, Zenon DEF Distinct
  <2>3. CASE r \in base[s] /\ q \in base[s]
    BY <1>5, <2>1, <2>3, Zenon DEF Distinct
  <2> QED
    BY <1>2, <1>3, <1>5, <2>2, <2>3, Zenon
<1>6. Sound(M)
  BY <1>4, <1>5, Zenon DEF Sound, Distinct
<1> QED
  BY <1>6, Zenon DEF M

\* Of two records of one key a load keeps one: ranks tell them apart.
LEMMA LoadedDistinct ==
  ASSUME NEW m \in Manifests
  PROVE  Distinct(Loaded(m))
<1> SUFFICES ASSUME NEW r \in Loaded(m), NEW q \in Loaded(m), r.key = q.key
             PROVE  r = q
  BY Zenon DEF Distinct
<1>1. r \in Records /\ q \in Records
  BY LoadedType, Zenon
<1>2. r.rank <= q.rank /\ q.rank <= r.rank
  BY Zenon DEF Loaded
<1>3. r.rank \in Int /\ q.rank \in Int
  BY <1>1, RecordsAssumption DEF Records
<1>4. r.rank = q.rank
  BY <1>2, <1>3
<1> QED
  BY <1>1, <1>4, RanksAssumption, Zenon DEF Records

\* Adding a record after its namesakes have left keeps keys apart.
LEMMA ReplaceDistinct ==
  ASSUME NEW R, NEW r, NEW K, Distinct(R)
  PROVE  /\ Distinct(Without(R, K))
         /\ r.key \in K => Distinct(Without(R, K) \cup {r})
BY Zenon DEF Distinct, Without

\* Every step keeps keys apart.
LEMMA DistinctStep ==
  ASSUME TypeOK, KeysDistinct, [Next]_vars
  PROVE  KeysDistinct'
<1> USE DEF Goto, memory, history
<1>0. Distinct({}) /\ Sound(NoShards) /\ NoShards \in Manifests
  BY Zenon DEF Distinct, Sound, NoShards, Manifests
<1>t. /\ manifest \in [Generations -> Manifests] /\ stored \subseteq Generations
      /\ index \in [Writers -> SUBSET Records] /\ merged \in [Writers -> Manifests]
  BY Zenon DEF TypeOK
<1>1. ASSUME NEW w \in Writers, NEW R, Distinct(R), index' = [index EXCEPT ![w] = R],
             UNCHANGED <<manifest, merged>>
      PROVE  KeysDistinct'
  <2>1. \A v \in Writers : index'[v] = index[v] \/ index'[v] = R
    BY <1>1, <1>t, Zenon
  <2> QED BY <1>1, <2>1, Zenon DEF KeysDistinct
<1>2. ASSUME NEW w \in Writers, NEW R, Sound(R), merged' = [merged EXCEPT ![w] = R],
             UNCHANGED <<manifest, index>>
      PROVE  KeysDistinct'
  <2>1. \A v \in Writers : merged'[v] = merged[v] \/ merged'[v] = R
    BY <1>2, <1>t, Zenon
  <2> QED BY <1>2, <2>1, Zenon DEF KeysDistinct
<1>3. ASSUME UNCHANGED <<manifest, merged, index>>  PROVE KeysDistinct'
  BY <1>3, Zenon DEF KeysDistinct
<1>4. ASSUME NEW w \in Writers, LoadRead(w)  PROVE KeysDistinct'
  <2>1. CASE UNCHANGED index
    BY <1>3, <1>4, <2>1, Zenon DEF LoadRead
  <2>2. CASE listed[w] \in stored /\ index' = [index EXCEPT ![w] = Loaded(manifest[listed[w]])]
    <3>1. Distinct(Loaded(manifest[listed[w]]))
      BY <1>t, <2>2, LoadedDistinct, Zenon
    <3> QED BY <1>1, <1>4, <2>2, <3>1, Zenon DEF LoadRead
  <2> QED BY <1>4, <2>1, <2>2, Zenon DEF LoadRead
<1>5. ASSUME NEW w \in Writers, Edit(w)  PROVE KeysDistinct'
  <2>0. Distinct(index[w])
    BY Zenon DEF KeysDistinct
  <2>1. ASSUME NEW r \in Records, AddBlock(w, r)  PROVE KeysDistinct'
    <3>1. index' = [index EXCEPT ![w] = Without(index[w], {r.key}) \cup {r}]
          /\ UNCHANGED <<manifest, merged>>
      BY <2>1, Zenon DEF AddBlock
    <3>2. Distinct(Without(index[w], {r.key}) \cup {r})
      BY <2>0, ReplaceDistinct, Zenon
    <3> QED BY <1>1, <3>1, <3>2, Zenon
  <2>2. ASSUME NEW r \in Records, NEW K \in SUBSET Keys, ReplaceBlocks(w, K, r)
        PROVE  KeysDistinct'
    <3>1. index' = [index EXCEPT ![w] = Without(index[w], K \cup {r.key}) \cup {r}]
          /\ UNCHANGED <<manifest, merged>>
      BY <2>2, Zenon DEF ReplaceBlocks
    <3>2. Distinct(Without(index[w], K \cup {r.key}) \cup {r})
      BY <2>0, ReplaceDistinct, Zenon
    <3> QED BY <1>1, <3>1, <3>2, Zenon
  <2>3. ASSUME NEW K \in SUBSET Keys, RemoveBlocks(w, K)  PROVE KeysDistinct'
    <3>1. index' = [index EXCEPT ![w] = Without(index[w], K)] /\ UNCHANGED <<manifest, merged>>
      BY <2>3, Zenon DEF RemoveBlocks
    <3>2. Distinct(Without(index[w], K))
      BY <2>0, ReplaceDistinct, Zenon
    <3> QED BY <1>1, <3>1, <3>2, Zenon
  <2> QED BY <1>5, <2>1, <2>2, <2>3, Zenon DEF Edit, Records
<1>6. ASSUME NEW w \in Writers, ReadBase(w)  PROVE KeysDistinct'
  <2>1. UNCHANGED <<manifest, index>>
    BY <1>6, Zenon DEF ReadBase
  <2>2. Sound(Merge(w, NoShards, TRUE))
    BY <1>0, MergeSound, Zenon DEF KeysDistinct
  <2>3. ASSUME listed[w] \in stored  PROVE Sound(Merge(w, manifest[listed[w]], FALSE))
    <3>1. Sound(manifest[listed[w]]) /\ Distinct(index[w])
      BY <1>t, <2>3, Zenon DEF KeysDistinct
    <3> QED BY <3>1, MergeSound, Zenon
  <2> QED BY <1>0, <1>2, <1>6, <2>1, <2>2, <2>3, Zenon DEF ReadBase, TryAgain
<1>7. ASSUME NEW w \in Writers, pc[w] = "create", Land(w), UNCHANGED index,
             \A v \in Writers : merged'[v] \in {merged[v], NoShards}
      PROVE  KeysDistinct'
  <2>1. manifest' = [manifest EXCEPT ![Claim(w)] = merged[w]] /\ Sound(merged[w])
    BY <1>7, Zenon DEF Land, KeysDistinct
  <2>2. \A g \in Generations : manifest'[g] \in {manifest[g], merged[w]}
    BY <1>t, <2>1, Zenon
  <2> QED BY <1>0, <1>7, <2>1, <2>2, Zenon DEF KeysDistinct
<1>8. ASSUME NEW w \in Writers, Create(w) \/ CreateUnseen(w)  PROVE KeysDistinct'
  BY <1>t, <1>7, <1>8, Zenon DEF Create, CreateUnseen
<1>9. ASSUME NEW w \in Writers, CreateConflict(w)  PROVE KeysDistinct'
  BY <1>0, <1>2, <1>9, Zenon DEF CreateConflict, TryAgain
<1>10. ASSUME NEW w \in Writers, PruneDelete(w)  PROVE KeysDistinct'
  <2>1. UNCHANGED <<index, merged>> /\ \A g \in Generations : manifest'[g] \in {manifest[g], NoShards}
    BY <1>t, <1>10, Zenon DEF PruneDelete
  <2> QED BY <1>0, <2>1, Zenon DEF KeysDistinct
<1>11. ASSUME NEW w \in Writers, Crash(w)  PROVE KeysDistinct'
  <2>1. /\ UNCHANGED manifest
        /\ \A v \in Writers : index'[v] \in {index[v], {}} /\ merged'[v] \in {merged[v], NoShards}
    BY <1>t, <1>11, Zenon DEF Crash
  <2> QED BY <1>0, <2>1, Zenon DEF KeysDistinct
<1>12. ASSUME NEW w \in Writers,
              LoadList(w) \/ BeginSave(w) \/ ListBase(w) \/ PruneList(w) \/ CommitPending(w)
       PROVE  KeysDistinct'
  BY <1>3, <1>12, Zenon DEF LoadList, BeginSave, ListBase, PruneList, CommitPending
<1>13. CASE UNCHANGED vars
  BY <1>3, <1>13, Zenon DEF vars
<1> QED
  BY <1>4, <1>5, <1>6, <1>8, <1>9, <1>10, <1>11, <1>12, <1>13, Zenon DEF Next, Save

\* Nothing is stored or loaded at first.
LEMMA DistinctInitial == Init => KeysDistinct
<1> SUFFICES ASSUME Init  PROVE KeysDistinct
  BY Zenon
<1>1. /\ \A g \in Generations : manifest[g] = NoShards
      /\ \A w \in Writers : index[w] = {} /\ merged[w] = NoShards
  BY Zenon DEF Init
<1>2. Distinct({}) /\ Sound(NoShards)
  BY Zenon DEF Distinct, Sound, NoShards
<1> QED BY <1>1, <1>2, Zenon DEF KeysDistinct

\* Nothing stored or loaded holds a key twice where a reader would count it
\* twice: no shard has two records of one key, every record is in a shard of
\* its own span, and a load resolves what is left, however often and with
\* whatever spans a key is registered.
THEOREM RecordsAreUnique == Spec => []OneRecordPerShard
<1>1. Init => KeysDistinct
  BY DistinctInitial, Zenon
<1>2. TypeOK /\ KeysDistinct /\ [Next]_vars => KeysDistinct'
  BY DistinctStep, Zenon
<1>3. TypeOK /\ KeysDistinct => OneRecordPerShard
  BY Zenon DEF TypeOK, KeysDistinct, Sound, Distinct, OneRecordPerShard
<1> QED
  BY <1>1, <1>2, <1>3, TypeCorrect, PTL DEF Spec
-----------------------------------------------------------------------------
(* Swaps. *)

\* No key is pending both as an addition and as a pinned removal: every edit of
\* an index that records one forgets the other.
PinsNotPending ==
    \A w \in Writers : \A r \in removals[w] : r.key \notin additions[w]

\* Every step keeps pending additions and pinned removals apart.
LEMMA PinsStep ==
  ASSUME TypeOK, PinsNotPending, [Next]_vars
  PROVE  PinsNotPending'
<1> USE DEF Goto, memory, history, TypeOK
<1>1. ASSUME NEW w \in Writers, NEW r \in Records, AddBlock(w, r)
      PROVE  PinsNotPending'
  BY <1>1, Zenon DEF AddBlock, Without, PinsNotPending
<1>2. ASSUME NEW w \in Writers, NEW r \in Records, NEW K \in SUBSET Keys,
             ReplaceBlocks(w, K, r)
      PROVE  PinsNotPending'
  BY <1>2, Zenon DEF ReplaceBlocks, Retired, Without, PinsNotPending
<1>3. ASSUME NEW w \in Writers, NEW K \in SUBSET Keys, RemoveBlocks(w, K)
      PROVE  PinsNotPending'
  BY <1>3, Zenon DEF RemoveBlocks, Retired, Without, PinsNotPending
<1>4. ASSUME NEW w \in Writers, CommitPending(w) \/ Crash(w)
      PROVE  PinsNotPending'
  BY <1>4, ZenonT(60) DEF CommitPending, Crash, PinsNotPending
<1>5. ASSUME UNCHANGED <<additions, removals>>
      PROVE  PinsNotPending'
  BY <1>5, Zenon DEF PinsNotPending
<1>6. ASSUME NEW w \in Writers,
             \/ LoadList(w) \/ LoadRead(w) \/ BeginSave(w) \/ ListBase(w)
             \/ ReadBase(w) \/ Create(w) \/ CreateConflict(w) \/ CreateUnseen(w)
             \/ PruneList(w) \/ PruneDelete(w)
      PROVE  UNCHANGED <<additions, removals>>
  BY <1>6, Zenon DEF LoadList, LoadRead, BeginSave, ListBase, ReadBase, Create,
     CreateConflict, CreateUnseen, PruneList, PruneDelete
<1> QED
  BY <1>1, <1>2, <1>3, <1>4, <1>5, <1>6, Zenon DEF Next, Edit, Save, Records, vars

\* A compaction or retention swap is published whole or not at all: a save
\* becomes the newest generation only over a base that holds every record it
\* retires, and none of them stays.
THEOREM SwapsAreWhole == Spec => SwapIsWhole
<1> DEFINE Inv == ChainInv /\ PinsNotPending /\ KeysDistinct
<1>1. Init => Inv
  BY ChainInitial, DistinctInitial, Zenon DEF Init, PinsNotPending
<1>2. Inv /\ [Next]_vars => Inv'
  BY ChainStep, PinsStep, DistinctStep, Zenon DEF ChainInv
<1>3. ASSUME Inv, [Next]_vars, NEW w \in Writers,
             pc[w] = "create", pc'[w] = "prune", \A h \in stored : h <= listed[w]
      PROVE  removals[w] \subseteq Held(Published) /\ removals[w] \cap Held(Published') = {}
  <2> USE DEF Goto, memory, history
  <2>0. TypeOK /\ TypeOK'
    BY <1>3, TypeStep, Zenon DEF ChainInv
  <2>1. ASSUME NEW v \in Writers, v # w,
               \/ LoadList(v) \/ LoadRead(v) \/ Edit(v) \/ Save(v) \/ Crash(v)
        PROVE  pc'[w] = pc[w]
    BY <2>0, <2>1, Zenon DEF TypeOK, LoadList, LoadRead, Edit, AddBlock, ReplaceBlocks,
       RemoveBlocks, Save, BeginSave, ListBase, ReadBase, TryAgain, Create,
       CreateConflict, CreateUnseen, PruneList, PruneDelete, CommitPending, Crash
  <2>2. LoadList(w) \/ LoadRead(w) \/ Edit(w) \/ Save(w) \/ Crash(w)
    BY <1>3, <2>1, Zenon DEF Next, vars
  <2>3. Land(w)
    BY <1>3, <2>0, <2>2, ZenonT(60) DEF TypeOK, LoadList, LoadRead, Edit, AddBlock,
       ReplaceBlocks, RemoveBlocks, Save, BeginSave, ListBase, ReadBase, TryAgain,
       Create, CreateConflict, CreateUnseen, PruneList, PruneDelete,
       CommitPending, Crash
  <2>4. /\ ~Refused(w, Published, listed[w] = -1)
        /\ Published' = Merge(w, Published, listed[w] = -1)
        /\ listed[w] = -1 => stored = {}
        /\ listed[w] # -1 => IsNewest(listed[w])
    BY <1>3, <2>0, <2>3, LandInTurn, Zenon
  <2>5. removals[w] \subseteq Held(Published)
    <3>1. Touched(w, listed[w] = -1) \subseteq Slots
      BY <2>0, TouchedType, Zenon
    <3> QED BY <2>4, <3>1, Zenon DEF Refused, Held
  <2>6. CASE listed[w] = -1
    <3>1. Held(Published) = {}
      BY <2>4, <2>6, PublishedOfNothing, Zenon DEF Held, NoShards
    <3> QED BY <2>5, <3>1, Zenon
  <2>7. CASE listed[w] # -1
    <3>1. Sound(Published)
      <4>1. Published = manifest[listed[w]]
        <5>1. stored \subseteq Int
          BY <2>0 DEF TypeOK
        <5> QED BY <2>4, <2>7, <5>1, PublishedOfNewest, Zenon
      <4>2. listed[w] \in Generations
        BY <2>0, <2>7, Zenon DEF TypeOK
      <4> QED BY <1>3, <4>1, <4>2, Zenon DEF KeysDistinct
    <3>2. \A r \in removals[w] : r \notin Contributed(w, listed[w] = -1)
      BY <1>3, <2>7, Zenon DEF PinsNotPending, Contributed
    <3>3. ASSUME NEW r \in removals[w], NEW s \in Slots, r \in Merge(w, Published, listed[w] = -1)[s]
          PROVE  FALSE
      <4>1. CASE s \in Touched(w, listed[w] = -1)
        BY <3>2, <3>3, <4>1, Zenon DEF Merge
      <4>2. CASE s \notin Touched(w, listed[w] = -1)
        <5>1. r \in Published[s]
          BY <3>3, <4>2, Zenon DEF Merge
        <5>2. s \in r.span
          BY <3>1, <5>1, Zenon DEF Sound
        <5> QED BY <4>2, <5>2, Zenon DEF Touched
      <4> QED BY <4>1, <4>2, Zenon
    <3>4. removals[w] \cap Held(Published') = {}
      BY <2>4, <3>3, Zenon DEF Held
    <3> QED BY <2>5, <3>4, Zenon
  <2> QED
    BY <2>6, <2>7, Zenon
<1>4. Inv /\ [Next]_vars =>
        [\A w \in Writers :
            (pc[w] = "create" /\ pc'[w] = "prune" /\ \A h \in stored : h <= listed[w]) =>
               /\ removals[w] \subseteq Held(Published)
               /\ removals[w] \cap Held(Published') = {}]_vars
  BY <1>3, Zenon
<1> QED
  BY <1>1, <1>2, <1>4, PTL DEF Spec, SwapIsWhole
-----------------------------------------------------------------------------
(* A registration is published once. *)

\* What a writer has had published is pending no longer, but between its create
\* and the acknowledgement, and after a create it has not learnt of; and as long
\* as no generation is stored nothing has been published.
NothingTwice ==
    /\ \A w \in Writers : stored = {} => landed[w] = {}
    /\ \A w \in Writers : pc[w] \in {"down", "load"} => additions[w] = {}
    /\ \A w \in Writers : pc[w] \notin {"prune", "delete"} /\ ~unseen[w] =>
          \A r \in landed[w] : r \in index[w] => r.key \notin additions[w]

\* A step of w that publishes nothing, for the other writers and the store.
LEMMA NothingTwiceQuietly ==
  ASSUME NothingTwice, NEW w \in Writers, stored' = {} => stored = {},
         landed'[w] \subseteq landed[w],
         \A v \in Writers \ {w} :
            UNCHANGED <<pc[v], index[v], additions[v], landed[v], unseen[v]>>,
         pc'[w] \in {"down", "load"} => additions'[w] = {},
         pc'[w] \notin {"prune", "delete"} /\ ~unseen'[w] =>
            \A r \in landed'[w] : r \in index'[w] => r.key \notin additions'[w]
  PROVE  NothingTwice'
<1>1. ASSUME NEW v \in Writers
      PROVE  /\ stored' = {} => landed'[v] = {}
             /\ pc'[v] \in {"down", "load"} => additions'[v] = {}
             /\ pc'[v] \notin {"prune", "delete"} /\ ~unseen'[v] =>
                  \A r \in landed'[v] : r \in index'[v] => r.key \notin additions'[v]
  <2>1. CASE v = w
    BY <2>1, Zenon DEF NothingTwice
  <2>2. CASE v # w
    BY <2>2, Zenon DEF NothingTwice
  <2> QED BY <2>1, <2>2, Zenon
<1> QED BY <1>1, Zenon DEF NothingTwice

\* Every step keeps NothingTwice.
LEMMA NothingTwiceStep ==
  ASSUME ChainInv, NothingTwice, [Next]_vars
  PROVE  NothingTwice'
<1> USE DEF Goto, memory, history
<1>t. /\ pc \in [Writers -> Labels] /\ index \in [Writers -> SUBSET Records]
      /\ additions \in [Writers -> SUBSET Keys] /\ landed \in [Writers -> SUBSET Records]
      /\ unseen \in [Writers -> BOOLEAN]
  BY Zenon DEF ChainInv, TypeOK
<1>1. ASSUME NEW w \in Writers, NEW r \in Records, AddBlock(w, r)  PROVE NothingTwice'
  <2>1. /\ UNCHANGED <<stored, pc, unseen>> /\ pc[w] = "idle"
        /\ \A v \in Writers \ {w} : UNCHANGED <<index[v], additions[v], landed[v]>>
        /\ landed'[w] = landed[w] \ {r} /\ additions'[w] = additions[w] \cup {r.key}
        /\ index'[w] = Without(index[w], {r.key}) \cup {r}
    BY <1>t, <1>1, Zenon DEF AddBlock
  <2>2. ~unseen'[w] => \A s \in landed'[w] : s \in index'[w] => s.key \notin additions'[w]
    BY <2>1, Zenon DEF NothingTwice, Without
  <2> QED BY <2>1, <2>2, NothingTwiceQuietly, Zenon
<1>2. ASSUME NEW w \in Writers, NEW r \in Records, NEW K \in SUBSET Keys, ReplaceBlocks(w, K, r)
      PROVE  NothingTwice'
  <2>1. /\ UNCHANGED <<stored, pc, unseen>> /\ pc[w] = "idle"
        /\ \A v \in Writers \ {w} : UNCHANGED <<index[v], additions[v], landed[v]>>
        /\ landed'[w] = landed[w] \ {r} /\ additions'[w] = (additions[w] \ K) \cup {r.key}
        /\ index'[w] = Without(index[w], K \cup {r.key}) \cup {r}
    BY <1>t, <1>2, Zenon DEF ReplaceBlocks
  <2>2. ~unseen'[w] => \A s \in landed'[w] : s \in index'[w] => s.key \notin additions'[w]
    BY <2>1, Zenon DEF NothingTwice, Without
  <2> QED BY <2>1, <2>2, NothingTwiceQuietly, Zenon
<1>3. ASSUME NEW w \in Writers, NEW K \in SUBSET Keys, RemoveBlocks(w, K)  PROVE NothingTwice'
  <2>1. /\ UNCHANGED <<stored, pc, landed, unseen>> /\ pc[w] = "idle"
        /\ \A v \in Writers \ {w} : UNCHANGED <<index[v], additions[v]>>
        /\ additions'[w] = additions[w] \ K /\ index'[w] = Without(index[w], K)
    BY <1>t, <1>3, Zenon DEF RemoveBlocks
  <2>2. ~unseen'[w] => \A s \in landed'[w] : s \in index'[w] => s.key \notin additions'[w]
    BY <2>1, Zenon DEF NothingTwice, Without
  <2> QED BY <2>1, <2>2, NothingTwiceQuietly, Zenon
<1>4. ASSUME NEW w \in Writers, LoadRead(w)  PROVE NothingTwice'
  <2>1. /\ UNCHANGED <<stored, landed, additions, unseen>> /\ pc[w] = "load" /\ pc'[w] \in {"idle", "down"}
        /\ \A v \in Writers \ {w} : UNCHANGED <<pc[v], index[v]>>
    BY <1>t, <1>4, Zenon DEF LoadRead
  <2>2. additions'[w] = {}
    BY <2>1, Zenon DEF NothingTwice
  <2> QED BY <2>1, <2>2, NothingTwiceQuietly, Zenon
<1>5. ASSUME NEW w \in Writers, CommitPending(w) \/ Crash(w)  PROVE NothingTwice'
  <2>1. /\ UNCHANGED stored /\ landed'[w] \subseteq landed[w] /\ additions'[w] = {}
        /\ \A v \in Writers \ {w} : UNCHANGED <<pc[v], index[v], additions[v], landed[v], unseen[v]>>
    BY <1>t, <1>5, ZenonT(60) DEF CommitPending, Crash
  <2> QED BY <2>1, NothingTwiceQuietly, Zenon
<1>6. ASSUME NEW w \in Writers,
             \/ LoadList(w) \/ BeginSave(w) \/ ListBase(w) \/ ReadBase(w) \/ CreateConflict(w)
      PROVE  NothingTwice'
  <2>1. /\ UNCHANGED <<stored, landed, additions, index, unseen>>
        /\ pc'[w] \in {"down", "load"} => pc[w] \in {"down", "load"}
        /\ pc[w] \notin {"prune", "delete"}
        /\ \A v \in Writers \ {w} : UNCHANGED pc[v]
    BY <1>t, <1>6, Zenon DEF LoadList, BeginSave, ListBase, ReadBase, CreateConflict, TryAgain
  <2>2. /\ pc'[w] \in {"down", "load"} => additions'[w] = {}
        /\ ~unseen'[w] => \A s \in landed'[w] : s \in index'[w] => s.key \notin additions'[w]
    BY <2>1, Zenon DEF NothingTwice
  <2> QED BY <2>1, <2>2, NothingTwiceQuietly, Zenon
<1>7. ASSUME NEW w \in Writers, PruneList(w) \/ PruneDelete(w)  PROVE NothingTwice'
  <2>1. /\ UNCHANGED <<landed, additions, index, unseen>> /\ pc'[w] = "delete"
        /\ \A v \in Writers \ {w} : UNCHANGED pc[v]
    BY <1>t, <1>7, Zenon DEF PruneList, PruneDelete
  <2>2. stored' = {} => stored = {}
    <3>1. CASE PruneList(w)
      BY <3>1, Zenon DEF PruneList
    <3>2. CASE PruneDelete(w)
      <4>1. PICK g \in stale[w] : stored' = stored \ {g}
        BY <3>2, Zenon DEF PruneDelete
      <4>2. PICK h \in stored : g + Retain <= h
        BY Zenon DEF ChainInv, StaleBelowWindow
      <4>3. g \in Int
        BY DEF ChainInv, TypeOK
      <4>4. h # g
        BY <4>2, <4>3
      <4> QED BY <4>1, <4>2, <4>4, Zenon
    <3> QED BY <1>7, <3>1, <3>2, Zenon
  <2> QED BY <2>1, <2>2, NothingTwiceQuietly, Zenon
<1>8. ASSUME NEW w \in Writers, Create(w) \/ CreateUnseen(w)  PROVE NothingTwice'
  <2>1. /\ stored' # {} /\ UNCHANGED <<index, additions>>
        /\ pc[w] = "create" /\ pc'[w] \in {"create", "prune"}
        /\ pc'[w] = "prune" \/ unseen'[w]
        /\ \A v \in Writers \ {w} : UNCHANGED <<pc[v], landed[v], unseen[v]>>
    BY <1>t, <1>8, Zenon DEF Create, CreateUnseen, Land
  <2>2. ASSUME NEW v \in Writers
        PROVE  /\ pc'[v] \in {"down", "load"} => additions'[v] = {}
               /\ pc'[v] \notin {"prune", "delete"} /\ ~unseen'[v] =>
                    \A r \in landed'[v] : r \in index'[v] => r.key \notin additions'[v]
    BY <2>1, Zenon DEF NothingTwice
  <2> QED BY <2>1, <2>2, Zenon DEF NothingTwice
<1>9. CASE UNCHANGED vars
  BY <1>9, Zenon DEF vars, NothingTwice
<1> QED
  BY <1>1, <1>2, <1>3, <1>4, <1>5, <1>6, <1>7, <1>8, <1>9, Zenon DEF Next, Edit, Save, Records

\* A registered block enters the published index at most once, unless its
\* writer has not learnt of a create that landed: what another writer has
\* retired since does not come back (PendingBlockAdditions, commit_pending).
THEOREM AdditionsLandOnce == Spec => AdditionLandsOnce
<1> DEFINE Inv == ChainInv /\ NothingTwice
<1>1. Init => Inv
  <2>1. Init => NothingTwice
    BY Zenon DEF Init, NothingTwice
  <2> QED BY <2>1, ChainInitial, Zenon
<1>2. Inv /\ [Next]_vars => Inv'
  BY ChainStep, NothingTwiceStep, Zenon
<1>3. ASSUME Inv, [Next]_vars, NEW r \in Held(Published') \ Held(Published)
      PROVE  \E w \in Writers : r \in landed'[w] /\ (r \in landed[w] => unseen[w])
  <2>1. PICK w \in Writers : pc[w] = "create" /\ Land(w)
    BY <1>3, StepKinds, Zenon
  <2>2. TypeOK /\ TypeOK'
    BY <1>3, TypeStep, Zenon DEF ChainInv
  <2>3. \A g \in stored : g <= listed[w]
    BY <1>3, <2>1, <2>2, LandLate, Zenon
  <2>4. /\ Published' = Merge(w, Published, listed[w] = -1)
        /\ listed[w] = -1 => stored = {}
    BY <1>3, <2>1, <2>2, <2>3, LandInTurn, Zenon
  <2>5. r \in Contributed(w, listed[w] = -1)
    <3>1. PICK s \in Slots : r \in Published'[s] /\ r \notin Published[s]
      BY <1>3, Zenon DEF Held
    <3> QED BY <2>4, <3>1, Zenon DEF Merge
  <2>6. r \in landed'[w]
    BY <2>1, <2>2, <2>5, Zenon DEF Land, TypeOK
  <2>7. r \in landed[w] => unseen[w]
    <3>1. CASE listed[w] = -1
      BY <1>3, <2>4, <3>1, Zenon DEF NothingTwice
    <3>2. CASE listed[w] # -1
      BY <1>3, <2>1, <2>5, <3>2, Zenon DEF NothingTwice, Contributed
    <3> QED BY <3>1, <3>2, Zenon
  <2> QED BY <2>6, <2>7, Zenon
<1>4. Inv /\ [Next]_vars =>
        [\A r \in Held(Published') \ Held(Published) :
            \E w \in Writers : r \in landed'[w] /\ (r \in landed[w] => unseen[w])]_vars
  BY <1>3, Zenon
<1> QED
  BY <1>1, <1>2, <1>4, PTL DEF Spec, AdditionLandsOnce
=============================================================================
