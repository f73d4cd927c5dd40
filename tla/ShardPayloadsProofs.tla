------------------------- MODULE ShardPayloadsProofs -------------------------
(***************************************************************************)
(* TLAPS proof that the orphan sweep spares every payload a retained       *)
(* manifest names, but for the two ways it goes wrong, for any writers,    *)
(* slots, contents, retention, interval, timeout, budget and grace, and    *)
(* whether or not the store gives every put a new version.                 *)
(***************************************************************************)
EXTENDS ShardPayloads, FiniteSetTheorems, TLAPS

\* The retained generations: the newest and the Retain - 1 before it.
Window(top) == {g \in Generations : g <= top /\ g > top - Retain}

\* The slot is one v took over from its base, if the base is still retained.
Carried(v, s) ==
    base[v] # -1 /\ (base[v] \in stored => manifest[base[v]][s] = target[v][s])

Payload(v, s) == <<s, target[v][s]>>

\* v has put the payload since it merged, and only a sweep that had it listed
\* may have taken its bytes.
Written(v, s) ==
    /\ object[Payload(v, s)] = "bytes" \/ Payload(v, s) \in restored
    /\ age[Payload(v, s)] <= elapsed[v]

\* v may still create a manifest that names what it has in s.
Naming(v, s) ==
    /\ pc[v] = "put" /\ elapsed[v] <= PublishTimeout
    /\ target[v][s] # None /\ s \notin unwritten[v]

Saves(v) ==
    /\ pc[v] = "put" => base[v] = -1 \/ \E h \in stored : base[v] <= h
    /\ \A s \in unwritten[v] : target[v][s] # None
    /\ \A s \in Slots : Naming(v, s) => Carried(v, s) \/ Written(v, s)

\* What a sweep is about to reclaim, unless it was put again since, no manifest
\* names, nor will a save name it other than by taking it over from a manifest.
Reclaims(w) ==
    \A p \in candidates[w] \ restored :
        /\ ~blind => \A g \in stored : p \notin Named(manifest[g])
        /\ \A v \in Writers, s \in Slots : Naming(v, s) /\ p = Payload(v, s) => Carried(v, s)

\* A payload that a sweep has not found named by the manifests it read so far is
\* too young for it, or the newest manifest it listed names it too.
Reads(w) ==
    pc[w] = "manifests" =>
        /\ elapsed[w] <= SweepBudget
        /\ \A g \in unread[w] : \E h \in stored : g <= h
        /\ \A g \in stored : \A p \in Named(manifest[g]) :
              \/ blind \/ g \in unread[w] \/ p \in referenced[w]
              \/ age[p] <= PublishTimeout + elapsed[w]
              \/ \E last \in unread[w] :
                    /\ \A h \in unread[w] : h <= last
                    /\ last \in stored => p \in Named(manifest[last])

\* The inductive invariant.
PayloadInv ==
    /\ TypeOK
    /\ stored = {} \/ \E top \in Generations : stored = Window(top)
    /\ RetainedPayloadsIntact
    /\ \A w \in Writers : Saves(w) /\ Reclaims(w) /\ Reads(w)
-----------------------------------------------------------------------------
\* What payload_object_keys returns.
LEMMA NamedIs ==
    ASSUME NEW m \in Manifests
    PROVE  /\ Named(m) \subseteq Payloads
           /\ \A p : p \in Named(m) <=> \E s \in Slots : m[s] # None /\ p = <<s, m[s]>>
BY DEF Named, Manifests, Payloads

\* A slot that a writer may name after a step that leaves its save, the objects
\* and the retained manifests alone is one it could name before.
LEMMA SlotStays ==
    ASSUME NEW v \in Writers, NEW s \in Slots, Naming(v, s)',
           UNCHANGED <<pc[v], base[v], target[v], unwritten[v], elapsed[v]>>,
           UNCHANGED <<stored, object, age, restored>>,
           \A g \in stored : manifest'[g] = manifest[g]
    PROVE  /\ Naming(v, s) /\ Payload(v, s)' = Payload(v, s)
           /\ Carried(v, s) => Carried(v, s)'
           /\ Written(v, s) => Written(v, s)'
<1>1. Naming(v, s) /\ Payload(v, s)' = Payload(v, s)
  BY Zenon DEF Naming, Payload
<1>2. Carried(v, s) => Carried(v, s)'
  BY Zenon DEF Carried
<1>3. Written(v, s) => Written(v, s)'
  BY <1>1, Zenon DEF Written
<1> QED BY <1>1, <1>2, <1>3, Zenon

\* What a sweep is about to reclaim stays out of use across a step that brings
\* no candidate, no manifest and no slot that a save may name.
LEMMA ReclaimsStay ==
    ASSUME NEW w \in Writers, Reclaims(w),
           candidates'[w] \subseteq candidates[w], blind => blind', UNCHANGED restored,
           \A g \in stored' : g \in stored /\ manifest'[g] = manifest[g],
           \A v \in Writers, s \in Slots : Naming(v, s)' =>
               /\ Naming(v, s) /\ Payload(v, s)' = Payload(v, s)
               /\ Carried(v, s) => Carried(v, s)'
    PROVE  Reclaims(w)'
<1> SUFFICES ASSUME NEW p \in candidates'[w] \ restored
             PROVE  /\ ~blind' => \A g \in stored' : p \notin Named(manifest'[g])
                    /\ \A v \in Writers, s \in Slots :
                          Naming(v, s)' /\ p = Payload(v, s)' => Carried(v, s)'
  BY Zenon DEF Reclaims
<1>1. p \in candidates[w] \ restored
  BY Zenon
<1>2. ASSUME ~blind', NEW g \in stored'  PROVE p \notin Named(manifest'[g])
  BY <1>1, <1>2, Zenon DEF Reclaims
<1>3. ASSUME NEW v \in Writers, NEW s \in Slots, Naming(v, s)', p = Payload(v, s)'
      PROVE  Carried(v, s)'
  BY <1>1, <1>3, Zenon DEF Reclaims
<1> QED BY <1>2, <1>3, Zenon

\* A save that a step leaves alone stays sound when its slots do.
LEMMA SavesStay ==
    ASSUME NEW w \in Writers, Saves(w), UNCHANGED stored,
           UNCHANGED <<pc[w], base[w], target[w], unwritten[w]>>,
           \A s \in Slots : Naming(w, s)' =>
               /\ Naming(w, s)
               /\ Carried(w, s) => Carried(w, s)'
               /\ Written(w, s) => Written(w, s)'
    PROVE  Saves(w)'
<1>1. pc'[w] = "put" => base'[w] = -1 \/ \E h \in stored' : base'[w] <= h
  BY Zenon DEF Saves
<1>2. \A s \in unwritten'[w] : target'[w][s] # None
  BY Zenon DEF Saves
<1>3. \A s \in Slots : Naming(w, s)' => Carried(w, s)' \/ Written(w, s)'
  BY Zenon DEF Saves
<1> QED BY <1>1, <1>2, <1>3, Zenon DEF Saves

\* What a sweep has found out stays true across a step of another writer that
\* leaves the retained manifests alone.
LEMMA ReadsStay ==
    ASSUME NEW w \in Writers, Reads(w), UNCHANGED <<stored, age, blind>>,
           \A g \in stored : manifest'[g] = manifest[g],
           pc'[w] = "manifests" => /\ pc[w] = "manifests"
                                   /\ UNCHANGED <<elapsed[w], unread[w], referenced[w]>>
    PROVE  Reads(w)'
<1> SUFFICES ASSUME pc'[w] = "manifests"  PROVE Reads(w)'
  BY Zenon DEF Reads
<1>1. /\ elapsed'[w] <= SweepBudget
      /\ \A g \in unread'[w] : \E h \in stored' : g <= h
  BY Zenon DEF Reads
<1>2. ASSUME NEW g \in stored', NEW p \in Named(manifest'[g])
      PROVE  \/ blind' \/ g \in unread'[w] \/ p \in referenced'[w]
             \/ age'[p] <= PublishTimeout + elapsed'[w]
             \/ \E last \in unread'[w] :
                   /\ \A h \in unread'[w] : h <= last
                   /\ last \in stored' => p \in Named(manifest'[last])
  BY <1>2, Zenon DEF Reads
<1> QED BY <1>1, <1>2, Zenon DEF Reads

\* How many generations of a window lie above one of its own or the one before it.
LEMMA AboveInWindow ==
    ASSUME NEW top \in Generations, NEW g \in Int, g <= top, g >= top - Retain, g >= -1
    PROVE  Cardinality({h \in Window(top) : h > g}) = top - g
<1>1. Retain \in Nat /\ top \in Nat /\ top <= MaxGeneration /\ MaxGeneration \in Nat
  BY RetainAssumption, MaxGenerationAssumption DEF Generations
<1>2. {h \in Window(top) : h > g} = (g + 1)..top
  BY <1>1 DEF Window, Generations
<1>3. Cardinality((g + 1)..top) = IF g + 1 > top THEN 0 ELSE top - (g + 1) + 1
  BY <1>1, FS_Interval
<1> DEFINE n == Cardinality((g + 1)..top)
<1>4. n = top - g
  <2> HIDE DEF n
  <2>1. n = IF g + 1 > top THEN 0 ELSE top - (g + 1) + 1
    BY <1>3, Zenon DEF n
  <2> QED BY <1>1, <2>1
<1> QED BY <1>2, <1>4, Zenon

\* The conditional create with its prune: it is the newest generation, over the
\* base it was merged into, or it is pruned at once and changes nothing.
LEMMA CreateShape ==
    ASSUME PayloadInv, NEW v \in Writers, Create(v)
    PROVE  /\ manifest' \in [Generations -> Manifests]
           /\ \/ /\ stored' = stored
                 /\ \A g \in stored : manifest'[g] = manifest[g]
              \/ /\ base[v] + 1 \in stored' /\ stored' = Window(base[v] + 1)
                 /\ base[v] + 1 \in Generations
                 /\ stored' \subseteq stored \cup {base[v] + 1}
                 /\ manifest'[base[v] + 1] = target[v]
                 /\ \A g \in stored' : g # base[v] + 1 => manifest'[g] = manifest[g]
                 /\ \A g \in stored : g <= base[v]
                 /\ base[v] = -1 \/ base[v] \in stored
<1> DEFINE claim == base[v] + 1
           now == stored \cup {claim}
           kept == {g \in now : Cardinality({h \in now : h > g}) < Retain}
<1>1. /\ TypeOK /\ claim \in Generations /\ claim \notin stored /\ stored' = kept
      /\ base[v] = -1 \/ \E h \in stored : base[v] <= h
      /\ manifest' = [g \in Generations |->
              IF g \notin kept THEN NoShards
              ELSE IF g = claim THEN target[v] ELSE manifest[g]]
  BY Zenon DEF PayloadInv, Saves, Create
<1>2. Retain \in Nat /\ Retain > 0 /\ MaxGeneration \in Nat /\ Generations = 0..MaxGeneration
  BY RetainAssumption, MaxGenerationAssumption DEF Generations
<1> HIDE DEF kept
<1>3. \A g \in Generations :
        /\ g \notin kept => manifest'[g] = NoShards
        /\ g \in kept /\ g = claim => manifest'[g] = target[v]
        /\ g \in kept /\ g # claim => manifest'[g] = manifest[g]
  BY <1>1, Zenon
<1>4. manifest' \in [Generations -> Manifests]
  <2>1. NoShards \in Manifests
    BY Zenon DEF NoShards, Manifests
  <2>2. \A g \in Generations : manifest'[g] \in Manifests
    BY <1>1, <1>3, <2>1, Zenon DEF TypeOK
  <2>3. manifest' = [g \in Generations |-> manifest'[g]]
    BY <1>1, Zenon
  <2> QED BY <2>2, <2>3, Zenon
<1>5. base[v] \in Int /\ base[v] >= -1 /\ stored \subseteq Generations
  BY <1>1, <1>2 DEF TypeOK
<1> USE DEF kept
<1>6. CASE stored = {}
  <2>1. base[v] = -1 /\ claim = 0 /\ now = Window(0)
    BY <1>1, <1>2, <1>5, <1>6 DEF Window
  <2>2. {h \in now : h > 0} = {}
    BY <1>6, <2>1
  <2>3. kept = now
    <3>1. now = {0} /\ Cardinality({h \in now : h > 0}) = 0
      BY <1>6, <2>1, <2>2, FS_EmptySet, Zenon
    <3>2. 0 < Retain
      BY <1>2
    <3> QED BY <3>1, <3>2, Zenon
  <2> HIDE DEF kept
  <2> QED BY <1>1, <1>3, <1>4, <1>6, <2>1, <2>3, Zenon
<1>7. CASE stored # {}
  <2>1. PICK top \in Generations : stored = Window(top)
    BY <1>7, Zenon DEF PayloadInv
  <2>2. top \in stored /\ base[v] <= top /\ top \in Nat /\ \A g \in stored : g <= top
    <3>1. top \in stored /\ top \in Nat /\ \A g \in stored : g <= top
      BY <1>2, <2>1 DEF Window
    <3>2. base[v] <= top
      BY <1>1, <1>2, <1>5, <3>1
    <3> QED BY <3>1, <3>2, Zenon
  <2>3. CASE base[v] = top
    <3>1. PICK t \in Generations : t = top + 1 /\ claim = t /\ now = Window(top) \cup {t}
      BY <1>1, <2>1, <2>3, Zenon
    <3>2. \A g \in now : /\ {h \in now : h > g} = {h \in Window(t) : h > g}
                        /\ g \in Int /\ g <= t /\ g >= t - Retain /\ g >= -1
      <4>1. now \subseteq Window(t) \cup {t - Retain} /\ Window(t) \subseteq now
        BY <1>2, <2>2, <3>1 DEF Window
      <4>2. \A h \in Window(t) : h >= t - Retain /\ h <= t /\ h \in Nat
        BY <1>2 DEF Window
      <4>3. \A g \in now : g \in Nat
        BY <1>2, <3>1 DEF Window
      <4> HIDE DEF now, claim
      <4> QED BY <1>2, <4>1, <4>2, <4>3
    <3>3. \A g \in now : Cardinality({h \in Window(t) : h > g}) = t - g
      BY <3>2, AboveInWindow, Zenon
    <3>4. kept = {g \in now : t - g < Retain}
      BY <3>2, <3>3
    <3>5. kept = Window(claim)
      <4>1. {g \in now : t - g < Retain} = Window(t)
        BY <1>1, <1>2, <2>2, <3>1 DEF Window
      <4> QED BY <3>1, <3>4, <4>1, Zenon
    <3>6. claim \in kept
      BY <1>1, <1>2, <3>5 DEF Window
    <3>7. kept \subseteq stored \cup {claim}
      BY Zenon
    <3> HIDE DEF kept
    <3>8. \A g \in kept : g \in Generations
      BY <1>1, <1>5, <3>7, Zenon
    <3> QED BY <1>1, <1>3, <1>4, <2>2, <2>3, <3>5, <3>6, <3>7, <3>8, Zenon
  <2>4. CASE base[v] < top
    <3>1. claim <= top - Retain /\ claim \in Nat
      BY <1>1, <1>2, <1>5, <2>1, <2>2, <2>4 DEF Window
    <3>2. {h \in now : h > claim} = {h \in Window(top) : h > top - Retain}
      BY <1>2, <2>1, <2>2, <3>1 DEF Window
    <3>3. Cardinality({h \in now : h > claim}) = Retain
      BY <1>2, <2>2, <3>1, <3>2, AboveInWindow
    <3>4. ASSUME NEW g \in stored  PROVE Cardinality({h \in now : h > g}) < Retain
      <4>1. g \in Nat /\ g <= top /\ g > top - Retain
        BY <1>2, <2>1 DEF Window
      <4>2. {h \in now : h > g} = {h \in Window(top) : h > g}
        BY <1>2, <2>1, <2>2, <3>1, <4>1
      <4>3. Cardinality({h \in Window(top) : h > g}) = top - g
        BY <1>2, <2>2, <4>1, AboveInWindow
      <4>4. top - g < Retain
        BY <1>2, <2>2, <4>1
      <4> HIDE DEF now
      <4> QED BY <4>2, <4>3, <4>4, Zenon
    <3>5. kept = stored
      BY <1>1, <1>2, <3>3, <3>4
    <3> HIDE DEF kept
    <3> QED BY <1>1, <1>3, <1>4, <1>5, <3>5, Zenon
  <2> QED BY <1>5, <2>2, <2>3, <2>4
<1> QED BY <1>6, <1>7, Zenon
-----------------------------------------------------------------------------
\* An attempt or a sweep given up takes its intentions with it.
LEMMA AbandonKeeps ==
    ASSUME PayloadInv, NEW v \in Writers, Abandon(v)
    PROVE  PayloadInv'
<1> USE DEF PayloadInv, Abandon, Goto, Restart, store, hist
<1>1. TypeOK'
  BY TimesAssumption DEF TypeOK, NoShards, Manifests
<1>2. (stored = {} \/ \E top \in Generations : stored = Window(top))'
  BY Zenon DEF Window
<1>3. RetainedPayloadsIntact'
  BY Zenon DEF RetainedPayloadsIntact
<1>4. ASSUME NEW w \in Writers  PROVE (Saves(w) /\ Reclaims(w) /\ Reads(w))'
  <2>1. /\ pc'[v] = "idle" /\ unwritten'[v] = {} /\ candidates'[v] = {}
        /\ \A u \in Writers : u # v =>
              /\ pc'[u] = pc[u] /\ base'[u] = base[u] /\ target'[u] = target[u]
              /\ unwritten'[u] = unwritten[u] /\ elapsed'[u] = elapsed[u]
              /\ unread'[u] = unread[u] /\ referenced'[u] = referenced[u]
              /\ candidates'[u] = candidates[u]
    BY DEF TypeOK
  <2>2. ASSUME NEW u \in Writers, NEW s \in Slots, Naming(u, s)'
        PROVE  /\ Naming(u, s) /\ Payload(u, s)' = Payload(u, s)
               /\ Carried(u, s) => Carried(u, s)'
               /\ Written(u, s) => Written(u, s)'
    <3>1. u # v
      BY <2>1, <2>2, Zenon DEF Naming
    <3> QED BY <2>1, <2>2, <3>1, SlotStays, Zenon
  <2>3. Saves(w)'
    <3>1. CASE w # v
      BY <2>1, <2>2, <3>1, SavesStay, Zenon
    <3>2. CASE w = v
      BY <2>1, <3>2, Zenon DEF Saves, Naming
    <3> QED BY <3>1, <3>2, Zenon
  <2>4. Reclaims(w)'
    BY <2>1, <2>2, ReclaimsStay, Zenon
  <2>5. Reads(w)'
    BY <2>1, ReadsStay, Zenon
  <2> QED BY <2>3, <2>4, <2>5, Zenon
<1> QED BY <1>1, <1>2, <1>3, <1>4, Zenon

\* A merge takes over from its base every slot it will not write.
LEMMA MergeKeeps ==
    ASSUME PayloadInv, NEW v \in Writers, Merge(v)
    PROVE  PayloadInv'
<1> USE DEF PayloadInv, store, sweep, hist
<1>1. PICK g \in stored \cup {-1}, m \in Manifests :
        /\ target' = [target EXCEPT ![v] = m]
        /\ unwritten' = [unwritten EXCEPT ![v] = {s \in Slots : m[s] # None /\ m[s] # Shards(g)[s]}]
        /\ base' = [base EXCEPT ![v] = g]
  BY Zenon DEF Merge
<1>2. /\ pc' = [pc EXCEPT ![v] = "put"] /\ elapsed' = [elapsed EXCEPT ![v] = 0]
      /\ UNCHANGED <<stored, manifest, object, age, unread, referenced, candidates, blind, restored>>
  BY Zenon DEF Merge, Goto, Restart
<1>3. TypeOK'
  BY <1>1, <1>2, TimesAssumption DEF TypeOK
<1>4. (stored = {} \/ \E top \in Generations : stored = Window(top))'
  BY <1>2, Zenon DEF Window
<1>5. RetainedPayloadsIntact'
  BY <1>2, Zenon DEF RetainedPayloadsIntact
<1>6. ASSUME NEW w \in Writers  PROVE (Saves(w) /\ Reclaims(w) /\ Reads(w))'
  <2>1. /\ pc'[v] = "put" /\ target'[v] = m /\ base'[v] = g
        /\ unwritten'[v] = {s \in Slots : m[s] # None /\ m[s] # Shards(g)[s]}
        /\ \A u \in Writers : u # v =>
              /\ pc'[u] = pc[u] /\ base'[u] = base[u] /\ target'[u] = target[u]
              /\ unwritten'[u] = unwritten[u] /\ elapsed'[u] = elapsed[u]
    BY <1>1, <1>2, Zenon DEF TypeOK
  <2>2. ASSUME NEW s \in Slots, m[s] # None, m[s] = Shards(g)[s]
        PROVE  g # -1 /\ manifest[g][s] = m[s]
    BY <2>2, Zenon DEF Shards, NoShards
  <2>3. \A u \in Writers, s \in Slots :
          Naming(u, s)' => \/ u = v /\ Carried(u, s)'
                           \/ /\ u # v /\ Naming(u, s) /\ Payload(u, s)' = Payload(u, s)
                              /\ Carried(u, s) => Carried(u, s)'
                              /\ Written(u, s) => Written(u, s)'
    BY <1>2, <2>1, <2>2 DEF Naming, Payload, Carried, Written
  <2>4. Saves(w)'
    <3>2. g = -1 \/ \E h \in stored : g <= h
      BY DEF TypeOK, Generations
    <3> QED BY <1>2, <2>1, <2>3, <3>2 DEF Saves
  <2>5. Reclaims(w)'
    BY <1>2, <2>1, <2>3 DEF Reclaims
  <2>6. Reads(w)'
    BY <1>2, <2>1 DEF Reads
  <2> QED BY <2>4, <2>5, <2>6, Zenon
<1> QED BY <1>3, <1>4, <1>5, <1>6, Zenon

\* A put makes its payload young and takes it from every sweep's candidates, or
\* has it down as restored.
LEMMA PutPayloadKeeps ==
    ASSUME PayloadInv, NEW v \in Writers, PutPayload(v)
    PROVE  PayloadInv'
<1> USE DEF PayloadInv
<1>1. PICK s \in unwritten[v] :
        /\ object' = [object EXCEPT ![Payload(v, s)] = "bytes"]
        /\ age' = [age EXCEPT ![Payload(v, s)] = 0]
        /\ candidates' = StillListed(Payload(v, s))
        /\ restored' = IF \E u \in Writers : Payload(v, s) \in StillListed(Payload(v, s))[u]
                       THEN restored \cup {Payload(v, s)} ELSE restored \ {Payload(v, s)}
        /\ unwritten' = [unwritten EXCEPT ![v] = @ \ {s}]
  BY Zenon DEF PutPayload, Payload
<1>2. /\ pc[v] = "put"
      /\ UNCHANGED <<stored, manifest, pc, base, target, elapsed, unread, referenced, blind>>
  BY Zenon DEF PutPayload
<1> DEFINE p == Payload(v, s)
<1>3. p \in Payloads /\ s \in Slots
  BY <1>1 DEF Payload, Payloads, Manifests, TypeOK, Saves
<1> HIDE DEF p
<1>4. /\ object' = [object EXCEPT ![p] = "bytes"] /\ age' = [age EXCEPT ![p] = 0]
      /\ \A w \in Writers : candidates'[w] \subseteq candidates[w]
      /\ candidates' \in [Writers -> SUBSET Payloads]
      /\ \A w \in Writers : p \in candidates'[w] => p \in restored'
      /\ \A q : q # p => (q \in restored' <=> q \in restored)
      /\ restored' \subseteq Payloads
      /\ \A w \in Writers : unwritten'[w] = IF w = v THEN unwritten[w] \ {s} ELSE unwritten[w]
  BY <1>1, <1>3, Zenon DEF p, StillListed, TypeOK
<1>5. \A q \in Payloads : /\ object[q] = "bytes" => object'[q] = "bytes"
                          /\ age[q] \in Nat /\ age'[q] \in Nat /\ age'[q] <= age[q]
  BY <1>3, <1>4, TimesAssumption DEF TypeOK
<1>6. object'[p] = "bytes" /\ age'[p] = 0
  BY <1>3, <1>4, Zenon DEF TypeOK
<1>7. TypeOK'
  <2>1. unwritten' \in [Writers -> SUBSET Slots]
    BY <1>1, Zenon DEF TypeOK
  <2>2. object' \in [Payloads -> {"absent", "bytes", "tombstone"}]
    BY <1>3, <1>4 DEF TypeOK
  <2>3. age' \in [Payloads -> 0..Grace]
    BY <1>3, <1>4, TimesAssumption DEF TypeOK
  <2> QED BY <1>2, <1>4, <2>1, <2>2, <2>3, Zenon DEF TypeOK
<1>8. (stored = {} \/ \E top \in Generations : stored = Window(top))'
  BY <1>2 DEF Window
<1>9. \A g \in stored : Named(manifest[g]) \subseteq Payloads
  BY NamedIs, Zenon DEF TypeOK
<1>10. RetainedPayloadsIntact'
  <2> SUFFICES ASSUME ~blind, NEW g \in stored, NEW q \in Named(manifest[g]) \ restored'
               PROVE  object'[q] = "bytes"
    BY <1>2, Zenon DEF RetainedPayloadsIntact
  <2>1. CASE q = p
    BY <1>6, <2>1, Zenon
  <2>2. CASE q # p
    <3>1. q \in Named(manifest[g]) \ restored
      BY <1>4, <2>2, Zenon
    <3> QED BY <1>5, <1>9, <3>1, Zenon DEF RetainedPayloadsIntact
  <2> QED BY <2>1, <2>2, Zenon
<1>11. ASSUME NEW w \in Writers  PROVE (Saves(w) /\ Reclaims(w) /\ Reads(w))'
  <2>1. \A u \in Writers, t \in Slots : target[u][t] # None => Payload(u, t) \in Payloads
    BY DEF Payload, Payloads, Manifests, TypeOK
  <2>2. \A u \in Writers : elapsed[u] \in Nat
    BY TimesAssumption DEF TypeOK
  <2>3. \A u \in Writers, t \in Slots :
          Naming(u, t)' => /\ Payload(u, t)' = Payload(u, t)
                           /\ \/ Payload(u, t) = p /\ Written(u, t)'
                              \/ /\ Naming(u, t) /\ Payload(u, t) # p
                                 /\ Carried(u, t) => Carried(u, t)'
                                 /\ Written(u, t) => Written(u, t)'
    <3> SUFFICES ASSUME NEW u \in Writers, NEW t \in Slots, Naming(u, t)'
                 PROVE  /\ Payload(u, t)' = Payload(u, t)
                        /\ \/ Payload(u, t) = p /\ Written(u, t)'
                           \/ /\ Naming(u, t) /\ Payload(u, t) # p
                              /\ Carried(u, t) => Carried(u, t)'
                              /\ Written(u, t) => Written(u, t)'
      BY Zenon
    <3>1. Payload(u, t)' = Payload(u, t)
      BY <1>2 DEF Payload
    <3>2. CASE Payload(u, t) = p
      <4>1. object'[p] = "bytes" /\ age'[p] <= elapsed'[u]
        BY <1>2, <1>6, <2>2
      <4> QED BY <3>1, <3>2, <4>1, Zenon DEF Written
    <3>3. CASE Payload(u, t) # p
      <4>1. Naming(u, t)
        BY <1>2, <1>4, <3>3, Zenon DEF Naming, p
      <4>2. Carried(u, t) => Carried(u, t)'
        BY <1>2 DEF Carried
      <4>3. Payload(u, t) \in Payloads
        BY <2>1, <4>1, Zenon DEF Naming
      <4>4. Written(u, t) => Written(u, t)'
        <5>1. PICK q \in Payloads : q = Payload(u, t) /\ q = Payload(u, t)' /\ q # p
          BY <3>1, <3>3, <4>3, Zenon
        <5>2. age[q] <= elapsed[u] => age'[q] <= elapsed'[u]
          BY <1>2, <1>5, <2>2
        <5>3. object[q] = "bytes" \/ q \in restored => object'[q] = "bytes" \/ q \in restored'
          BY <1>4, <1>5, <5>1, Zenon
        <5> QED BY <5>1, <5>2, <5>3, Zenon DEF Written
      <4> QED BY <3>1, <3>3, <4>1, <4>2, <4>4, Zenon
    <3> QED BY <3>2, <3>3
  <2>4. Saves(w)'
    BY <1>2, <1>4, <2>3, Zenon DEF Saves
  <2>5. Reclaims(w)'
    BY <1>2, <1>4, <2>3 DEF Reclaims
  <2>6. Reads(w)'
    <3>1. \A g \in stored : \A q \in Named(manifest[g]) :
            age[q] <= PublishTimeout + elapsed[w] => age'[q] <= PublishTimeout + elapsed[w]
      BY <1>5, <1>9, <2>2, TimesAssumption
    <3> QED BY <1>2, <3>1, Zenon DEF Reads
  <2> QED BY <2>4, <2>5, <2>6
<1> QED BY <1>7, <1>8, <1>10, <1>11, Zenon

\* A created manifest names what its base named or what its save has just put.
LEMMA CreateKeeps ==
    ASSUME PayloadInv, NEW v \in Writers, Create(v)
    PROVE  PayloadInv'
<1> DEFINE claim == base[v] + 1
<1>1. /\ pc[v] = "put" /\ unwritten[v] = {} /\ elapsed[v] <= PublishTimeout
      /\ \E l \in {"sweep", "idle"} : pc' = [pc EXCEPT ![v] = l]
      /\ base' = [base EXCEPT ![v] = -1] /\ target' = [target EXCEPT ![v] = NoShards]
      /\ elapsed' = [elapsed EXCEPT ![v] = 0]
      /\ UNCHANGED <<object, age, unwritten, unread, referenced, candidates, blind, restored>>
  BY Zenon DEF Create, Goto, Restart, sweep, hist
<1>2. /\ manifest' \in [Generations -> Manifests]
      /\ \/ /\ stored' = stored
            /\ \A g \in stored : manifest'[g] = manifest[g]
         \/ /\ claim \in stored' /\ stored' = Window(claim)
            /\ claim \in Generations
            /\ stored' \subseteq stored \cup {claim}
            /\ manifest'[claim] = target[v]
            /\ \A g \in stored' : g # claim => manifest'[g] = manifest[g]
            /\ \A g \in stored : g <= base[v]
            /\ base[v] = -1 \/ base[v] \in stored
  BY CreateShape, Zenon
<1> USE DEF PayloadInv
<1>3. /\ stored \subseteq Int /\ base[v] \in Int /\ claim \in Int /\ -1 \notin stored
      /\ \A g \in stored : g <= base[v] => g # claim
      /\ \A u \in Writers : base[u] \in Int
      /\ base[v] < claim /\ base[v] >= -1
  BY MaxGenerationAssumption DEF TypeOK, Generations
<1>4. TypeOK'
  <2>1. stored' \subseteq Generations
    BY <1>2, Zenon DEF TypeOK
  <2>2. /\ pc' \in [Writers -> {"idle", "put", "sweep", "manifests", "reclaim"}]
        /\ base' \in [Writers -> Generations \cup {-1}]
    BY <1>1 DEF TypeOK
  <2>3. target' \in [Writers -> Manifests]
    BY <1>1, Zenon DEF TypeOK, NoShards, Manifests
  <2>4. elapsed' \in [Writers -> 0..(PublishTimeout + SweepBudget + 1)]
    BY <1>1, TimesAssumption DEF TypeOK
  <2> QED BY <1>1, <1>2, <2>1, <2>2, <2>3, <2>4 DEF TypeOK
<1>5. (stored = {} \/ \E top \in Generations : stored = Window(top))'
  BY <1>2, Zenon DEF Window
<1>6. ASSUME NEW p \in Named(target[v])
      PROVE  /\ \/ /\ base[v] # -1
                   /\ base[v] \in stored => p \in Named(manifest[base[v]])
                \/ /\ object[p] = "bytes" \/ p \in restored
                   /\ age[p] <= PublishTimeout
             /\ \A w \in Writers : p \in candidates[w] \ restored =>
                   /\ base[v] # -1
                   /\ base[v] \in stored => p \in Named(manifest[base[v]])
  <2>1. PICK s \in Slots : target[v][s] # None /\ p = Payload(v, s)
    BY NamedIs DEF TypeOK, Payload
  <2>2. Naming(v, s)
    BY <1>1, <2>1, Zenon DEF Naming
  <2>3. Carried(v, s) => /\ base[v] # -1
                         /\ base[v] \in stored => p \in Named(manifest[base[v]])
    <3> SUFFICES ASSUME Carried(v, s), base[v] \in stored
                 PROVE  p \in Named(manifest[base[v]])
      BY Zenon DEF Carried
    <3>1. manifest[base[v]] \in Manifests /\ manifest[base[v]][s] = target[v][s]
      BY Zenon DEF Carried, TypeOK
    <3> QED BY <2>1, <3>1, NamedIs DEF Payload
  <2>4. Written(v, s) => /\ object[p] = "bytes" \/ p \in restored
                         /\ age[p] <= PublishTimeout
    <3>1. p \in Payloads
      BY NamedIs, Zenon DEF TypeOK
    <3> QED BY <1>1, <2>1, <3>1, TimesAssumption DEF Written, TypeOK
  <2>5. Carried(v, s) \/ Written(v, s)
    BY <2>2, Zenon DEF Saves
  <2>6. \A w \in Writers : p \in candidates[w] \ restored => Carried(v, s)
    BY <2>1, <2>2 DEF Reclaims
  <2> QED BY <2>3, <2>4, <2>5, <2>6, Zenon
<1>7. /\ pc'[v] \in {"sweep", "idle"}
      /\ \A u \in Writers : u # v =>
            /\ pc'[u] = pc[u] /\ base'[u] = base[u] /\ target'[u] = target[u]
            /\ elapsed'[u] = elapsed[u]
  BY <1>1 DEF TypeOK
<1>8. CASE stored' = stored /\ \A g \in stored : manifest'[g] = manifest[g]
  <2>1. RetainedPayloadsIntact'
    BY <1>1, <1>8, Zenon DEF RetainedPayloadsIntact
  <2>2. ASSUME NEW w \in Writers  PROVE (Saves(w) /\ Reclaims(w) /\ Reads(w))'
    <3>1. ASSUME NEW u \in Writers, NEW s \in Slots, Naming(u, s)'
          PROVE  /\ Naming(u, s) /\ Payload(u, s)' = Payload(u, s)
                 /\ Carried(u, s) => Carried(u, s)'
                 /\ Written(u, s) => Written(u, s)'
      <4>1. u # v
        BY <1>7, <3>1, Zenon DEF Naming
      <4> QED BY <1>1, <1>7, <1>8, <3>1, <4>1, SlotStays, Zenon
    <3>2. Saves(w)'
      <4>1. CASE w # v
        BY <1>1, <1>7, <1>8, <3>1, <4>1, SavesStay, Zenon
      <4>2. CASE w = v
        BY <1>1, <1>7, <4>2, Zenon DEF Saves, Naming
      <4> QED BY <4>1, <4>2, Zenon
    <3>3. Reclaims(w)'
      BY <1>1, <1>8, <3>1, ReclaimsStay, Zenon
    <3>4. Reads(w)'
      BY <1>1, <1>7, <1>8, ReadsStay, Zenon
    <3> QED BY <3>2, <3>3, <3>4, Zenon
  <2> QED BY <1>4, <1>5, <2>1, <2>2
<1>9. CASE /\ claim \in stored' /\ stored' = Window(claim)
           /\ claim \in Generations
           /\ stored' \subseteq stored \cup {claim}
           /\ manifest'[claim] = target[v]
           /\ \A g \in stored' : g # claim => manifest'[g] = manifest[g]
           /\ \A g \in stored : g <= base[v]
           /\ base[v] = -1 \/ base[v] \in stored
  <2>1. /\ claim \notin stored
        /\ \A g \in stored' : g # claim => g \in stored /\ manifest'[g] = manifest[g]
    BY <1>3, <1>9
  <2> HIDE DEF claim
  <2>2. RetainedPayloadsIntact'
    <3>1. ASSUME ~blind, NEW p \in Named(target[v]) \ restored  PROVE object[p] = "bytes"
      BY <1>6, <1>9, <3>1 DEF RetainedPayloadsIntact
    <3>2. ASSUME ~blind, NEW g \in stored', NEW p \in Named(manifest'[g]) \ restored
          PROVE  object[p] = "bytes"
      BY <1>9, <2>1, <3>1, <3>2 DEF RetainedPayloadsIntact
    <3> QED BY <1>1, <3>2, Zenon DEF RetainedPayloadsIntact
  <2>3. ASSUME NEW w \in Writers  PROVE (Saves(w) /\ Reclaims(w) /\ Reads(w))'
    <3>1. \A u \in Writers : pc[u] = "put" => base[u] <= base[v] \/ base[u] = -1
      BY <1>3, <1>9 DEF Saves
    <3>2. \A u \in Writers : pc[u] = "put" => base[u] # claim /\ (base[u] = -1 \/ base[u] <= claim)
      BY <1>3, <3>1 DEF claim
    <3>3. ASSUME NEW u \in Writers, NEW s \in Slots, Naming(u, s)'
          PROVE  /\ u # v /\ Naming(u, s) /\ Payload(u, s)' = Payload(u, s)
                 /\ Carried(u, s) => Carried(u, s)'
                 /\ Written(u, s) => Written(u, s)'
      <4>1. u # v /\ Naming(u, s) /\ Payload(u, s)' = Payload(u, s) /\ pc[u] = "put"
        BY <1>1, <1>7, <3>3, Zenon DEF Naming, Payload
      <4>2. Written(u, s) => Written(u, s)'
        BY <1>1, <1>7, <4>1, Zenon DEF Written
      <4>3. Carried(u, s) => Carried(u, s)'
        BY <1>7, <2>1, <3>2, <4>1 DEF Carried
      <4> QED BY <4>1, <4>2, <4>3
    <3>4. Saves(w)'
      <4>1. pc'[w] = "put" => base'[w] = -1 \/ \E h \in stored' : base'[w] <= h
        BY <1>7, <1>9, <3>2
      <4>2. \A s \in unwritten'[w] : target'[w][s] # None
        BY <1>1, <1>7, ZenonT(60) DEF Saves
      <4> QED BY <3>3, <4>1, <4>2, Zenon DEF Saves
    <3>5. Reclaims(w)'
      <4>1. ASSUME NEW p \in candidates[w] \ restored, ~blind, NEW g \in stored'
            PROVE  p \notin Named(manifest'[g])
        <5>1. CASE g # claim
          BY <2>1, <4>1, <5>1, Zenon DEF Reclaims
        <5>2. CASE g = claim
          BY <1>6, <1>9, <4>1, <5>2, Zenon DEF Reclaims
        <5> QED BY <5>1, <5>2, Zenon
      <4>2. ASSUME NEW p \in candidates[w] \ restored, NEW u \in Writers, NEW s \in Slots,
                   Naming(u, s)', p = Payload(u, s)'
            PROVE  Carried(u, s)'
        BY <3>3, <4>2, Zenon DEF Reclaims
      <4> QED BY <1>1, <4>1, <4>2, Zenon DEF Reclaims
    <3>6. Reads(w)'
      <4> SUFFICES ASSUME pc'[w] = "manifests"  PROVE Reads(w)'
        BY Zenon DEF Reads
      <4>1. w # v /\ pc[w] = "manifests" /\ elapsed'[w] = elapsed[w] /\ elapsed[w] \in Nat
        BY <1>7, TimesAssumption DEF TypeOK
      <4>2. \A g \in unread[w] : g \in Int /\ g <= base[v] /\ g <= claim /\ g # claim
        <5>1. ASSUME NEW g \in unread[w]
              PROVE  /\ g \in Int /\ base[v] \in Int
                     /\ \E h \in stored : g <= h /\ h <= base[v] /\ h \in Int
          <6>1. PICK h \in stored : g <= h
            BY <4>1, Zenon DEF Reads
          <6>2. g \in Int /\ base[v] \in Int /\ h \in Int
            BY <1>3 DEF TypeOK, Generations
          <6> QED BY <1>9, <6>1, <6>2, Zenon
        <5> QED BY <5>1 DEF claim
      <4>3. ASSUME NEW g \in stored', NEW p \in Named(manifest'[g])
            PROVE  \/ blind \/ g \in unread[w] \/ p \in referenced[w]
                   \/ age[p] <= PublishTimeout + elapsed[w]
                   \/ \E last \in unread[w] :
                         /\ \A h \in unread[w] : h <= last
                         /\ last \in stored' => p \in Named(manifest'[last])
        <5>1. ASSUME NEW f \in stored, p \in Named(manifest[f]), f \notin unread[w]
              PROVE  \/ blind \/ p \in referenced[w]
                     \/ age[p] <= PublishTimeout + elapsed[w]
                     \/ \E last \in unread[w] :
                           /\ \A h \in unread[w] : h <= last
                           /\ last \in stored' => p \in Named(manifest'[last])
          BY <2>1, <4>1, <4>2, <5>1 DEF Reads
        <5>2. CASE g # claim
          BY <2>1, <5>1, <5>2, Zenon
        <5>3. CASE g = claim
          <6>1. p \in Named(target[v])
            BY <1>9, <5>3, Zenon
          <6>2. CASE age[p] <= PublishTimeout
            <7>1. age[p] \in Nat
              BY <6>1, NamedIs, TimesAssumption DEF TypeOK
            <7> QED BY <4>1, <6>2, <7>1, TimesAssumption
          <6>3. CASE base[v] \in stored /\ p \in Named(manifest[base[v]])
            <7>1. CASE base[v] \notin unread[w]
              BY <5>1, <6>3, <7>1, Zenon
            <7>2. CASE base[v] \in unread[w]
              BY <2>1, <4>2, <6>3, <7>2, Zenon
            <7> QED BY <7>1, <7>2, Zenon
          <6> QED BY <1>6, <1>9, <6>1, <6>2, <6>3, Zenon
        <5> QED BY <5>2, <5>3, Zenon
      <4>4. \A g \in unread[w] : \E h \in stored' : g <= h
        BY <1>9, <4>2, Zenon
      <4> QED BY <1>1, <4>1, <4>3, <4>4, Zenon DEF Reads
    <3> QED BY <3>4, <3>5, <3>6, Zenon
  <2> QED BY <1>4, <1>5, <2>2, <2>3, Zenon
<1> QED BY <1>2, <1>8, <1>9, Zenon

\* A sweep starts from every manifest there is.
LEMMA SweepListManifestsKeeps ==
    ASSUME PayloadInv, NEW v \in Writers, SweepListManifests(v)
    PROVE  PayloadInv'
<1> USE DEF PayloadInv
<1>1. /\ unread' = [unread EXCEPT ![v] = stored] /\ referenced' = [referenced EXCEPT ![v] = {}]
      /\ elapsed' = [elapsed EXCEPT ![v] = 0] /\ pc' = [pc EXCEPT ![v] = "manifests"]
      /\ UNCHANGED <<stored, manifest, object, age, base, target, unwritten, candidates, blind, restored>>
  BY Zenon DEF SweepListManifests, Restart, Goto, store, save, hist
<1>2. TypeOK'
  BY <1>1, TimesAssumption DEF TypeOK
<1>3. (stored = {} \/ \E top \in Generations : stored = Window(top))'
  BY <1>1, Zenon DEF Window
<1>4. RetainedPayloadsIntact'
  BY <1>1, Zenon DEF RetainedPayloadsIntact
<1>5. ASSUME NEW w \in Writers  PROVE (Saves(w) /\ Reclaims(w) /\ Reads(w))'
  <2>1. /\ pc'[v] = "manifests" /\ unread'[v] = stored /\ elapsed'[v] = 0
        /\ \A u \in Writers : u # v =>
              /\ pc'[u] = pc[u] /\ elapsed'[u] = elapsed[u]
              /\ unread'[u] = unread[u] /\ referenced'[u] = referenced[u]
    BY <1>1, Zenon DEF TypeOK
  <2>2. ASSUME NEW u \in Writers, NEW s \in Slots, Naming(u, s)'
        PROVE  /\ Naming(u, s) /\ Payload(u, s)' = Payload(u, s)
               /\ Carried(u, s) => Carried(u, s)'
               /\ Written(u, s) => Written(u, s)'
    <3>1. u # v
      BY <2>1, <2>2, Zenon DEF Naming
    <3> QED BY <1>1, <2>1, <2>2, <3>1, SlotStays, Zenon
  <2>3. Saves(w)'
    BY <1>1, <2>1, <2>2, Zenon DEF Saves
  <2>4. Reclaims(w)'
    BY <1>1, <2>2, ReclaimsStay, Zenon
  <2>5. Reads(w)'
    <3>1. \A g \in stored : g <= g
      BY DEF TypeOK, Generations
    <3>2. CASE w = v
      BY <1>1, <2>1, <3>1, <3>2, TimesAssumption DEF Reads
    <3>3. CASE w # v
      BY <1>1, <2>1, <3>3, ReadsStay, Zenon
    <3> QED BY <3>2, <3>3, Zenon
  <2> QED BY <2>3, <2>4, <2>5, Zenon
<1> QED BY <1>2, <1>3, <1>4, <1>5, Zenon

\* A manifest read adds what it names; the last one missing makes the sweep blind.
LEMMA SweepReadManifestKeeps ==
    ASSUME PayloadInv, NEW v \in Writers, SweepReadManifest(v)
    PROVE  PayloadInv'
<1> USE DEF PayloadInv
<1>1. PICK g \in unread[v] :
        /\ \A h \in unread[v] : g <= h
        /\ unread' = [unread EXCEPT ![v] = @ \ {g}]
        /\ referenced' = [referenced EXCEPT ![v] =
              IF g \in stored THEN @ \cup Named(manifest[g]) ELSE @]
        /\ blind' = (blind \/ (unread[v] = {g} /\ g \notin stored))
  BY Zenon DEF SweepReadManifest
<1>2. /\ pc[v] = "manifests"
      /\ UNCHANGED <<stored, manifest, object, age, pc, base, target, unwritten, elapsed, candidates,
                     restored>>
  BY Zenon DEF SweepReadManifest, store, save
<1>3. blind' \in BOOLEAN /\ (blind => blind')
  BY <1>1, Zenon DEF TypeOK
<1>4. /\ unread'[v] = unread[v] \ {g}
      /\ referenced[v] \subseteq referenced'[v]
      /\ g \in stored => Named(manifest[g]) \subseteq referenced'[v]
      /\ \A u \in Writers : u # v => unread'[u] = unread[u] /\ referenced'[u] = referenced[u]
  BY <1>1, Zenon DEF TypeOK
<1>5. TypeOK'
  <2>1. unread' \in [Writers -> SUBSET Generations]
    BY <1>1, Zenon DEF TypeOK
  <2>2. g \in stored => Named(manifest[g]) \subseteq Payloads
    BY NamedIs, Zenon DEF TypeOK
  <2>3. referenced' \in [Writers -> SUBSET Payloads]
    BY <1>1, <2>2, Zenon DEF TypeOK
  <2> QED BY <1>2, <1>3, <2>1, <2>3, Zenon DEF TypeOK
<1>6. (stored = {} \/ \E top \in Generations : stored = Window(top))'
  BY <1>2, Zenon DEF Window
<1>7. RetainedPayloadsIntact'
  BY <1>2, <1>3, Zenon DEF RetainedPayloadsIntact
<1>8. ASSUME NEW w \in Writers  PROVE (Saves(w) /\ Reclaims(w) /\ Reads(w))'
  <2>1. \A u \in Writers, s \in Slots :
          /\ Naming(u, s)' <=> Naming(u, s)
          /\ Payload(u, s)' = Payload(u, s)
          /\ Carried(u, s)' <=> Carried(u, s)
          /\ Written(u, s)' <=> Written(u, s)
    BY <1>2, ZenonT(60) DEF Naming, Payload, Carried, Written
  <2>2. Saves(w)'
    BY <1>2, <2>1, Zenon DEF Saves
  <2>3. Reclaims(w)'
    BY <1>2, <1>3, <2>1, ReclaimsStay, Zenon
  <2>4. CASE w # v
    <3>1. Reads(w)'
      BY <1>2, <1>3, <1>4, <2>4, Zenon DEF Reads
    <3> QED BY <2>2, <2>3, <3>1, Zenon
  <2>5. CASE w = v
    <3>1. ASSUME NEW f \in stored, NEW p \in Named(manifest[f])
          PROVE  \/ blind' \/ f \in unread'[v] \/ p \in referenced'[v]
                 \/ age[p] <= PublishTimeout + elapsed[v]
                 \/ \E last \in unread'[v] :
                       /\ \A h \in unread'[v] : h <= last
                       /\ last \in stored => p \in Named(manifest[last])
      <4>1. \/ blind \/ f \in unread[v] \/ p \in referenced[v]
            \/ age[p] <= PublishTimeout + elapsed[v]
            \/ \E last \in unread[v] :
                  /\ \A h \in unread[v] : h <= last
                  /\ last \in stored => p \in Named(manifest[last])
        BY <1>2, Zenon DEF Reads
      <4>2. f \in unread[v] => f \in unread'[v] \/ p \in referenced'[v]
        BY <1>4, Zenon
      <4>3. ASSUME NEW last \in unread[v], \A h \in unread[v] : h <= last,
                   last \in stored => p \in Named(manifest[last])
            PROVE  \/ blind' \/ p \in referenced'[v]
                   \/ \E l \in unread'[v] :
                         /\ \A h \in unread'[v] : h <= l
                         /\ l \in stored => p \in Named(manifest[l])
        <5>1. CASE last # g
          BY <1>4, <4>3, <5>1, Zenon
        <5>2. CASE last = g
          <6>1. unread[v] = {g}
            <7>1. \A h \in unread[v] : h \in Int /\ g \in Int
              BY MaxGenerationAssumption DEF TypeOK, Generations
            <7> QED BY <1>1, <4>3, <5>2, <7>1
          <6>2. CASE g \in stored
            BY <1>4, <4>3, <5>2, <6>2, Zenon
          <6>3. CASE g \notin stored
            <7>1. blind' = TRUE
              BY <1>1, <6>1, <6>3, Zenon
            <7> QED BY <7>1, Zenon
          <6> QED BY <6>2, <6>3, Zenon
        <5> QED BY <5>1, <5>2, Zenon
      <4> QED BY <1>3, <1>4, <4>1, <4>2, <4>3, Zenon
    <3>2. Reads(v)'
      BY <1>2, <1>4, <3>1, Zenon DEF Reads
    <3> QED BY <2>2, <2>3, <2>5, <3>2, Zenon
  <2> QED BY <2>4, <2>5, Zenon
<1> QED BY <1>5, <1>6, <1>7, <1>8, Zenon

\* What a sweep lists is older than the grace, so no manifest it has not read
\* names it and no save has put it within the publish timeout.
LEMMA SweepListPayloadsKeeps ==
    ASSUME PayloadInv, NEW v \in Writers, SweepListPayloads(v)
    PROVE  PayloadInv'
<1> USE DEF PayloadInv
<1> DEFINE old == {p \in Payloads \ referenced[v] : object[p] = "bytes" /\ age[p] >= Grace}
<1>1. /\ pc[v] = "manifests" /\ unread[v] = {}
      /\ candidates' = [candidates EXCEPT ![v] = old]
      /\ referenced' = [referenced EXCEPT ![v] = {}]
      /\ elapsed' = [elapsed EXCEPT ![v] = 0] /\ pc' = [pc EXCEPT ![v] = "reclaim"]
      /\ UNCHANGED <<stored, manifest, object, age, base, target, unwritten, unread, blind,
                     restored>>
  BY Zenon DEF SweepListPayloads, Restart, Goto, store, save, hist
<1>2. old \subseteq Payloads
  BY Zenon
<1>3. ASSUME NEW p \in old
      PROVE  /\ ~blind => \A g \in stored : p \notin Named(manifest[g])
             /\ \A u \in Writers, s \in Slots :
                   Naming(u, s) /\ p = Payload(u, s) => Carried(u, s)
  <2>1. p \in Payloads /\ p \notin referenced[v] /\ age[p] \in Nat /\ age[p] >= Grace
    BY TimesAssumption DEF TypeOK
  <2>2. elapsed[v] \in Nat /\ elapsed[v] <= SweepBudget
    BY <1>1, TimesAssumption DEF TypeOK, Reads
  <2>3. ~(age[p] <= PublishTimeout + elapsed[v])
    BY <2>1, <2>2, TimesAssumption, GraceAssumption
  <2>4. ASSUME ~blind, NEW g \in stored  PROVE p \notin Named(manifest[g])
    BY <1>1, <2>1, <2>3, <2>4, Zenon DEF Reads
  <2>5. ASSUME NEW u \in Writers, NEW s \in Slots, Naming(u, s), p = Payload(u, s)
        PROVE  Carried(u, s)
    <3>1. elapsed[u] \in Nat /\ elapsed[u] <= PublishTimeout
      BY <2>5, TimesAssumption DEF TypeOK, Naming
    <3>2. ~(age[p] <= elapsed[u])
      BY <2>1, <3>1, TimesAssumption, GraceAssumption
    <3> QED BY <2>5, <3>2, Zenon DEF Saves, Written
  <2> QED BY <2>4, <2>5, Zenon
<1> HIDE DEF old
<1>4. TypeOK'
  <2>1. candidates' \in [Writers -> SUBSET Payloads]
    BY <1>1, <1>2, Zenon DEF TypeOK
  <2> QED BY <1>1, <2>1, TimesAssumption DEF TypeOK
<1>5. (stored = {} \/ \E top \in Generations : stored = Window(top))'
  BY <1>1, Zenon DEF Window
<1>6. RetainedPayloadsIntact'
  BY <1>1, Zenon DEF RetainedPayloadsIntact
<1>7. ASSUME NEW w \in Writers  PROVE (Saves(w) /\ Reclaims(w) /\ Reads(w))'
  <2>1. /\ pc'[v] = "reclaim" /\ candidates'[v] = old
        /\ \A u \in Writers : u # v =>
              /\ pc'[u] = pc[u] /\ elapsed'[u] = elapsed[u]
              /\ referenced'[u] = referenced[u] /\ candidates'[u] = candidates[u]
    BY <1>1, Zenon DEF TypeOK
  <2>2. ASSUME NEW u \in Writers, NEW s \in Slots, Naming(u, s)'
        PROVE  /\ Naming(u, s) /\ Payload(u, s)' = Payload(u, s)
               /\ Carried(u, s) => Carried(u, s)'
               /\ Written(u, s) => Written(u, s)'
    <3>1. u # v
      BY <2>1, <2>2, Zenon DEF Naming
    <3> QED BY <1>1, <2>1, <2>2, <3>1, SlotStays, Zenon
  <2>3. Saves(w)'
    BY <1>1, <2>1, <2>2, Zenon DEF Saves
  <2>4. Reclaims(w)'
    <3>1. CASE w = v
      <4> SUFFICES ASSUME NEW p \in old
                   PROVE  /\ ~blind => \A g \in stored : p \notin Named(manifest[g])
                          /\ \A u \in Writers, s \in Slots :
                                Naming(u, s)' /\ p = Payload(u, s)' => Carried(u, s)'
        BY <1>1, <2>1, <3>1, Zenon DEF Reclaims
      <4>1. ASSUME NEW u \in Writers, NEW s \in Slots, Naming(u, s)', p = Payload(u, s)'
            PROVE  Carried(u, s)'
        BY <1>3, <2>2, <4>1, Zenon
      <4> QED BY <1>3, <4>1, Zenon
    <3>2. CASE w # v
      BY <1>1, <2>1, <2>2, <3>2, ReclaimsStay, Zenon
    <3> QED BY <3>1, <3>2, Zenon
  <2>5. Reads(w)'
    BY <1>1, <2>1, ReadsStay, Zenon
  <2> QED BY <2>3, <2>4, <2>5, Zenon
<1> QED BY <1>4, <1>5, <1>6, <1>7, Zenon

\* A reclaimed payload is one no manifest names and no save relies on having put.
LEMMA ReclaimKeeps ==
    ASSUME PayloadInv, NEW v \in Writers, Reclaim(v)
    PROVE  PayloadInv'
<1> USE DEF PayloadInv
<1>1. PICK p \in candidates[v] :
        IF object[p] = "bytes"
        THEN /\ object' = [object EXCEPT ![p] = "tombstone"]
             /\ age' = [age EXCEPT ![p] = 0]
             /\ candidates' = [StillListed(p) EXCEPT ![v] = @ \ {p}]
        ELSE /\ candidates' = [candidates EXCEPT ![v] = @ \ {p}]
             /\ UNCHANGED <<object, age>>
  BY Zenon DEF Reclaim
<1>2. UNCHANGED <<stored, manifest, pc, base, target, unwritten, elapsed, unread, referenced, blind,
                restored>>
  BY Zenon DEF Reclaim, save, hist
<1>3. p \in Payloads
  BY Zenon DEF TypeOK
<1>4. /\ candidates' \in [Writers -> SUBSET Payloads]
      /\ \A w \in Writers : candidates'[w] \subseteq candidates[w]
  <2>1. PICK C \in {candidates, StillListed(p)} : candidates' = [C EXCEPT ![v] = @ \ {p}]
    BY <1>1, Zenon
  <2>2. /\ C \in [Writers -> SUBSET Payloads]
        /\ \A w \in Writers : C[w] \subseteq candidates[w]
    <3>1. C = candidates \/ C = [w \in Writers |-> candidates[w] \ {p}]
      BY Zenon DEF StillListed
    <3>2. CASE C = candidates
      BY <3>2, Zenon DEF TypeOK
    <3>3. CASE C = [w \in Writers |-> candidates[w] \ {p}]
      BY <3>3, Zenon DEF TypeOK
    <3> QED BY <3>1, <3>2, <3>3, Zenon
  <2> QED BY <2>1, <2>2, Zenon
<1>5. /\ object' \in [Payloads -> {"absent", "bytes", "tombstone"}]
      /\ age' \in [Payloads -> 0..Grace]
      /\ \A q \in Payloads : q # p => object'[q] = object[q] /\ age'[q] = age[q]
      /\ \A q \in Payloads : age'[q] <= age[q]
  <2>1. CASE object[p] = "bytes"
    BY <1>1, <1>3, <2>1, TimesAssumption DEF TypeOK
  <2>2. CASE object[p] # "bytes"
    BY <1>1, <2>2, TimesAssumption DEF TypeOK
  <2> QED BY <2>1, <2>2, Zenon
<1>6. TypeOK'
  BY <1>2, <1>4, <1>5, Zenon DEF TypeOK
<1>7. (stored = {} \/ \E top \in Generations : stored = Window(top))'
  BY <1>2, Zenon DEF Window
<1>8. \A g \in stored : Named(manifest[g]) \subseteq Payloads
  BY NamedIs, Zenon DEF TypeOK
<1>9. RetainedPayloadsIntact'
  <2>1. ~blind => \A g \in stored : p \notin Named(manifest[g]) \ restored
    BY Zenon DEF Reclaims
  <2> QED BY <1>2, <1>5, <1>8, <2>1, ZenonT(60) DEF RetainedPayloadsIntact
<1>10. ASSUME NEW w \in Writers  PROVE (Saves(w) /\ Reclaims(w) /\ Reads(w))'
  <2>1. \A u \in Writers, s \in Slots :
          /\ Naming(u, s)' <=> Naming(u, s)
          /\ Payload(u, s)' = Payload(u, s)
          /\ Carried(u, s)' <=> Carried(u, s)
    BY <1>2, ZenonT(60) DEF Naming, Payload, Carried
  <2>2. ASSUME NEW u \in Writers, NEW s \in Slots, Naming(u, s)
        PROVE  Carried(u, s) \/ Written(u, s)'
    <3>1. CASE Payload(u, s) = p
      <4>1. CASE p \notin restored
        BY <2>2, <3>1, <4>1, Zenon DEF Reclaims
      <4>2. CASE p \in restored
        <5>1. age[p] \in Nat /\ age'[p] \in Nat /\ age'[p] <= age[p]
          BY <1>3, <1>5, TimesAssumption DEF TypeOK
        <5>2. elapsed[u] \in Nat
          BY TimesAssumption DEF TypeOK
        <5>3. age[p] <= elapsed[u] => age'[p] <= elapsed'[u]
          BY <1>2, <5>1, <5>2
        <5>4. Written(u, s) => Written(u, s)'
          BY <1>2, <2>1, <3>1, <4>2, <5>3, Zenon DEF Written
        <5> QED BY <2>2, <5>4, Zenon DEF Saves
      <4> QED BY <4>1, <4>2, Zenon
    <3>2. CASE Payload(u, s) # p
      <4>1. Payload(u, s) \in Payloads
        BY <2>2 DEF Naming, Payload, Payloads, Manifests, TypeOK
      <4>2. Written(u, s) => Written(u, s)'
        BY <1>2, <1>5, <2>1, <3>2, <4>1, Zenon DEF Written
      <4> QED BY <2>2, <4>2, Zenon DEF Saves
    <3> QED BY <3>1, <3>2, Zenon
  <2>3. Saves(w)'
    BY <1>2, <2>1, <2>2, Zenon DEF Saves
  <2>4. Reclaims(w)'
    BY <1>2, <1>4, <2>1, ZenonT(60) DEF Reclaims
  <2>5. Reads(w)'
    <3>1. \A g \in stored : \A q \in Named(manifest[g]) :
            age[q] <= PublishTimeout + elapsed[w] => age'[q] <= PublishTimeout + elapsed[w]
      BY <1>5, <1>8, TimesAssumption DEF TypeOK
    <3> QED BY <1>2, <3>1, Zenon DEF Reads
  <2> QED BY <2>3, <2>4, <2>5, Zenon
<1> QED BY <1>6, <1>7, <1>9, <1>10, Zenon

\* A sweep that has nothing left to reclaim ends.
LEMMA SweepDoneKeeps ==
    ASSUME PayloadInv, NEW v \in Writers, SweepDone(v)
    PROVE  PayloadInv'
<1> USE DEF PayloadInv
<1>1. /\ pc' = [pc EXCEPT ![v] = "idle"]
      /\ UNCHANGED <<stored, manifest, object, age, base, target, unwritten, elapsed,
                     unread, referenced, candidates, blind, restored>>
  BY Zenon DEF SweepDone, Goto, store, save, sweep, hist
<1>2. TypeOK'
  BY <1>1, Zenon DEF TypeOK
<1>3. (stored = {} \/ \E top \in Generations : stored = Window(top))'
  BY <1>1, Zenon DEF Window
<1>4. RetainedPayloadsIntact'
  BY <1>1, Zenon DEF RetainedPayloadsIntact
<1>5. ASSUME NEW w \in Writers  PROVE (Saves(w) /\ Reclaims(w) /\ Reads(w))'
  <2>1. pc'[v] = "idle" /\ \A u \in Writers : u # v => pc'[u] = pc[u]
    BY <1>1, Zenon DEF TypeOK
  <2>2. ASSUME NEW u \in Writers, NEW s \in Slots, Naming(u, s)'
        PROVE  /\ Naming(u, s) /\ Payload(u, s)' = Payload(u, s)
               /\ Carried(u, s) => Carried(u, s)'
               /\ Written(u, s) => Written(u, s)'
    <3>1. u # v
      BY <2>1, <2>2, Zenon DEF Naming
    <3> QED BY <1>1, <2>1, <2>2, <3>1, SlotStays, Zenon
  <2>3. Saves(w)'
    BY <1>1, <2>1, <2>2, Zenon DEF Saves
  <2>4. Reclaims(w)'
    BY <1>1, <2>2, ReclaimsStay, Zenon
  <2>5. Reads(w)'
    BY <1>1, <2>1, ReadsStay, Zenon
  <2> QED BY <2>3, <2>4, <2>5, Zenon
<1> QED BY <1>2, <1>3, <1>4, <1>5, Zenon

\* An object ages no faster than the phases that bound it last.
LEMMA TickKeeps ==
    ASSUME PayloadInv, Tick
    PROVE  PayloadInv'
<1> USE DEF PayloadInv
<1>1. UNCHANGED <<stored, manifest, object, pc, base, target, unwritten, unread,
                  referenced, candidates, blind, restored>>
  BY Zenon DEF Tick, save, sweep, hist
<1>2. /\ age' \in [Payloads -> 0..Grace]
      /\ \A p \in Payloads : age[p] \in Nat /\ age'[p] \in Nat /\ age'[p] <= age[p] + 1
  BY TimesAssumption DEF Tick, TypeOK
<1>3. \A w \in Writers :
        /\ elapsed'[w] = IF \/ pc[w] = "put" /\ elapsed[w] <= PublishTimeout
                            \/ pc[w] = "manifests"
                         THEN elapsed[w] + 1 ELSE elapsed[w]
        /\ elapsed[w] \in 0..(PublishTimeout + SweepBudget + 1)
        /\ pc[w] = "manifests" => elapsed[w] < SweepBudget
  BY Zenon DEF Tick, TypeOK
<1>4. elapsed' \in [Writers -> 0..(PublishTimeout + SweepBudget + 1)]
  <2>1. \A w \in Writers : elapsed'[w] \in 0..(PublishTimeout + SweepBudget + 1)
    BY <1>3, TimesAssumption
  <2>2. elapsed' = [w \in Writers |-> elapsed'[w]]
    BY Zenon DEF Tick
  <2> QED BY <2>1, <2>2, Zenon
<1>5. TypeOK'
  BY <1>1, <1>2, <1>4, Zenon DEF TypeOK
<1>6. (stored = {} \/ \E top \in Generations : stored = Window(top))'
  BY <1>1, Zenon DEF Window
<1>7. RetainedPayloadsIntact'
  BY <1>1, Zenon DEF RetainedPayloadsIntact
<1>8. ASSUME NEW w \in Writers  PROVE (Saves(w) /\ Reclaims(w) /\ Reads(w))'
  <2>1. ASSUME NEW u \in Writers, NEW s \in Slots, Naming(u, s)'
        PROVE  /\ Naming(u, s) /\ Payload(u, s)' = Payload(u, s)
               /\ Carried(u, s) => Carried(u, s)'
               /\ Written(u, s) => Written(u, s)'
    <3>1. /\ elapsed[u] <= PublishTimeout /\ elapsed'[u] = elapsed[u] + 1
          /\ elapsed[u] \in Nat
      BY <1>1, <1>3, <2>1, TimesAssumption DEF Naming
    <3>2. Naming(u, s) /\ Payload(u, s)' = Payload(u, s) /\ (Carried(u, s) => Carried(u, s)')
      BY <1>1, <2>1, <3>1, Zenon DEF Naming, Payload, Carried
    <3>3. Payload(u, s) \in Payloads
      BY <3>2 DEF Naming, Payload, Payloads, Manifests, TypeOK
    <3>4. Written(u, s) => Written(u, s)'
      <4>1. PICK p \in Payloads : p = Payload(u, s) /\ p = Payload(u, s)'
        BY <3>2, <3>3, Zenon
      <4>2. age[p] <= elapsed[u] => age'[p] <= elapsed'[u]
        BY <1>2, <3>1
      <4> QED BY <1>1, <4>1, <4>2, Zenon DEF Written
    <3> QED BY <3>2, <3>4, Zenon
  <2>2. Saves(w)'
    BY <1>1, <2>1, Zenon DEF Saves
  <2>3. Reclaims(w)'
    BY <1>1, <2>1, ReclaimsStay, Zenon
  <2>4. Reads(w)'
    <3> SUFFICES ASSUME pc[w] = "manifests"  PROVE Reads(w)'
      BY <1>1, Zenon DEF Reads
    <3>1. elapsed'[w] = elapsed[w] + 1 /\ elapsed'[w] <= SweepBudget /\ elapsed[w] \in Nat
      BY <1>3, TimesAssumption
    <3>2. \A g \in stored : Named(manifest[g]) \subseteq Payloads
      BY NamedIs, Zenon DEF TypeOK
    <3>3. \A g \in stored : \A p \in Named(manifest[g]) :
            age[p] <= PublishTimeout + elapsed[w] => age'[p] <= PublishTimeout + elapsed'[w]
      BY <1>2, <3>1, <3>2, TimesAssumption
    <3> QED BY <1>1, <3>1, <3>3, Zenon DEF Reads
  <2> QED BY <2>2, <2>3, <2>4, Zenon
<1> QED BY <1>5, <1>6, <1>7, <1>8, Zenon
-----------------------------------------------------------------------------
\* The empty store satisfies the invariant.
LEMMA InvInit == Init => PayloadInv
<1> SUFFICES ASSUME Init  PROVE PayloadInv
  BY Zenon
<1>1. TypeOK
  <2>1. NoShards \in Manifests
    BY Zenon DEF NoShards, Manifests
  <2>2. blind \in BOOLEAN
    BY Zenon DEF Init
  <2>3. 0 \in 0..Grace /\ 0 \in 0..(PublishTimeout + SweepBudget + 1)
    BY TimesAssumption
  <2> QED BY <2>1, <2>2, <2>3, Zenon DEF Init, TypeOK
<1>2. RetainedPayloadsIntact
  BY Zenon DEF Init, RetainedPayloadsIntact
<1>3. ASSUME NEW w \in Writers  PROVE Saves(w) /\ Reclaims(w) /\ Reads(w)
  BY Zenon DEF Init, Saves, Reclaims, Reads, Naming
<1> QED BY <1>1, <1>2, <1>3, Zenon DEF PayloadInv, Init

\* Every step keeps the invariant.
LEMMA InvStep ==
    ASSUME PayloadInv, [Next]_vars
    PROVE  PayloadInv'
<1>1. CASE Tick
  BY <1>1, TickKeeps, Zenon
<1>2. ASSUME NEW w \in Writers, Step(w)  PROVE PayloadInv'
  BY <1>2, MergeKeeps, PutPayloadKeeps, CreateKeeps, AbandonKeeps, SweepListManifestsKeeps,
     SweepReadManifestKeeps, SweepListPayloadsKeeps, ReclaimKeeps, SweepDoneKeeps, Zenon DEF Step
<1>3. CASE UNCHANGED vars
  <2> USE <1>3 DEF vars, PayloadInv
  <2>1. TypeOK' /\ RetainedPayloadsIntact'
    BY Zenon DEF TypeOK, RetainedPayloadsIntact
  <2>2. (stored = {} \/ \E top \in Generations : stored = Window(top))'
    BY Zenon DEF Window
  <2>3. ASSUME NEW u \in Writers, NEW s \in Slots, Naming(u, s)'
        PROVE  /\ Naming(u, s) /\ Payload(u, s)' = Payload(u, s)
               /\ Carried(u, s) => Carried(u, s)'
               /\ Written(u, s) => Written(u, s)'
    BY <2>3, SlotStays, Zenon
  <2>4. ASSUME NEW w \in Writers  PROVE (Saves(w) /\ Reclaims(w) /\ Reads(w))'
    <3>1. Saves(w)'
      BY <2>3, Zenon DEF Saves
    <3>2. Reclaims(w)'
      BY <2>3, ReclaimsStay, Zenon
    <3>3. Reads(w)'
      BY ReadsStay, Zenon
    <3> QED BY <3>1, <3>2, <3>3, Zenon
  <2> QED BY <2>1, <2>2, <2>4, Zenon
<1> QED BY <1>1, <1>2, <1>3, Zenon DEF Next

\* The inductive invariant holds throughout.
THEOREM Invariant == Spec => []PayloadInv
BY InvInit, InvStep, PTL DEF Spec

\* Every payload a retained manifest names stays readable, whatever saves and
\* sweeps interleave and whatever an object's version is made of: a sweep that
\* missed the newest manifest it had listed, and a payload put again with its
\* version unchanged while a sweep had it listed, are the only ways to lose one,
\* given that PublishTimeout + SweepBudget < Grace.
THEOREM PayloadsStay == Spec => []RetainedPayloadsIntact
<1>1. PayloadInv => RetainedPayloadsIntact
  BY Zenon DEF PayloadInv
<1> QED BY <1>1, Invariant, PTL

\* Every variable keeps its type; in particular no save or sweep runs past the
\* time its timeouts give it (PublishTimeout, SweepBudget).
THEOREM TypeCorrect == Spec => []TypeOK
<1>1. PayloadInv => TypeOK
  BY Zenon DEF PayloadInv
<1> QED BY <1>1, Invariant, PTL
=============================================================================
