--------------------------- MODULE ShardPayloads ---------------------------
(***************************************************************************)
(* The shard payload objects behind the manifests of an index snapshot,    *)
(* and the sweep that reclaims the ones no retained manifest names         *)
(* (crates/blockstore/src/index_snapshot.rs and                            *)
(* index_snapshot/sweep_orphan_shard_payloads.rs).                         *)
(*                                                                         *)
(* A payload's key is a function of its slot and its bytes.  A save writes *)
(* the payloads its base does not already name, then creates a manifest    *)
(* that names them beside the ones it carries, within                      *)
(* SHARD_PAYLOAD_PUBLISH_TIMEOUT.  Every SweepInterval-th generation       *)
(* sweeps: it collects what the retained manifests name, lists the payload *)
(* objects and replaces each old, unnamed one by an empty tombstone, on    *)
(* condition that the listed version is still the current one.             *)
(*                                                                         *)
(* Abstractions.  A manifest is a function from slots to the content it    *)
(* names there.  What a merge makes of the slots it touches is any content *)
(* (SnapshotChain has the records).  Time is the age of each object and    *)
(* the time each phase has taken, in ticks, both capped where nothing      *)
(* tells larger values apart.  A listing is one step.  A prune is part of  *)
(* the create it follows (SnapshotChain interleaves its deletes), so a     *)
(* create that lands below the retained generations leaves nothing but its *)
(* payloads behind.  Where every put gives an object a new version, a      *)
(* candidate written since the listing is taken off the sweep's list when  *)
(* it is written, which is when its version precondition begins to fail.   *)
(* Where the version is derived from the bytes, as an S3 ETag is, the same *)
(* bytes put again satisfy the precondition still, and it stays.           *)
(***************************************************************************)
EXTENDS Integers, FiniteSets

CONSTANTS
    Writers,         \* processes that save the index
    Slots,           \* shard ranges
    Contents,        \* what a slot's payload may hold
    None,            \* no payload in the slot
    Retain,          \* manifests kept by a prune
    SweepInterval,   \* SNAPSHOT_SWEEP_INTERVAL
    PublishTimeout,  \* SHARD_PAYLOAD_PUBLISH_TIMEOUT, in ticks
    Grace,           \* SHARD_PAYLOAD_SWEEP_GRACE, in ticks
    SweepBudget,     \* assumed: ticks a sweep takes to read the manifests
    FreshVersions,   \* TRUE: every put of an object gives it a new version;
                     \* FALSE: the version is derived from the bytes
    MaxGeneration    \* bound: generations a behaviour may create

ASSUME RetainAssumption == Retain \in Nat \ {0}
ASSUME SweepIntervalAssumption == SweepInterval \in Nat \ {0}
ASSUME MaxGenerationAssumption == MaxGeneration \in Nat
ASSUME TimesAssumption == PublishTimeout \in Nat /\ Grace \in Nat /\ SweepBudget \in Nat
ASSUME GraceAssumption == PublishTimeout + SweepBudget < Grace
ASSUME VersionsAssumption == FreshVersions \in BOOLEAN
ASSUME NoneAssumption == None \notin Contents

Generations == 0..MaxGeneration
Payloads == Slots \X Contents
Manifests == [Slots -> Contents \cup {None}]
NoShards == [s \in Slots |-> None]

VARIABLES
    stored,      \* generations whose manifest object exists
    manifest,    \* manifest[g]: the content each slot names, when stored
    object,      \* object[p]: "absent", "bytes" or "tombstone"
    age,         \* age[p]: ticks since the object was last written, up to Grace
    pc,          \* where each writer is
    base,        \* generation a save merges into, or -1
    target,      \* the manifest a save is about to create
    unwritten,   \* slots whose payload the save has still to put
    elapsed,     \* ticks spent in the writer's current phase
    unread,      \* generations a sweep has still to read
    referenced,  \* payloads the manifests a sweep has read name
    candidates,  \* payloads a sweep has still to reclaim
    blind,       \* history: a sweep missed the newest manifest it had listed
    restored     \* history: payloads whose last put left a sweep's version current

store == <<stored, manifest, object, age>>
save == <<base, target, unwritten>>
sweep == <<unread, referenced, candidates>>
vars == <<stored, manifest, object, age, pc, base, target, unwritten, elapsed,
          unread, referenced, candidates, blind, restored>>
hist == <<blind, restored>>
-----------------------------------------------------------------------------
\* SnapshotManifest::payload_object_keys
Named(m) == {<<s, m[s]>> : s \in {t \in Slots : m[t] # None}}

IsNewest(g) == g \in stored /\ \A h \in stored : h <= g

Init ==
    /\ stored = {}
    /\ manifest = [g \in Generations |-> NoShards]
    /\ object = [p \in Payloads |-> "absent"]
    /\ age = [p \in Payloads |-> 0]
    /\ pc = [w \in Writers |-> "idle"]
    /\ base = [w \in Writers |-> -1]
    /\ target = [w \in Writers |-> NoShards]
    /\ unwritten = [w \in Writers |-> {}]
    /\ elapsed = [w \in Writers |-> 0]
    /\ unread = [w \in Writers |-> {}]
    /\ referenced = [w \in Writers |-> {}]
    /\ candidates = [w \in Writers |-> {}]
    /\ blind = FALSE
    /\ restored = {}

Goto(w, label) == pc' = [pc EXCEPT ![w] = label]
Restart(w) == elapsed' = [elapsed EXCEPT ![w] = 0]

\* What every sweep has left to reclaim once p is written: a new version takes
\* p from all of them.
StillListed(p) ==
    IF FreshVersions THEN [w \in Writers |-> candidates[w] \ {p}] ELSE candidates

\* The manifest a save starts from.
Shards(g) == IF g = -1 THEN NoShards ELSE manifest[g]

\* The attempt reads the newest manifest and merges: the touched slots of it
\* are fetched and get any content, the others are carried by key.  Slots whose
\* content the base already names there are not written again.
Merge(w) ==
    /\ pc[w] = "idle"
    /\ \E g \in stored \cup {-1} :
          /\ IF g = -1 THEN stored = {} ELSE IsNewest(g)
          /\ \E m \in Manifests :
                /\ \A s \in Slots :
                      m[s] # Shards(g)[s] =>
                         (Shards(g)[s] # None => object[<<s, Shards(g)[s]>>] = "bytes")
                /\ target' = [target EXCEPT ![w] = m]
                /\ unwritten' = [unwritten EXCEPT ![w] =
                      {s \in Slots : m[s] # None /\ m[s] # Shards(g)[s]}]
          /\ base' = [base EXCEPT ![w] = g]
    /\ Goto(w, "put")
    /\ Restart(w)
    /\ UNCHANGED <<store, sweep, hist>>

\* put_shard_payload: an unconditional put at the content's own key.
PutPayload(w) ==
    /\ pc[w] = "put"
    /\ elapsed[w] <= PublishTimeout
    /\ \E s \in unwritten[w] :
          LET p == <<s, target[w][s]>> IN
          /\ object' = [object EXCEPT ![p] = "bytes"]
          /\ age' = [age EXCEPT ![p] = 0]
          /\ candidates' = StillListed(p)
          /\ restored' = IF \E v \in Writers : p \in StillListed(p)[v]
                         THEN restored \cup {p} ELSE restored \ {p}
          /\ unwritten' = [unwritten EXCEPT ![w] = @ \ {s}]
    /\ UNCHANGED <<stored, manifest, pc, base, target, elapsed, unread,
                   referenced, blind>>

\* The conditional create, once every payload is written and before the
\* timeout.  It is followed by the prune.
Create(w) ==
    LET claim == base[w] + 1
        now == stored \cup {claim}
        kept == {g \in now : Cardinality({h \in now : h > g}) < Retain}
    IN  /\ pc[w] = "put"
        /\ unwritten[w] = {}
        /\ elapsed[w] <= PublishTimeout
        /\ claim \in Generations \ stored
        /\ stored' = kept
        /\ manifest' = [g \in Generations |->
              IF g \notin kept THEN NoShards
              ELSE IF g = claim THEN target[w] ELSE manifest[g]]
        /\ Goto(w, IF claim % SweepInterval = 0 THEN "sweep" ELSE "idle")
        /\ base' = [base EXCEPT ![w] = -1]
        /\ target' = [target EXCEPT ![w] = NoShards]
        /\ Restart(w)
        /\ UNCHANGED <<object, age, unwritten, sweep, hist>>

\* AlreadyExists, the timeout, any error and a crash all abandon the attempt
\* or the sweep; a retry is a new Merge.  The payloads written stay behind.
Abandon(w) ==
    /\ pc[w] # "idle"
    /\ Goto(w, "idle")
    /\ base' = [base EXCEPT ![w] = -1]
    /\ target' = [target EXCEPT ![w] = NoShards]
    /\ unwritten' = [unwritten EXCEPT ![w] = {}]
    /\ unread' = [unread EXCEPT ![w] = {}]
    /\ referenced' = [referenced EXCEPT ![w] = {}]
    /\ candidates' = [candidates EXCEPT ![w] = {}]
    /\ Restart(w)
    /\ UNCHANGED <<store, hist>>
-----------------------------------------------------------------------------
(* sweep_orphan_shard_payloads *)

SweepListManifests(w) ==
    /\ pc[w] = "sweep"
    /\ unread' = [unread EXCEPT ![w] = stored]
    /\ referenced' = [referenced EXCEPT ![w] = {}]
    /\ Restart(w)
    /\ Goto(w, "manifests")
    /\ UNCHANGED <<store, save, candidates, hist>>

\* Manifests are read in listing order; one pruned since is skipped.
SweepReadManifest(w) ==
    /\ pc[w] = "manifests"
    /\ \E g \in unread[w] :
          /\ \A h \in unread[w] : g <= h
          /\ unread' = [unread EXCEPT ![w] = @ \ {g}]
          /\ referenced' = [referenced EXCEPT ![w] =
                IF g \in stored THEN @ \cup Named(manifest[g]) ELSE @]
          /\ blind' = (blind \/ (unread[w] = {g} /\ g \notin stored))
    /\ UNCHANGED <<store, pc, save, elapsed, candidates, restored>>

\* Fault: whatever else lies under the prefix is a candidate too.
SweepListPayloadsAndOthers(w) ==
    /\ pc[w] = "manifests"
    /\ unread[w] = {}
    /\ candidates' = [candidates EXCEPT ![w] = {<<None, None>>} \cup
          {p \in Payloads \ referenced[w] : object[p] = "bytes" /\ age[p] >= Grace}]
    /\ referenced' = [referenced EXCEPT ![w] = {}]
    /\ Restart(w)
    /\ Goto(w, "reclaim")
    /\ UNCHANGED <<store, save, unread, hist>>

\* Fault: the sweep does not wait for the grace.
SweepListPayloadsAtOnce(w) ==
    /\ pc[w] = "manifests"
    /\ unread[w] = {}
    /\ candidates' = [candidates EXCEPT ![w] =
          {p \in Payloads \ referenced[w] : object[p] = "bytes"}]
    /\ referenced' = [referenced EXCEPT ![w] = {}]
    /\ Restart(w)
    /\ Goto(w, "reclaim")
    /\ UNCHANGED <<store, save, unread, hist>>

\* The candidates: unreferenced, not yet a tombstone, and Grace old.
SweepListPayloads(w) ==
    /\ pc[w] = "manifests"
    /\ unread[w] = {}
    /\ candidates' = [candidates EXCEPT ![w] =
          {p \in Payloads \ referenced[w] : object[p] = "bytes" /\ age[p] >= Grace}]
    /\ referenced' = [referenced EXCEPT ![w] = {}]
    /\ Restart(w)
    /\ Goto(w, "reclaim")
    /\ UNCHANGED <<store, save, unread, hist>>

\* reclaim_if_unchanged: an Update put conditional on the listed version, which
\* a candidate that holds its bytes still has.
Reclaim(w) ==
    /\ pc[w] = "reclaim"
    /\ \E p \in candidates[w] :
          /\ IF object[p] = "bytes"
             THEN /\ object' = [object EXCEPT ![p] = "tombstone"]
                  /\ age' = [age EXCEPT ![p] = 0]
                  /\ candidates' = [StillListed(p) EXCEPT ![w] = @ \ {p}]
             ELSE /\ candidates' = [candidates EXCEPT ![w] = @ \ {p}]
                  /\ UNCHANGED <<object, age>>
    /\ UNCHANGED <<stored, manifest, pc, save, elapsed, unread, referenced, hist>>

SweepDone(w) ==
    /\ pc[w] = "reclaim"
    /\ candidates[w] = {}
    /\ Goto(w, "idle")
    /\ UNCHANGED <<store, save, elapsed, sweep, hist>>

\* Time passes for objects and phases; a sweep's reads fit their budget.
Tick ==
    /\ \A w \in Writers : pc[w] = "manifests" => elapsed[w] < SweepBudget
    /\ age' = [p \in Payloads |->
          IF object[p] = "bytes" /\ age[p] < Grace THEN age[p] + 1 ELSE age[p]]
    /\ elapsed' = [w \in Writers |->
          IF \/ pc[w] = "put" /\ elapsed[w] <= PublishTimeout
             \/ pc[w] = "manifests"
          THEN elapsed[w] + 1 ELSE elapsed[w]]
    /\ UNCHANGED <<stored, manifest, object, pc, save, sweep, hist>>
-----------------------------------------------------------------------------
Step(w) ==
    \/ Merge(w) \/ PutPayload(w) \/ Create(w) \/ Abandon(w)
    \/ SweepListManifests(w) \/ SweepReadManifest(w) \/ SweepListPayloads(w)
    \/ Reclaim(w) \/ SweepDone(w)

Next == (\E w \in Writers : Step(w)) \/ Tick

Spec == Init /\ [][Next]_vars
-----------------------------------------------------------------------------
\* Every variable keeps its type.
TypeOK ==
    /\ stored \subseteq Generations
    /\ manifest \in [Generations -> Manifests]
    /\ object \in [Payloads -> {"absent", "bytes", "tombstone"}]
    /\ age \in [Payloads -> 0..Grace]
    /\ pc \in [Writers -> {"idle", "put", "sweep", "manifests", "reclaim"}]
    /\ base \in [Writers -> Generations \cup {-1}]
    /\ target \in [Writers -> Manifests]
    /\ unwritten \in [Writers -> SUBSET Slots]
    /\ elapsed \in [Writers -> 0..(PublishTimeout + SweepBudget + 1)]
    /\ unread \in [Writers -> SUBSET Generations]
    /\ referenced \in [Writers -> SUBSET Payloads]
    /\ candidates \in [Writers -> SUBSET Payloads]
    /\ blind \in BOOLEAN
    /\ restored \subseteq Payloads

\* Every payload a retained manifest names is readable, whatever writers and
\* sweeps interleave, but for the two ways a sweep goes wrong: it missed the
\* newest manifest it had listed, or the payload was put again, bytes and
\* version as before, while a sweep had it on its list.
RetainedPayloadsIntact ==
    ~blind => \A g \in stored : \A p \in Named(manifest[g]) \ restored : object[p] = "bytes"

\* A reader of any retained generation finds all of its shards: a payload put
\* again since the sweep's listing survives it, as
\* sweep_orphan_shard_payloads.rs:40-42 says, and skipping a pruned manifest
\* orphans no live payload, as its lines 67-68 say.
EveryRetainedPayloadIntact ==
    \A g \in stored : \A p \in Named(manifest[g]) : object[p] = "bytes"
=============================================================================
