------------------------------ MODULE Admission ------------------------------
(***************************************************************************)
(* Query admission (crates/query-frontend/src/{admission,execute}.rs): a   *)
(* queue that requests of all tenants share, in which a request that fits  *)
(* passes earlier ones that do not, and a Notify that wakes all sleepers.  *)
(* Each step holds the state mutex once, or is one call of the Notify.     *)
(*                                                                         *)
(* Abstractions.  Requests, subqueries and estimated bytes are resources   *)
(* with the same rule, a request being one unit of the first.  A tenant    *)
(* without an entry has no usage.  Cached subqueries need no permit.       *)
(***************************************************************************)
EXTENDS Integers, Sequences, FiniteSets

CONSTANTS
    Requests,     \* requests to the query frontend
    Tenants,
    TenantOf,     \* TenantOf[r]: the tenant of a request
    Resources,    \* requests, subqueries, estimated bytes
    Size,         \* Size[r][d]: what one batch of r takes of a resource
    Limits,       \* AdmissionLimits that tenants and reloads use
    Override,     \* Override[r]: {} or the limits the adapter resolves for r
    UsizeMax,     \* bound: the largest usize
    Batches,      \* Batches[r]: batches of max_parallelism subqueries in r
    MaxReloads    \* bound: reloads of the limits

Sizes == [Resources -> 0..UsizeMax]

ASSUME RequestsAssumption ==
    /\ TenantOf \in [Requests -> Tenants] /\ Size \in [Requests -> Sizes]
    /\ Batches \in [Requests -> Nat \ {0}]
    /\ Override \in [Requests -> SUBSET Limits]
ASSUME BoundsAssumption == UsizeMax \in Nat /\ MaxReloads \in Nat
ASSUME LimitsAssumption ==
    \A l \in Limits : /\ l.total \in Sizes /\ l.tenant \in Sizes
                      /\ l.queue \in Nat /\ l.tenantQueue \in Nat

VARIABLES
    limits,    \* the controller's limits
    reloads,   \* reloads so far
    active,    \* active[d]: usage by all permits
    tenants,   \* tenants[t][d]: usage by the permits of a tenant
    queue,     \* waiting requests, in order of arrival
    pc,        \* "resolve", "enqueue", "listen", "check", "wait", "run", "notify", "done"
    left,      \* left[r]: batches still to run
    budget,    \* budget[r]: the limits r was queued with
    woken      \* requests whose Notified future is complete

state == <<limits, active, tenants, queue>>
vars == <<limits, reloads, active, tenants, queue, pc, left, budget, woken>>

Goto(r, label) == pc' = [pc EXCEPT ![r] = label]

Init ==
    /\ limits \in Limits
    /\ reloads = 0
    /\ active = [d \in Resources |-> 0]
    /\ tenants = [t \in Tenants |-> [d \in Resources |-> 0]]
    /\ queue = <<>>
    /\ pc = [r \in Requests |-> "resolve"]
    /\ left = Batches
    /\ budget = [r \in Requests |-> limits]
    /\ woken = {}
-----------------------------------------------------------------------------
\* Notify::notify_waiters: completes the futures that exist.
Listening == {r \in Requests : pc[r] \in {"check", "wait"}}

\* AdmissionController::reload.  Waiters keep the limits they were queued with, so
\* its two calls are one step.
Reload ==
    /\ reloads < MaxReloads
    /\ limits' \in Limits \ {limits}
    /\ reloads' = reloads + 1
    /\ woken' = woken \cup Listening
    /\ UNCHANGED <<active, tenants, queue, pc, left, budget>>

\* The limits of the next batch: the request's own, or acquire reads the current.
Resolve(r) ==
    /\ pc[r] = "resolve"
    /\ budget' = [budget EXCEPT ![r] =
           IF Override[r] = {} THEN limits ELSE CHOOSE l \in Override[r] : TRUE]
    /\ Goto(r, "enqueue")
    /\ UNCHANGED <<state, reloads, left, woken>>

TooLarge(r) ==
    \E d \in Resources : \/ Size[r][d] > budget[r].total[d]
                         \/ Size[r][d] > budget[r].tenant[d]

QueueFull(r) ==
    \/ Len(queue) >= budget[r].queue
    \/ Cardinality({i \in DOMAIN queue : TenantOf[queue[i]] = TenantOf[r]})
           >= budget[r].tenantQueue

\* acquire_with_limits up to the queue; a refused request fails as a whole.
Enqueue(r) ==
    /\ pc[r] = "enqueue"
    /\ IF TooLarge(r) \/ QueueFull(r)
       THEN Goto(r, "done") /\ UNCHANGED queue
       ELSE Goto(r, "listen") /\ queue' = Append(queue, r)
    /\ UNCHANGED <<limits, reloads, active, tenants, left, budget, woken>>

\* The loop of acquire_with_limits creates the future before it looks.
Listen(r) ==
    /\ pc[r] = "listen"
    /\ Goto(r, "check")
    /\ woken' = woken \ {r}
    /\ UNCHANGED <<state, reloads, left, budget>>

\* Fault: usage is added up without checked_add.
WithinWrapping(used, size, limit) == (used + size) % (UsizeMax + 1) <= limit

\* checked_add: a sum past usize::MAX is within no limit.
Within(used, size, limit) == used + size <= limit

\* Fault: the tenant's own limits are left out.
FitsInTotal(r) == \A d \in Resources : Within(active[d], Size[r][d], budget[r].total[d])

Fits(r) ==
    \A d \in Resources :
        /\ Within(active[d], Size[r][d], budget[r].total[d])
        /\ Within(tenants[TenantOf[r]][d], Size[r][d], budget[r].tenant[d])

\* The condition of try_admit.
Admittable(r) ==
    \E i \in DOMAIN queue :
        /\ queue[i] = r /\ Fits(r)
        /\ \A j \in 1..(i - 1) : TenantOf[queue[j]] # TenantOf[r] /\ ~Fits(queue[j])

\* The queue without r, which is in it once.
Without(r) ==
    LET place == CHOOSE i \in DOMAIN queue : queue[i] = r IN
    [i \in 1..(Len(queue) - 1) |-> IF i < place THEN queue[i] ELSE queue[i + 1]]

\* Fault: only the tenant is charged.
ChargeTenantOnly(r) ==
    /\ tenants' = [tenants EXCEPT ![TenantOf[r]] = [d \in Resources |-> @[d] + Size[r][d]]]
    /\ UNCHANGED active

\* add_usage.
Charge(r) ==
    /\ active' = [d \in Resources |-> active[d] + Size[r][d]]
    /\ tenants' = [tenants EXCEPT ![TenantOf[r]] = [d \in Resources |-> @[d] + Size[r][d]]]

\* try_admit.  Nobody is notified of an admission.
TryAdmit(r) ==
    /\ pc[r] = "check"
    /\ \/ /\ Admittable(r)
          /\ queue' = Without(r)
          /\ Charge(r)
          /\ Goto(r, "run")
       \/ /\ ~Admittable(r)
          /\ Goto(r, "wait")
          /\ UNCHANGED <<active, tenants, queue>>
    /\ UNCHANGED <<limits, reloads, left, budget, woken>>

\* notified.await returns.
Wake(r) ==
    /\ pc[r] = "wait" /\ r \in woken
    /\ Goto(r, "listen")
    /\ UNCHANGED <<state, reloads, left, budget, woken>>

\* Fault: a dropped request keeps its place in the queue.
CancelKeepsPlace(r) ==
    /\ pc[r] = "wait"
    /\ left' = [left EXCEPT ![r] = 0]
    /\ Goto(r, "notify")
    /\ UNCHANGED <<limits, reloads, active, tenants, queue, budget, woken>>

\* The request future is dropped while it waits: remove_waiter.
Cancel(r) ==
    /\ pc[r] = "wait"
    /\ queue' = Without(r)
    /\ left' = [left EXCEPT ![r] = 0]
    /\ Goto(r, "notify")
    /\ UNCHANGED <<limits, reloads, active, tenants, budget, woken>>

\* The batch has run, failed or been dropped with its future: release.
Release(r) ==
    /\ pc[r] = "run"
    /\ active' = [d \in Resources |-> active[d] - Size[r][d]]
    /\ tenants' = [tenants EXCEPT ![TenantOf[r]] = [d \in Resources |-> @[d] - Size[r][d]]]
    /\ \E n \in {0, left[r] - 1} : left' = [left EXCEPT ![r] = n]
    /\ Goto(r, "notify")
    /\ UNCHANGED <<limits, reloads, queue, budget, woken>>

\* Fault: one sleeper is woken, as notify_one would.
WakesOne == IF Listening = {} THEN {} ELSE {CHOOSE r \in Listening : TRUE}

Wakes == Listening

\* The notify_waiters that ends remove_waiter and release.
NotifyWaiters(r) ==
    /\ pc[r] = "notify"
    /\ woken' = woken \cup Wakes
    /\ Goto(r, IF left[r] = 0 THEN "done" ELSE "resolve")
    /\ UNCHANGED <<state, reloads, left, budget>>
-----------------------------------------------------------------------------
Advance(r) ==
    \/ Resolve(r) \/ Enqueue(r) \/ Listen(r) \/ TryAdmit(r) \/ Wake(r)
    \/ Release(r) \/ NotifyWaiters(r)

Next == Reload \/ \E r \in Requests : Advance(r) \/ Cancel(r)

Spec == Init /\ [][Next]_vars

\* Every task is scheduled again and every batch comes to an end.
FairSpec == Spec /\ \A r \in Requests : WF_vars(Advance(r))
-----------------------------------------------------------------------------
\* Every variable keeps its type.
TypeOK ==
    /\ limits \in Limits /\ reloads \in 0..MaxReloads
    /\ active \in Sizes /\ tenants \in [Tenants -> Sizes]
    /\ queue \in Seq(Requests)
    /\ pc \in [Requests -> {"resolve", "enqueue", "listen", "check", "wait", "run",
                            "notify", "done"}]
    /\ left \in [Requests -> Nat] /\ budget \in [Requests -> Limits]
    /\ woken \subseteq Requests

Running == {r \in Requests : pc[r] = "run"}
RunningOf(t) == {r \in Running : TenantOf[r] = t}

\* The units of a resource that the permits of R hold, and how many they are: the
\* sum of their sizes.
Held(R, d) == UNION {{r} \X (1..Size[r][d]) : r \in R}
Used(R, d) == Cardinality(Held(R, d))

\* What the controller counts as used is what its permits hold, in total and per
\* tenant, through admissions, releases and cancellations.
UsageIsExact ==
    \A d \in Resources :
        /\ active[d] = Used(Running, d)
        /\ \A t \in Tenants : tenants[t][d] = Used(RunningOf(t), d)

\* The work that runs stays within the limits of one of the requests that run
\* (the one admitted last), in total and per tenant: overrides and reloads may
\* differ, but usage never adds up to more than somebody's limits allow.
WorkWithinLimits ==
    /\ Running # {} => \E r \in Running : \A d \in Resources :
           Used(Running, d) <= budget[r].total[d]
    /\ \A t \in Tenants : RunningOf(t) # {} =>
           \E r \in RunningOf(t) : \A d \in Resources :
               Used(RunningOf(t), d) <= budget[r].tenant[d]

\* A request that sleeps although it could be admitted (an admission wakes
\* nobody) has a permit or a removed waiter ahead whose notify_waiters wakes it.
SleepersHaveAWaker ==
    \A r \in Requests : pc[r] = "wait" /\ r \notin woken /\ Admittable(r) =>
        \E q \in Requests : pc[q] \in {"run", "notify"}

\* With finitely many requests, every one of them is answered, refused or
\* cancelled: no wake-up is lost and nobody waits for good ("Fair, cancellable
\* admission").
EveryRequestEnds == \A r \in Requests : <>(pc[r] = "done")
=============================================================================
