--------------------------- MODULE AdmissionProofs ---------------------------
(***************************************************************************)
(* TLAPS proofs, for any requests, tenants, resources, sizes and limits:   *)
(* a sleeping request that could be admitted always has a waker; the       *)
(* controller's usage is what its permits hold; and what runs is within    *)
(* the limits of one of the requests that run.                             *)
(***************************************************************************)
EXTENDS Admission, SequenceTheorems, FiniteSetTheorems, TLAPS

\* Control points of a request.
Labels == {"resolve", "enqueue", "listen", "check", "wait", "run", "notify", "done"}

\* The queue holds each waiting request once.
QueueOK ==
    /\ pc \in [Requests -> Labels] /\ queue \in Seq(Requests)
    /\ DOMAIN budget = Requests
    /\ \A r \in Requests : pc[r] \in {"listen", "check", "wait"} <=>
           \E i \in DOMAIN queue : queue[i] = r
    /\ \A i, j \in DOMAIN queue : queue[i] = queue[j] => i = j

\* A step that leaves the usage, the queue and the budget of r alone does not
\* change whether r could be admitted.
LEMMA SameChances ==
    ASSUME NEW r, UNCHANGED <<active, tenants, queue, budget>>
    PROVE  Admittable(r)' <=> Admittable(r)
  BY DEF Admittable, Fits, Within

\* A request that joins the queue does not change the chances of those in it.
LEMMA LaterArrival ==
    ASSUME NEW r \in Requests, NEW q \in Requests, q # r, QueueOK,
           queue' = Append(queue, q), UNCHANGED <<active, tenants, budget>>,
           Admittable(r)'
    PROVE  Admittable(r)
<1>1. PICK i \in DOMAIN queue' :
        /\ queue'[i] = r /\ Fits(r)'
        /\ \A j \in 1..(i - 1) : TenantOf[queue'[j]] # TenantOf[r] /\ ~Fits(queue[j])'
  BY Zenon DEF Admittable
<1>2. /\ DOMAIN queue' = 1..(Len(queue) + 1) /\ Len(queue) \in Nat
      /\ \A j \in 1..Len(queue) : queue'[j] = queue[j]
      /\ queue'[Len(queue) + 1] = q
      /\ DOMAIN queue = 1..Len(queue)
  BY AppendProperties DEF QueueOK
<1>3. i \in 1..Len(queue)
  BY <1>1, <1>2
<1>4. \A j \in 1..(i - 1) : queue'[j] = queue[j]
  BY <1>2, <1>3
<1>5. /\ queue[i] = r /\ Fits(r)
      /\ \A j \in 1..(i - 1) : TenantOf[queue[j]] # TenantOf[r] /\ ~Fits(queue[j])
  BY <1>1, <1>2, <1>3, <1>4 DEF Fits, Within
<1> QED BY <1>2, <1>3, <1>5, Zenon DEF Admittable

\* The inductive invariant.
SleepInv == QueueOK /\ SleepersHaveAWaker

\* What is left of the queue when r leaves it.
LEMMA WithoutIsOK ==
    ASSUME QueueOK, NEW r \in Requests, pc[r] \in {"listen", "check", "wait"}
    PROVE  /\ Without(r) \in Seq(Requests)
           /\ DOMAIN Without(r) = 1..(Len(queue) - 1)
           /\ \A q \in Requests : (\E i \in DOMAIN Without(r) : Without(r)[i] = q) <=>
                  q # r /\ \E i \in DOMAIN queue : queue[i] = q
           /\ \A i, j \in DOMAIN Without(r) : Without(r)[i] = Without(r)[j] => i = j
<1> DEFINE place == CHOOSE i \in DOMAIN queue : queue[i] = r
           n == Len(queue)
           rest == [i \in 1..(n - 1) |-> IF i < place THEN queue[i] ELSE queue[i + 1]]
<1>1. /\ queue \in Seq(Requests) /\ n \in Nat /\ DOMAIN queue = 1..n
      /\ \A i \in 1..n : queue[i] \in Requests
      /\ \A i, j \in 1..n : queue[i] = queue[j] => i = j
  BY DEF QueueOK
<1>2. place \in 1..n /\ queue[place] = r
  BY <1>1, Zenon DEF QueueOK
<1>3. Without(r) = rest
  BY Zenon DEF Without
<1> HIDE DEF place, n
<1>4. DOMAIN rest = 1..(n - 1) /\ n - 1 \in Nat /\ rest \in Seq(Requests)
  BY <1>1, <1>2
<1>5. ASSUME NEW i \in 1..(n - 1)
      PROVE  rest[i] # r /\ \E k \in 1..n : queue[k] = rest[i]
  BY <1>1, <1>2, <1>5
<1>6. ASSUME NEW k \in 1..n, queue[k] # r
      PROVE  \E i \in 1..(n - 1) : rest[i] = queue[k]
  <2>1. CASE k < place
    <3>1. k \in 1..(n - 1) /\ rest[k] = queue[k]
      BY <1>1, <1>2, <2>1
    <3> QED BY <3>1, Zenon
  <2>2. CASE k > place
    <3>1. k - 1 \in 1..(n - 1) /\ rest[k - 1] = queue[k]
      BY <1>1, <1>2, <2>2
    <3> QED BY <3>1, Zenon
  <2> QED BY <1>1, <1>2, <1>6, <2>1, <2>2
<1>7. ASSUME NEW i \in 1..(n - 1), NEW j \in 1..(n - 1), rest[i] = rest[j]
      PROVE  i = j
  BY <1>1, <1>2, <1>7
<1> HIDE DEF rest
<1>8. ASSUME NEW q \in Requests
      PROVE  (\E i \in 1..(n - 1) : rest[i] = q) <=> q # r /\ \E i \in 1..n : queue[i] = q
  BY <1>5, <1>6, Zenon
<1> QED BY <1>1, <1>3, <1>4, <1>7, <1>8, Zenon DEF n

\* The steps keep the queue in order.
LEMMA QueueStep ==
    ASSUME QueueOK, [Next]_vars
    PROVE  QueueOK'
<1> USE DEF Goto
<1>1. CASE Reload
  BY <1>1, Zenon DEF Reload, QueueOK
<1>2. ASSUME NEW r \in Requests, Advance(r) \/ Cancel(r)
      PROVE  QueueOK'
  <2>1. CASE Resolve(r) \/ Listen(r) \/ Wake(r) \/ Release(r) \/ NotifyWaiters(r)
    BY <2>1 DEF Resolve, Listen, Wake, Release, NotifyWaiters, state, QueueOK, Labels
  <2>2. CASE Enqueue(r)
    <3>1. CASE UNCHANGED queue
      BY <2>2, <3>1 DEF Enqueue, QueueOK, Labels
    <3>2. CASE queue' = Append(queue, r) /\ pc' = [pc EXCEPT ![r] = "listen"]
      <4>1. /\ queue' \in Seq(Requests) /\ Len(queue) \in Nat
            /\ DOMAIN queue = 1..Len(queue) /\ DOMAIN queue' = 1..(Len(queue) + 1)
            /\ \A i \in 1..Len(queue) : queue'[i] = queue[i]
            /\ queue'[Len(queue) + 1] = r
        BY <3>2, AppendProperties DEF QueueOK
      <4>2. pc[r] = "enqueue" /\ budget' = budget /\ \A i \in 1..Len(queue) : queue[i] # r
        BY <2>2, <4>1, Zenon DEF Enqueue, QueueOK
      <4> QED BY <3>2, <4>1, <4>2 DEF QueueOK, Labels
    <3> QED BY <2>2, <3>1, <3>2, Zenon DEF Enqueue
  <2>3. CASE TryAdmit(r) \/ Cancel(r)
    <3>1. pc[r] \in {"check", "wait"} /\ budget' = budget
      BY <2>3, Zenon DEF TryAdmit, Cancel
    <3>2. CASE queue' = Without(r) /\ pc' \in {[pc EXCEPT ![r] = l] : l \in {"run", "notify"}}
      <4>1. /\ pc' \in [Requests -> Labels] /\ pc'[r] \in {"run", "notify"}
            /\ \A q \in Requests \ {r} : pc'[q] = pc[q]
        BY <3>2 DEF QueueOK, Labels
      <4>2. /\ queue' \in Seq(Requests)
            /\ \A i, j \in DOMAIN queue' : queue'[i] = queue'[j] => i = j
        BY <3>1, <3>2, WithoutIsOK, Zenon
      <4>3. \A q \in Requests : (\E i \in DOMAIN queue' : queue'[i] = q) <=>
                q # r /\ \E i \in DOMAIN queue : queue[i] = q
        BY <3>1, <3>2, WithoutIsOK
      <4>4. \A q \in Requests : pc'[q] \in {"listen", "check", "wait"} <=>
                \E i \in DOMAIN queue' : queue'[i] = q
        BY <4>1, <4>3, Zenon DEF QueueOK
      <4> QED BY <3>1, <4>1, <4>2, <4>4, Zenon DEF QueueOK
    <3>3. CASE UNCHANGED queue /\ pc' = [pc EXCEPT ![r] = "wait"]
      BY <3>1, <3>3, Zenon DEF QueueOK, Labels
    <3> QED BY <2>3, <3>2, <3>3, Zenon DEF TryAdmit, Cancel
  <2> QED BY <1>2, <2>1, <2>2, <2>3, Zenon DEF Advance
<1>3. CASE UNCHANGED vars
  BY <1>3, Zenon DEF vars, QueueOK
<1> QED BY <1>1, <1>2, <1>3, Zenon DEF Next

\* SleepInv is inductive: whoever makes room for a sleeper still has to notify,
\* and whoever passes it holds a permit.
LEMMA SleepStep ==
    ASSUME SleepInv, [Next]_vars
    PROVE  SleepersHaveAWaker'
<1> USE DEF SleepInv
<1> SUFFICES ASSUME NEW r \in Requests, pc'[r] = "wait", r \notin woken', Admittable(r)'
             PROVE  \E q \in Requests : pc'[q] \in {"run", "notify"}
  BY Zenon DEF SleepersHaveAWaker
<1>1. CASE UNCHANGED <<pc, woken, active, tenants, queue, budget>>
  BY <1>1, SameChances, Zenon DEF SleepersHaveAWaker
<1>2. CASE Reload
  BY <1>2, Zenon DEF Reload, Listening
<1>3. ASSUME NEW q \in Requests, Advance(q) \/ Cancel(q)
      PROVE  \E w \in Requests : pc'[w] \in {"run", "notify"}
  <2> USE DEF QueueOK, Labels, Goto
  <2>1. CASE Release(q) \/ Cancel(q)
    BY <2>1, Zenon DEF Release, Cancel
  <2>2. CASE NotifyWaiters(q)
    BY <2>2, Zenon DEF NotifyWaiters, Wakes, Listening
  <2>3. CASE TryAdmit(q)
    <3>1. CASE Admittable(q)
      BY <2>3, <3>1, Zenon DEF TryAdmit
    <3>2. CASE ~Admittable(q)
      <4>1. /\ UNCHANGED <<woken, active, tenants, queue, budget>>
            /\ pc' = [pc EXCEPT ![q] = "wait"] /\ pc[q] = "check"
        BY <2>3, <3>2, Zenon DEF TryAdmit
      <4>2. Admittable(r) /\ r # q
        BY <3>2, <4>1, SameChances
      <4> QED BY <4>1, <4>2, Zenon DEF SleepersHaveAWaker
    <3> QED BY <3>1, <3>2, Zenon
  <2>4. CASE Enqueue(q)
    <3>1. /\ UNCHANGED <<woken, active, tenants, budget>>
          /\ pc[q] = "enqueue" /\ pc'[q] \in {"done", "listen"}
          /\ \A x \in Requests \ {q} : pc'[x] = pc[x]
          /\ queue' = queue \/ queue' = Append(queue, q)
      BY <2>4 DEF Enqueue
    <3>2. r # q /\ pc[r] = "wait"
      BY <3>1, Zenon
    <3>3. Admittable(r)
      BY <3>1, <3>2, SameChances, LaterArrival, Zenon
    <3> QED BY <3>1, <3>2, <3>3, Zenon DEF SleepersHaveAWaker
  <2>5. CASE Resolve(q) \/ Listen(q) \/ Wake(q)
    <3>1. /\ UNCHANGED <<active, tenants, queue>> /\ woken' \in {woken, woken \ {q}}
          /\ pc[q] \in {"resolve", "listen", "wait"}
          /\ pc' \in {[pc EXCEPT ![q] = l] : l \in {"enqueue", "check", "listen"}}
          /\ \A i \in DOMAIN queue : budget'[queue[i]] = budget[queue[i]]
      BY <2>5 DEF Resolve, Listen, Wake, state
    <3>2. r # q /\ pc[r] = "wait" /\ r \notin woken
      BY <3>1
    <3>3. \A i \in DOMAIN queue : Fits(queue[i])' <=> Fits(queue[i])
      BY <3>1, Zenon DEF Fits, Within
    <3>4. Admittable(r)
      BY <3>1, <3>3 DEF Admittable
    <3> QED BY <3>1, <3>2, <3>4 DEF SleepersHaveAWaker
  <2> QED BY <1>3, <2>1, <2>2, <2>3, <2>4, <2>5, Zenon DEF Advance
<1>4. CASE UNCHANGED vars
  BY <1>1, <1>4, Zenon DEF vars
<1> QED BY <1>2, <1>3, <1>4, Zenon DEF Next

\* SleepersHaveAWaker for all constants: acquire_with_limits never leaves a
\* request that could run asleep without a release or removal to come.
THEOREM SleepersWake == Spec => []SleepersHaveAWaker
<1>1. Init => SleepInv
  BY DEF Init, SleepInv, QueueOK, Labels, SleepersHaveAWaker
<1>2. SleepInv /\ [Next]_vars => SleepInv'
  BY QueueStep, SleepStep, Zenon DEF SleepInv
<1> QED BY <1>1, <1>2, PTL DEF Spec, SleepInv
-----------------------------------------------------------------------------
\* A request holds as many units of a resource as its size says.
LEMMA HeldAlone ==
    ASSUME NEW r \in Requests, NEW d \in Resources
    PROVE  /\ Size[r][d] \in Nat
           /\ IsFiniteSet({r} \X (1..Size[r][d]))
           /\ Cardinality({r} \X (1..Size[r][d])) = Size[r][d]
<1>1. PICK n \in Nat : n = Size[r][d]
  <2>1. Size[r][d] \in 0..UsizeMax /\ UsizeMax \in Nat
    BY RequestsAssumption, BoundsAssumption, Zenon DEF Sizes
  <2>2. Size[r][d] \in Nat
    BY <2>1
  <2> QED BY <2>2, Zenon
<1>2. IsFiniteSet(1..n) /\ Cardinality(1..n) = n
  <2>1. 1 \in Int /\ n \in Int
    OBVIOUS
  <2>2. IsFiniteSet(1..n) /\ Cardinality(1..n) = IF 1 > n THEN 0 ELSE n - 1 + 1
    BY <2>1, FS_Interval, Zenon
  <2> QED BY <2>2
<1>3. IsFiniteSet({r} \X (1..n)) /\ Cardinality({r} \X (1..n)) = 1 * Cardinality(1..n)
  <2>1. IsFiniteSet({r}) /\ Cardinality({r}) = 1
    BY FS_Singleton, Zenon
  <2>2. /\ IsFiniteSet({r} \X (1..n))
        /\ Cardinality({r} \X (1..n)) = Cardinality({r}) * Cardinality(1..n)
    BY <1>2, <2>1, FS_Product, Zenon
  <2> QED BY <2>1, <2>2, Zenon
<1>4. Cardinality({r} \X (1..n)) = n
  BY <1>2, <1>3
<1> QED BY <1>1, <1>3, <1>4, Zenon

\* One more permit adds the size of its request to what is used.
LEMMA UsedWith ==
    ASSUME NEW R \in SUBSET Requests, NEW r \in Requests \ R, NEW d \in Resources,
           IsFiniteSet(Held(R, d))
    PROVE  /\ IsFiniteSet(Held(R \cup {r}, d))
           /\ Used(R, d) \in Nat
           /\ Used(R \cup {r}, d) = Used(R, d) + Size[r][d]
<1> DEFINE H == Held(R, d)
           U == {r} \X (1..Size[r][d])
<1>1. Held(R \cup {r}, d) = H \cup U
  BY DEF Held
<1>2. H \cap U = {}
  <2>1. ASSUME NEW x \in H, x \in U  PROVE FALSE
    <3>1. PICK q \in R : x \in {q} \X (1..Size[q][d])
      BY Zenon DEF Held
    <3> QED BY <2>1, <3>1
  <2> QED BY <2>1, Zenon
<1>3. IsFiniteSet(U) /\ Cardinality(U) = Size[r][d] /\ Size[r][d] \in Nat
  BY HeldAlone, Zenon
<1> HIDE DEF H, U
<1>4. /\ IsFiniteSet(H \cup U) /\ Cardinality(H) \in Nat
      /\ Cardinality(H \cup U) = Cardinality(H) + Cardinality(U) - Cardinality({})
  <2>1. IsFiniteSet(H)
    BY Zenon DEF H
  <2> QED BY <1>2, <1>3, <2>1, FS_Union, FS_CardinalityType, Zenon
<1>5. Cardinality(H \cup U) = Cardinality(H) + Size[r][d]
  <2>1. Cardinality({}) = 0
    BY FS_EmptySet, Zenon
  <2> QED BY <1>3, <1>4, <2>1
<1> QED BY <1>1, <1>4, <1>5, Zenon DEF Used, H

\* Fewer permits hold no more.
LEMMA UsedPart ==
    ASSUME NEW R \in SUBSET Requests, NEW T \in SUBSET R, NEW d \in Resources,
           IsFiniteSet(Held(R, d))
    PROVE  /\ IsFiniteSet(Held(T, d))
           /\ Used(T, d) \in Nat /\ Used(R, d) \in Nat /\ Used(T, d) <= Used(R, d)
<1>1. Held(T, d) \subseteq Held(R, d)
  BY Zenon DEF Held
<1> QED BY <1>1, FS_Subset, FS_CardinalityType, Zenon DEF Used

\* The usage the controller keeps is that of its permits.
Exact ==
    /\ active = [d \in Resources |-> Used(Running, d)]
    /\ tenants = [t \in Tenants |-> [d \in Resources |-> Used(RunningOf(t), d)]]
    /\ \A d \in Resources : IsFiniteSet(Held(Running, d))

\* Any permits together, not only all of them, are within the limits of one of
\* them: the one admitted last, when all the others had been.  A release takes
\* away any permit, so it is this that the steps keep.
Bounded ==
    /\ \A T \in SUBSET Running : T # {} =>
          \E r \in T : \A d \in Resources : Used(T, d) <= budget[r].total[d]
    /\ \A t \in Tenants : \A T \in SUBSET RunningOf(t) : T # {} =>
          \E r \in T : \A d \in Resources : Used(T, d) <= budget[r].tenant[d]

\* The types of the rest; a request that has not ended has a batch to run.
Rest ==
    /\ limits \in Limits /\ reloads \in 0..MaxReloads
    /\ left \in [Requests -> Nat] /\ budget \in [Requests -> Limits]
    /\ woken \subseteq Requests
    /\ \A r \in Requests : left[r] = 0 => pc[r] \in {"notify", "done"}

\* The inductive invariant.
UsageInv == QueueOK /\ Rest /\ Exact /\ Bounded

\* A step that takes no permit and releases none keeps usage and bounds.
LEMMA SamePermits ==
    ASSUME Exact, Bounded, UNCHANGED <<active, tenants>>,
           \A q \in Requests : pc'[q] = "run" <=> pc[q] = "run",
           \A q \in Requests : pc[q] = "run" => budget'[q] = budget[q]
    PROVE  Exact' /\ Bounded'
<1>1. Running' = Running
  BY Zenon DEF Running
<1>2. \A t : RunningOf(t)' = RunningOf(t)
  BY <1>1, Zenon DEF RunningOf
<1>3. Exact'
  BY <1>1, <1>2, Zenon DEF Exact
<1>4. \A q \in Running : budget'[q] = budget[q]
  BY Zenon DEF Running
<1>5. \A t : RunningOf(t) \subseteq Running
  BY Zenon DEF RunningOf
<1>6. ASSUME NEW T \in SUBSET Running', T # {}
      PROVE  \E r \in T : \A d \in Resources : Used(T, d) <= budget'[r].total[d]
  <2>1. PICK r \in T : \A d \in Resources : Used(T, d) <= budget[r].total[d]
    BY <1>1, <1>6, Zenon DEF Bounded
  <2>2. budget'[r] = budget[r]
    BY <1>1, <1>4, <1>6, Zenon
  <2> QED BY <2>1, <2>2, Zenon
<1>7. ASSUME NEW t \in Tenants, NEW T \in SUBSET RunningOf(t)', T # {}
      PROVE  \E r \in T : \A d \in Resources : Used(T, d) <= budget'[r].tenant[d]
  <2>1. PICK r \in T : \A d \in Resources : Used(T, d) <= budget[r].tenant[d]
    BY <1>2, <1>7, Zenon DEF Bounded
  <2>2. budget'[r] = budget[r]
    BY <1>2, <1>4, <1>5, <1>7, Zenon
  <2> QED BY <2>1, <2>2, Zenon
<1> QED BY <1>3, <1>6, <1>7, Zenon DEF Bounded

\* What the permits of one tenant hold is part of what all of them hold.
LEMMA TenantsPart ==
    ASSUME Exact, NEW t, NEW d \in Resources
    PROVE  /\ RunningOf(t) \in SUBSET Running /\ Running \in SUBSET Requests
           /\ IsFiniteSet(Held(RunningOf(t), d)) /\ IsFiniteSet(Held(Running, d))
           /\ Used(RunningOf(t), d) \in Nat /\ Used(Running, d) \in Nat
<1>1. RunningOf(t) \in SUBSET Running /\ Running \in SUBSET Requests
  BY Zenon DEF RunningOf, Running
<1>2. IsFiniteSet(Held(Running, d))
  BY Zenon DEF Exact
<1> QED BY <1>1, <1>2, UsedPart, Zenon

\* The limits a request is queued with are numbers of a usize.
LEMMA BudgetsAreSizes ==
    ASSUME Rest, NEW r \in Requests, NEW d \in Resources
    PROVE  budget[r].total[d] \in 0..UsizeMax /\ budget[r].tenant[d] \in 0..UsizeMax
<1>1. budget[r] \in Limits
  BY Zenon DEF Rest
<1>2. budget[r].total \in Sizes /\ budget[r].tenant \in Sizes
  BY <1>1, LimitsAssumption, Zenon
<1> QED BY <1>2, Zenon DEF Sizes

\* Part of what is within a limit is within the limit.
LEMMA PartWithin ==
    ASSUME NEW R \in SUBSET Requests, NEW T \in SUBSET R, NEW d \in Resources,
           IsFiniteSet(Held(R, d)), NEW limit \in 0..UsizeMax, Used(R, d) <= limit
    PROVE  Used(T, d) <= limit
<1>1. Used(T, d) \in Nat /\ Used(R, d) \in Nat /\ Used(T, d) <= Used(R, d)
  BY UsedPart, Zenon
<1> QED BY <1>1, BoundsAssumption

\* An admission charges what the new permit holds, and the request it admits is
\* the one whose limits all permits are within.
LEMMA AdmissionKeeps ==
    ASSUME UsageInv, NEW r \in Requests, TryAdmit(r), Admittable(r)
    PROVE  Exact' /\ Bounded'
<1>1. /\ pc[r] = "check" /\ pc' = [pc EXCEPT ![r] = "run"] /\ Charge(r) /\ Fits(r)
      /\ budget' = budget /\ pc \in [Requests -> Labels] /\ Exact /\ Bounded
  BY Zenon DEF TryAdmit, Admittable, Goto, UsageInv, QueueOK
<1>2. Running' = Running \cup {r} /\ r \in Requests \ Running
  BY <1>1, Zenon DEF Running
<1>3. ASSUME NEW t
      PROVE  /\ t = TenantOf[r] => RunningOf(t)' = RunningOf(t) \cup {r} /\ r \notin RunningOf(t)
             /\ t # TenantOf[r] => RunningOf(t)' = RunningOf(t)
  BY <1>2, Zenon DEF RunningOf
<1>4. ASSUME NEW d \in Resources
      PROVE  /\ IsFiniteSet(Held(Running', d))
             /\ Used(Running', d) = active[d] + Size[r][d]
             /\ Used(Running', d) <= budget[r].total[d]
  <2>1. /\ IsFiniteSet(Held(Running, d)) /\ Running \in SUBSET Requests
        /\ active[d] = Used(Running, d)
    BY <1>1, TenantsPart, Zenon DEF Exact
  <2>2. /\ IsFiniteSet(Held(Running', d)) /\ Used(Running', d) = Used(Running, d) + Size[r][d]
    BY <1>2, <2>1, UsedWith, Zenon
  <2>3. active[d] + Size[r][d] <= budget[r].total[d]
    BY <1>1, Zenon DEF Fits, Within
  <2> QED BY <2>1, <2>2, <2>3, Zenon
<1>5. ASSUME NEW t \in Tenants, NEW d \in Resources, t = TenantOf[r]
      PROVE  /\ IsFiniteSet(Held(RunningOf(t)', d))
             /\ Used(RunningOf(t)', d) = tenants[t][d] + Size[r][d]
             /\ Used(RunningOf(t)', d) <= budget[r].tenant[d]
  <2>1. /\ IsFiniteSet(Held(RunningOf(t), d)) /\ RunningOf(t) \in SUBSET Requests
        /\ tenants[t][d] = Used(RunningOf(t), d)
    BY <1>1, TenantsPart, Zenon DEF Exact
  <2>2. /\ IsFiniteSet(Held(RunningOf(t)', d))
        /\ Used(RunningOf(t)', d) = Used(RunningOf(t), d) + Size[r][d]
    <3>1. r \in Requests \ RunningOf(t) /\ RunningOf(t)' = RunningOf(t) \cup {r}
      BY <1>3, <1>5, Zenon
    <3>2. PICK R \in SUBSET Requests : R = RunningOf(t)
      BY <2>1, Zenon
    <3>3. IsFiniteSet(Held(R \cup {r}, d)) /\ Used(R \cup {r}, d) = Used(R, d) + Size[r][d]
      BY <2>1, <3>1, <3>2, UsedWith, Zenon
    <3> QED BY <3>1, <3>2, <3>3, Zenon
  <2>3. tenants[t][d] + Size[r][d] <= budget[r].tenant[d]
    BY <1>1, <1>5, Zenon DEF Fits, Within
  <2> QED BY <2>1, <2>2, <2>3, Zenon
<1>6. Exact'
  <2>1. active' = [d \in Resources |-> Used(Running', d)]
    BY <1>1, <1>4, Zenon DEF Charge
  <2>2. tenants' = [t \in Tenants |-> [d \in Resources |-> Used(RunningOf(t)', d)]]
    <3>1. tenants = [t \in Tenants |-> [d \in Resources |-> Used(RunningOf(t), d)]]
      BY <1>1, Zenon DEF Exact
    <3>2. tenants' = [tenants EXCEPT ![TenantOf[r]] =
                          [d \in Resources |-> tenants[TenantOf[r]][d] + Size[r][d]]]
      BY <1>1, Zenon DEF Charge
    <3>3. ASSUME NEW t \in Tenants
          PROVE  tenants'[t] = [d \in Resources |-> Used(RunningOf(t)', d)]
      <4>1. CASE t = TenantOf[r]
        BY <1>5, <3>1, <3>2, <4>1, Zenon
      <4>2. CASE t # TenantOf[r]
        BY <1>3, <3>1, <3>2, <4>2, Zenon
      <4> QED BY <4>1, <4>2, Zenon
    <3>4. tenants' = [t \in Tenants |-> tenants'[t]]
      BY <3>1, <3>2, Zenon
    <3> QED BY <3>3, <3>4, Zenon
  <2> QED BY <1>4, <2>1, <2>2, Zenon DEF Exact
<1>7. Rest /\ Running' \in SUBSET Requests /\ \A t : RunningOf(t)' \in SUBSET Requests
  BY <1>2, Zenon DEF UsageInv, Running, RunningOf
<1>8. ASSUME NEW T \in SUBSET Running', T # {}
      PROVE  \E q \in T : \A d \in Resources : Used(T, d) <= budget'[q].total[d]
  <2>1. CASE r \in T
    <3>1. ASSUME NEW d \in Resources  PROVE Used(T, d) <= budget[r].total[d]
      <4>1. PICK R \in SUBSET Requests : R = Running'
        BY <1>7, Zenon
      <4>2. PICK limit \in 0..UsizeMax : limit = budget[r].total[d]
        BY <1>7, BudgetsAreSizes, Zenon
      <4>3. IsFiniteSet(Held(R, d)) /\ Used(R, d) <= limit /\ T \in SUBSET R
        BY <1>4, <4>1, <4>2, Zenon
      <4>4. Used(T, d) <= limit
        BY <4>3, PartWithin
      <4> QED BY <4>2, <4>4, Zenon
    <3> QED BY <1>1, <2>1, <3>1, Zenon
  <2>2. CASE r \notin T
    <3>1. T \in SUBSET Running
      BY <1>2, <2>2, Zenon
    <3> QED BY <1>1, <1>8, <3>1, Zenon DEF Bounded
  <2> QED BY <2>1, <2>2, Zenon
<1>9. ASSUME NEW t \in Tenants, NEW T \in SUBSET RunningOf(t)', T # {}
      PROVE  \E q \in T : \A d \in Resources : Used(T, d) <= budget'[q].tenant[d]
  <2>1. CASE r \in T
    <3>0. t = TenantOf[r]
      BY <2>1, Zenon DEF RunningOf
    <3>1. ASSUME NEW d \in Resources  PROVE Used(T, d) <= budget[r].tenant[d]
      <4>1. PICK R \in SUBSET Requests : R = RunningOf(t)'
        BY <1>7, Zenon
      <4>2. PICK limit \in 0..UsizeMax : limit = budget[r].tenant[d]
        BY <1>7, BudgetsAreSizes, Zenon
      <4>3. IsFiniteSet(Held(R, d)) /\ Used(R, d) <= limit /\ T \in SUBSET R
        BY <1>5, <3>0, <4>1, <4>2, Zenon
      <4>4. Used(T, d) <= limit
        BY <4>3, PartWithin
      <4> QED BY <4>2, <4>4, Zenon
    <3> QED BY <1>1, <2>1, <3>1, Zenon
  <2>2. CASE r \notin T
    <3>1. T \in SUBSET RunningOf(t)
      BY <1>3, <2>2, Zenon
    <3> QED BY <1>1, <1>9, <3>1, Zenon DEF Bounded
  <2> QED BY <2>1, <2>2, Zenon
<1> QED BY <1>6, <1>8, <1>9, Zenon DEF Bounded

\* A release gives back what the permit held, and bounds stay those of the
\* permits that are left.
LEMMA ReleaseKeeps ==
    ASSUME UsageInv, NEW r \in Requests, Release(r)
    PROVE  Exact' /\ Bounded'
<1>1. /\ pc[r] = "run" /\ pc' = [pc EXCEPT ![r] = "notify"] /\ budget' = budget
      /\ pc \in [Requests -> Labels] /\ Exact /\ Bounded
  BY Zenon DEF Release, Goto, UsageInv, QueueOK
<1>2. Running' = Running \ {r} /\ Running = Running' \cup {r} /\ r \in Requests \ Running'
      /\ Running' \in SUBSET Requests /\ Running \in SUBSET Requests
  BY <1>1, Zenon DEF Running
<1>3. ASSUME NEW t
      PROVE  /\ t = TenantOf[r] => /\ RunningOf(t) = RunningOf(t)' \cup {r}
                                   /\ r \in Requests \ RunningOf(t)'
             /\ t # TenantOf[r] => RunningOf(t)' = RunningOf(t)
             /\ RunningOf(t)' \in SUBSET RunningOf(t) /\ RunningOf(t) \in SUBSET Requests
  BY <1>2, Zenon DEF RunningOf
<1>4. ASSUME NEW d \in Resources
      PROVE  /\ IsFiniteSet(Held(Running', d))
             /\ Used(Running', d) = active[d] - Size[r][d]
  <2>1. IsFiniteSet(Held(Running, d)) /\ active[d] = Used(Running, d)
    BY <1>1, Zenon DEF Exact
  <2>2. IsFiniteSet(Held(Running', d))
    BY <1>2, <2>1, UsedPart, Zenon
  <2>3. /\ Used(Running, d) = Used(Running', d) + Size[r][d]
        /\ Used(Running', d) \in Nat /\ Size[r][d] \in Nat
    <3>1. PICK R \in SUBSET Requests : R = Running'
      BY <1>2, Zenon
    <3>2. r \in Requests \ R /\ IsFiniteSet(Held(R, d)) /\ Running = R \cup {r}
      BY <1>2, <2>2, <3>1, Zenon
    <3>3. Used(R \cup {r}, d) = Used(R, d) + Size[r][d] /\ Used(R, d) \in Nat
      BY <3>2, UsedWith, Zenon
    <3> QED BY <3>1, <3>2, <3>3, HeldAlone, Zenon
  <2> QED BY <2>1, <2>2, <2>3
<1>5. ASSUME NEW t \in Tenants, NEW d \in Resources, t = TenantOf[r]
      PROVE  Used(RunningOf(t)', d) = tenants[t][d] - Size[r][d]
  <2>1. IsFiniteSet(Held(RunningOf(t), d)) /\ tenants[t][d] = Used(RunningOf(t), d)
    BY <1>1, TenantsPart, Zenon DEF Exact
  <2>2. IsFiniteSet(Held(RunningOf(t)', d)) /\ RunningOf(t)' \in SUBSET Requests
    BY <1>3, <2>1, UsedPart, Zenon
  <2>3. /\ Used(RunningOf(t), d) = Used(RunningOf(t)', d) + Size[r][d]
        /\ Used(RunningOf(t)', d) \in Nat /\ Size[r][d] \in Nat
    <3>1. RunningOf(t) = RunningOf(t)' \cup {r} /\ r \in Requests \ RunningOf(t)'
      BY <1>3, <1>5, Zenon
    <3>2. PICK R \in SUBSET Requests : R = RunningOf(t)'
      BY <2>2, Zenon
    <3>3. r \in Requests \ R /\ IsFiniteSet(Held(R, d)) /\ RunningOf(t) = R \cup {r}
      BY <2>2, <3>1, <3>2, Zenon
    <3>4. Used(R \cup {r}, d) = Used(R, d) + Size[r][d] /\ Used(R, d) \in Nat
      BY <3>3, UsedWith, Zenon
    <3> QED BY <3>2, <3>3, <3>4, HeldAlone, Zenon
  <2> QED BY <2>1, <2>3
<1>6. Exact'
  <2>1. active' = [d \in Resources |-> Used(Running', d)]
    BY <1>4, Zenon DEF Release
  <2>2. tenants' = [t \in Tenants |-> [d \in Resources |-> Used(RunningOf(t)', d)]]
    <3>1. tenants = [t \in Tenants |-> [d \in Resources |-> Used(RunningOf(t), d)]]
      BY <1>1, Zenon DEF Exact
    <3>2. tenants' = [tenants EXCEPT ![TenantOf[r]] =
                          [d \in Resources |-> tenants[TenantOf[r]][d] - Size[r][d]]]
      BY Zenon DEF Release
    <3>3. ASSUME NEW t \in Tenants
          PROVE  tenants'[t] = [d \in Resources |-> Used(RunningOf(t)', d)]
      <4>1. CASE t = TenantOf[r]
        BY <1>5, <3>1, <3>2, <4>1, Zenon
      <4>2. CASE t # TenantOf[r]
        BY <1>3, <3>1, <3>2, <4>2, Zenon
      <4> QED BY <4>1, <4>2, Zenon
    <3>4. tenants' = [t \in Tenants |-> tenants'[t]]
      BY <3>1, <3>2, Zenon
    <3> QED BY <3>3, <3>4, Zenon
  <2> QED BY <1>4, <2>1, <2>2, Zenon DEF Exact
<1>7. ASSUME NEW T \in SUBSET Running', T # {}
      PROVE  \E q \in T : \A d \in Resources : Used(T, d) <= budget'[q].total[d]
  BY <1>1, <1>2, <1>7, Zenon DEF Bounded
<1>8. ASSUME NEW t \in Tenants, NEW T \in SUBSET RunningOf(t)', T # {}
      PROVE  \E q \in T : \A d \in Resources : Used(T, d) <= budget'[q].tenant[d]
  <2>1. T \in SUBSET RunningOf(t)
    BY <1>3, Zenon
  <2> QED BY <1>1, <1>8, <2>1, Zenon DEF Bounded
<1> QED BY <1>6, <1>7, <1>8, Zenon DEF Bounded

\* The steps keep limits, budgets and batches in their types, and end a request
\* only when no batch is left.
LEMMA RestStep ==
    ASSUME UsageInv, [Next]_vars
    PROVE  Rest'
<1>0. Rest /\ pc \in [Requests -> Labels]
  BY Zenon DEF UsageInv, QueueOK
<1>1. CASE Reload
  <2>1. reloads' \in 0..MaxReloads
    <3>1. reloads \in 0..MaxReloads /\ reloads < MaxReloads /\ reloads' = reloads + 1
      BY <1>0, <1>1, Zenon DEF Reload, Rest
    <3> QED BY <3>1, BoundsAssumption
  <2> QED BY <1>0, <1>1, <2>1, Zenon DEF Reload, Rest, Listening
<1>2. ASSUME NEW r \in Requests, Advance(r) \/ Cancel(r)  PROVE Rest'
  <2>1. CASE Resolve(r)
    <3>1. Override[r] \subseteq Limits
      BY RequestsAssumption, Zenon
    <3>2. budget' \in [Requests -> Limits]
      BY <1>0, <2>1, <3>1, Zenon DEF Resolve, Rest
    <3>3. \A q \in Requests : pc[q] \in {"notify", "done"} => pc'[q] \in {"notify", "done"}
      BY <1>0, <2>1, Zenon DEF Resolve, Goto
    <3> QED BY <1>0, <2>1, <3>2, <3>3, Zenon DEF Resolve, Rest, state
  <2>2. CASE Enqueue(r) \/ Listen(r) \/ TryAdmit(r) \/ Wake(r)
    <3>1. /\ UNCHANGED <<limits, reloads, left, budget>> /\ woken' \subseteq woken
          /\ \A q \in Requests : pc[q] \in {"notify", "done"} => pc'[q] \in {"notify", "done"}
      BY <1>0, <2>2, Zenon DEF Enqueue, Listen, TryAdmit, Wake, Goto, state
    <3> QED BY <1>0, <3>1, Zenon DEF Rest
  <2>3. CASE Cancel(r) \/ Release(r)
    <3>1. PICK n : left' = [left EXCEPT ![r] = n] /\ n \in {0, left[r] - 1}
      BY <2>3, Zenon DEF Cancel, Release
    <3>2. left[r] \in Nat /\ left[r] # 0
      BY <1>0, <2>3, Zenon DEF Cancel, Release, Rest
    <3>3. n \in Nat
      BY <3>1, <3>2
    <3>4. left' \in [Requests -> Nat] /\ \A q \in Requests \ {r} : left'[q] = left[q]
      BY <1>0, <3>1, <3>3, Zenon DEF Rest
    <3>5. pc'[r] = "notify" /\ \A q \in Requests \ {r} : pc'[q] = pc[q]
      BY <1>0, <2>3, Zenon DEF Cancel, Release, Goto
    <3>6. UNCHANGED <<limits, reloads, budget, woken>>
      BY <2>3, Zenon DEF Cancel, Release
    <3> QED BY <1>0, <3>4, <3>5, <3>6, Zenon DEF Rest
  <2>4. CASE NotifyWaiters(r)
    <3>1. /\ UNCHANGED <<limits, reloads, left, budget>> /\ woken' \subseteq Requests
          /\ \A q \in Requests \ {r} : pc'[q] = pc[q]
          /\ left[r] = 0 => pc'[r] = "done"
      BY <1>0, <2>4, Zenon DEF NotifyWaiters, Goto, state, Wakes, Listening, Rest
    <3> QED BY <1>0, <3>1, Zenon DEF Rest
  <2> QED BY <1>2, <2>1, <2>2, <2>3, <2>4, Zenon DEF Advance
<1>3. CASE UNCHANGED vars
  BY <1>0, <1>3, Zenon DEF vars, Rest
<1> QED BY <1>1, <1>2, <1>3, Zenon DEF Next

\* UsageInv is inductive.
LEMMA UsageStep ==
    ASSUME UsageInv, [Next]_vars
    PROVE  UsageInv'
<1>0. QueueOK' /\ Rest'
  BY QueueStep, RestStep, Zenon DEF UsageInv
<1>1. Exact /\ Bounded /\ pc \in [Requests -> Labels] /\ DOMAIN budget = Requests
  BY Zenon DEF UsageInv, QueueOK
<1>2. CASE Reload \/ UNCHANGED vars
  <2>1. UNCHANGED <<active, tenants, pc, budget>>
    BY <1>2, Zenon DEF Reload, vars
  <2> QED BY <1>0, <1>1, <2>1, SamePermits, Zenon DEF UsageInv
<1>3. ASSUME NEW r \in Requests, Advance(r) \/ Cancel(r)  PROVE Exact' /\ Bounded'
  <2>1. CASE Release(r)
    BY <2>1, ReleaseKeeps, Zenon
  <2>2. CASE TryAdmit(r) /\ Admittable(r)
    BY <2>2, AdmissionKeeps, Zenon
  <2>3. CASE \/ Resolve(r) \/ Enqueue(r) \/ Listen(r) \/ Wake(r) \/ NotifyWaiters(r) \/ Cancel(r)
             \/ TryAdmit(r) /\ ~Admittable(r)
    <3>1. /\ UNCHANGED <<active, tenants>> /\ pc[r] # "run" /\ pc'[r] # "run"
          /\ \A q \in Requests \ {r} : pc'[q] = pc[q]
      BY <1>1, <2>3, Zenon DEF Resolve, Enqueue, Listen, Wake, NotifyWaiters, Cancel, TryAdmit,
                               Goto, state
    <3>2. \A q \in Requests \ {r} : budget'[q] = budget[q]
      BY <1>1, <2>3, Zenon DEF Resolve, Enqueue, Listen, Wake, NotifyWaiters, Cancel, TryAdmit
    <3> QED BY <1>1, <3>1, <3>2, SamePermits, Zenon
  <2> QED BY <1>3, <2>1, <2>2, <2>3, Zenon DEF Advance
<1> QED BY <1>0, <1>2, <1>3, Zenon DEF UsageInv, Next

\* Nothing is used and nobody holds a permit at the start.
LEMMA UsageInit == Init => UsageInv
<1> SUFFICES ASSUME Init  PROVE UsageInv
  BY Zenon
<1>1. QueueOK
  BY DEF Init, QueueOK, Labels
<1>2. Rest
  <2>1. \A r \in Requests : Batches[r] \in Nat /\ Batches[r] # 0
    BY RequestsAssumption
  <2>2. 0 \in 0..MaxReloads /\ Batches \in [Requests -> Nat]
    BY RequestsAssumption, BoundsAssumption
  <2> QED BY <2>1, <2>2, Zenon DEF Init, Rest
<1>3. Running = {} /\ \A t : RunningOf(t) = {}
  BY Zenon DEF Init, Running, RunningOf
<1>4. ASSUME NEW d  PROVE Used({}, d) = 0 /\ IsFiniteSet(Held({}, d))
  <2>1. Held({}, d) = {}
    BY Zenon DEF Held
  <2> QED BY <2>1, FS_EmptySet, Zenon DEF Used
<1>5. Exact
  BY <1>3, <1>4, Zenon DEF Init, Exact
<1>6. Bounded
  BY <1>3, Zenon DEF Bounded
<1> QED BY <1>1, <1>2, <1>5, <1>6, Zenon DEF UsageInv

\* The inductive invariant holds in every reachable state.
THEOREM Invariant == Spec => []UsageInv
<1>1. UsageInv /\ [Next]_vars => UsageInv'
  BY UsageStep, Zenon
<1> QED BY <1>1, UsageInit, PTL DEF Spec

\* add_usage and release never drift apart: through admissions, releases and
\* cancellations the counted usage is what the permits hold.
THEOREM UsageExact == Spec => []UsageIsExact
<1>1. UsageInv => UsageIsExact
  <2> SUFFICES ASSUME Exact, NEW d \in Resources
               PROVE  /\ active[d] = Used(Running, d)
                      /\ \A t \in Tenants : tenants[t][d] = Used(RunningOf(t), d)
    BY Zenon DEF UsageInv, UsageIsExact
  <2> QED BY Zenon DEF Exact
<1> QED BY <1>1, Invariant, PTL

\* try_admit never lets running work add up to more than the limits of one of
\* the requests that run, whatever overrides and reloads say.
THEOREM WithinLimits == Spec => []WorkWithinLimits
<1>1. UsageInv => WorkWithinLimits
  BY Zenon DEF UsageInv, Bounded, WorkWithinLimits
<1> QED BY <1>1, Invariant, PTL

\* Every variable keeps its type: no count goes below zero or past a usize.
THEOREM TypeCorrect == Spec => []TypeOK
<1>1. UsageInv => TypeOK
  <2> SUFFICES ASSUME UsageInv  PROVE TypeOK
    BY Zenon
  <2>1. /\ Exact /\ Bounded /\ Rest /\ QueueOK
    BY Zenon DEF UsageInv
  <2>2. ASSUME NEW t, NEW d \in Resources, NEW T \in {Running, RunningOf(t)},
               T # {} => \E r \in T : \E n \in 0..UsizeMax : Used(T, d) <= n
        PROVE  Used(T, d) \in 0..UsizeMax
    <3>1. Used(T, d) \in Nat
      BY <2>1, TenantsPart, Zenon
    <3>2. CASE T = {}
      <4>1. Used(T, d) = 0
        BY <3>2, FS_EmptySet, Zenon DEF Used, Held
      <4> QED BY <4>1, BoundsAssumption
    <3>3. CASE T # {}
      BY <2>2, <3>1, <3>3, BoundsAssumption
    <3> QED BY <3>2, <3>3, Zenon
  <2>3. \A d \in Resources : Used(Running, d) \in 0..UsizeMax
    <3>1. ASSUME NEW d \in Resources, Running # {}
          PROVE  \E r \in Running : \E n \in 0..UsizeMax : Used(Running, d) <= n
      <4>1. PICK r \in Running : Used(Running, d) <= budget[r].total[d]
        BY <2>1, <3>1, Zenon DEF Bounded
      <4>2. budget[r].total[d] \in 0..UsizeMax
        BY <2>1, BudgetsAreSizes, Zenon DEF Running
      <4> QED BY <4>1, <4>2, Zenon
    <3> QED BY <2>2, <3>1, Zenon
  <2>4. ASSUME NEW t \in Tenants, NEW d \in Resources  PROVE Used(RunningOf(t), d) \in 0..UsizeMax
    <3>1. ASSUME RunningOf(t) # {}
          PROVE  \E r \in RunningOf(t) : \E n \in 0..UsizeMax : Used(RunningOf(t), d) <= n
      <4>1. PICK r \in RunningOf(t) : Used(RunningOf(t), d) <= budget[r].tenant[d]
        BY <2>1, <3>1, Zenon DEF Bounded
      <4>2. budget[r].tenant[d] \in 0..UsizeMax
        BY <2>1, BudgetsAreSizes, Zenon DEF Running, RunningOf
      <4> QED BY <4>1, <4>2, Zenon
    <3> QED BY <2>2, <3>1, Zenon
  <2>5. active \in Sizes /\ tenants \in [Tenants -> Sizes]
    BY <2>1, <2>3, <2>4, Zenon DEF Exact, Sizes
  <2> QED BY <2>1, <2>5, Zenon DEF TypeOK, Rest, QueueOK, Labels
<1> QED BY <1>1, Invariant, PTL
=============================================================================
