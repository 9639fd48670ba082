-------------------------- MODULE TaskLeaseProofs --------------------------
(***************************************************************************)
(* Proofs about TaskLease, for every set of tasks, workers and goals and   *)
(* every value of the other constants.  IInv is the inductive invariant:   *)
(* the bound on attempts (NoSilentRetry) needs QueuedHasAttempt, because   *)
(* a claim consults the limit only for tasks that are not queued, and      *)
(* HolderAgrees needs LeaseShape, because refreshing and releasing compare *)
(* holders.                                                                *)
(***************************************************************************)
EXTENDS TaskLease, FiniteSetTheorems, TLAPS

USE DEF IsActive, IsExpired

-----------------------------------------------------------------------------
(* Lemmas about the operators of the module. *)

\* Touch keeps the order of the task list well-typed.
LEMMA TouchType ==
  ASSUME order \in [Task -> Nat], NEW t \in Task, Touch(t)
  PROVE  order' \in [Task -> Nat]
BY DEF Touch

\* The worker a call acts for is a worker or nobody.
LEMMA ActingAsType ==
  ASSUME assigned \in [Task -> Caller], NEW t \in Task, NEW c \in Caller
  PROVE  ActingAs(t, c) \in Caller
BY DEF ActingAs

\* HeardFrom keeps the silences well-typed.
LEMMA HeardFromType ==
  ASSUME silence \in [Worker -> 0..LeaseTicks], NEW c \in Caller, HeardFrom(c)
  PROVE  silence' \in [Worker -> 0..LeaseTicks]
BY Parameters DEF HeardFrom, Caller

\* Refreshing a lease leaves it a lease, keeps its holder and its attempt, and gives the
\* full term or changes nothing.
LEMMA RefreshedLease ==
  ASSUME NEW l \in Lease, NEW c \in Caller
  PROVE  /\ Refreshed(l, c) \in Lease
         /\ Refreshed(l, c).status = l.status
         /\ Refreshed(l, c).holder = l.holder
         /\ Refreshed(l, c).attempt = l.attempt
         /\ Refreshed(l, c).ttl = IF IsActive(l) /\ (c = None \/ l.holder = c)
                                  THEN LeaseTicks ELSE l.ttl
BY Parameters DEF Refreshed, Lease, LeaseStatus

\* Ending a lease leaves it a lease with its holder and attempt, and no time left.
LEMMA EndedLease ==
  ASSUME NEW l \in Lease, NEW s \in LeaseStatus
  PROVE  /\ Ended(l, s) \in Lease /\ Ended(l, s).status = s /\ Ended(l, s).ttl = 0
         /\ Ended(l, s).holder = l.holder /\ Ended(l, s).attempt = l.attempt
<1>1. l \in [status: LeaseStatus, holder: Worker \cup {None}, ttl: 0..LeaseTicks, attempt: Nat]
  BY DEF Lease
<1>2. 0 \in 0..LeaseTicks
  BY Parameters
<1>3. QED BY <1>1, <1>2 DEF Ended, Lease

\* Releasing a lease leaves it a lease, keeps its holder and its attempt, and ends it or
\* changes nothing.
LEMMA ReleasedLease ==
  ASSUME NEW l \in Lease, NEW c \in Caller
  PROVE  /\ Released(l, c) \in Lease
         /\ Released(l, c).holder = l.holder
         /\ Released(l, c).attempt = l.attempt
         /\ Released(l, c).status =
              IF l.status # "none" /\ (c = None \/ l.holder = c)
              THEN "released" ELSE l.status
         /\ Released(l, c).ttl =
              IF l.status # "none" /\ (c = None \/ l.holder = c) THEN 0 ELSE l.ttl
<1>1. "released" \in LeaseStatus
  BY DEF LeaseStatus
<1>2. QED BY <1>1, EndedLease DEF Released

\* Marking a lease expired changes its status only.
LEMMA MarkedExpiredLease ==
  ASSUME NEW l \in Lease
  PROVE  /\ MarkedExpired(l) \in Lease
         /\ MarkedExpired(l).status = "expired"
         /\ MarkedExpired(l).holder = l.holder
         /\ MarkedExpired(l).ttl = l.ttl
         /\ MarkedExpired(l).attempt = l.attempt
BY DEF MarkedExpired, Lease, LeaseStatus

\* A new lease is active, in the worker's hands, for the full term and one attempt on.
LEMMA BuiltLease ==
  ASSUME lease \in [Task -> Lease], NEW t \in Task, NEW w \in Worker
  PROVE  /\ BuildLease(t, w) \in Lease
         /\ BuildLease(t, w).status = "active"
         /\ BuildLease(t, w).holder = w
         /\ BuildLease(t, w).ttl = LeaseTicks
         /\ BuildLease(t, w).attempt = lease[t].attempt + 1
<1>1. lease[t].attempt \in Nat
  BY DEF Lease
<1>2. LeaseTicks \in 0..LeaseTicks
  BY Parameters
<1>3. QED BY <1>1, <1>2 DEF BuildLease, Lease, LeaseStatus

\* One tick less, and never below 0.
LEMMA DownType ==
  ASSUME NEW n \in Nat
  PROVE  /\ Down(n) \in Nat
         /\ Down(n) <= n
         /\ n > 0 => Down(n) = n - 1
         /\ n = 0 => Down(n) = 0
BY DEF Down

\* A tick shortens a lease and changes nothing else of it.
LEMMA TickedLease ==
  ASSUME NEW l \in Lease
  PROVE  LET d == [l EXCEPT !.ttl = Down(@)]
         IN  /\ d \in Lease /\ d.status = l.status /\ d.holder = l.holder
             /\ d.attempt = l.attempt /\ d.ttl = Down(l.ttl)
<1>1. l.ttl \in 0..LeaseTicks
  BY DEF Lease
<1>2. Down(l.ttl) \in 0..LeaseTicks
  BY <1>1, Parameters DEF Down
<1>3. QED BY <1>2 DEF Lease

-----------------------------------------------------------------------------
(* Types. *)

\* The initial state is well-typed.
LEMMA TypeInit == Init => TypeOK
<1>1. Cardinality(Task) \in Nat
  BY FiniteTasks, FS_CardinalityType
<1>2. NoLease \in Lease
  BY Parameters DEF NoLease, Lease, LeaseStatus
<1>3. QED BY <1>1, <1>2, Parameters DEF Init, TypeOK, Caller, TaskStatus

\* Every handler keeps the types.
LEMMA TypeStep == TypeOK /\ [Next]_vars => TypeOK'
<1> SUFFICES ASSUME TypeOK, [Next]_vars
             PROVE  TypeOK'
  OBVIOUS
<1> USE DEF TypeOK, taskVars, workerVars
<1>1. ASSUME NEW w \in Worker, NEW enabled \in BOOLEAN,
             Register(w, enabled) \/ PatchWorker(w, enabled)
      PROVE  TypeOK'
  BY <1>1 DEF Register, PatchWorker
<1>2. ASSUME NEW w \in Worker, NEW skew \in Skews, Heartbeat(w, skew)
      PROVE  TypeOK'
  <2>1. onlineFor' \in [Worker -> Nat]
    <3>1. onlineFor[w] \in Nat /\ OnlineTicks + skew \in Int
      BY Parameters
    <3>2. (IF onlineFor[w] > OnlineTicks + skew THEN onlineFor[w]
           ELSE OnlineTicks + skew) \in Nat
      BY <3>1
    <3>3. QED BY <1>2, <3>2 DEF Heartbeat
  <2>2. lease' \in [Task -> Lease] /\ order' \in [Task -> Nat]
    <3>1. CASE UNCHANGED <<lease, order>>
      BY <3>1
    <3>2. ASSUME NEW t \in HeldBy(w),
                 lease' = [lease EXCEPT ![t] = Refreshed(lease[t], w)],
                 IF lease[t].holder = w THEN Touch(t) ELSE UNCHANGED order
          PROVE  lease' \in [Task -> Lease] /\ order' \in [Task -> Nat]
      <4>1. t \in Task
        BY DEF HeldBy
      <4>2. Refreshed(lease[t], w) \in Lease
        BY <4>1, RefreshedLease DEF Caller
      <4>3. order' \in [Task -> Nat]
        BY <3>2, <4>1, TouchType
      <4>4. QED BY <3>2, <4>2, <4>3
    <3>3. QED BY <1>2, <3>1, <3>2 DEF Heartbeat, RefreshWorkerActiveLease
  <2>3. silence' \in [Worker -> 0..LeaseTicks]
    BY <1>2, HeardFromType DEF Heartbeat, Caller
  <2>4. QED BY <1>2, <2>1, <2>2, <2>3 DEF Heartbeat
<1>3. ASSUME NEW g \in Goal, PatchGoal(g)
      PROVE  TypeOK'
  BY <1>3 DEF PatchGoal
<1>4. ASSUME NEW t \in Task, CreateTask(t)
      PROVE  TypeOK'
  <2>1. NoLease \in Lease
    BY Parameters DEF NoLease, Lease, LeaseStatus
  <2>2. QED BY <1>4, <2>1, TouchType DEF CreateTask, Caller, TaskStatus
<1>5. ASSUME NEW t \in Task, RepairEvidence(t) \/ HygieneMetadata(t)
      PROVE  TypeOK'
  BY <1>5, TouchType DEF RepairEvidence, HygieneMetadata
<1>6. ASSUME NEW t \in Task, Requeue(t)
      PROVE  TypeOK'
  BY <1>6, TouchType DEF Requeue, Caller, TaskStatus
<1>7. ASSUME NEW t \in Task, RequeueSafe(t)
      PROVE  TypeOK'
  <2>1. Ended(lease[t], "released") \in Lease
    BY EndedLease DEF LeaseStatus
  <2>2. lease' \in [Task -> Lease]
    BY <1>7, <2>1 DEF RequeueSafe
  <2>3. QED BY <1>7, <2>2, TouchType DEF RequeueSafe, Caller, TaskStatus
<1>8. ASSUME NEW t \in Task, NEW w \in Worker, ClaimGrant(t, w)
      PROVE  TypeOK'
  <2>1. BuildLease(t, w) \in Lease
    BY BuiltLease
  <2>2. QED BY <1>8, <2>1, TouchType, HeardFromType DEF ClaimGrant, Caller, TaskStatus
<1>9. ASSUME NEW t \in Task, NEW w \in Worker, ClaimMarksExpired(t, w)
      PROVE  TypeOK'
  <2>1. MarkedExpired(lease[t]) \in Lease
    BY MarkedExpiredLease
  <2>2. QED BY <1>9, <2>1, TouchType, HeardFromType DEF ClaimMarksExpired, Caller
<1>10. ASSUME NEW t \in Task, NEW c \in Caller, StartRun(t, c)
       PROVE  TypeOK'
  <2>1. ActingAs(t, c) \in Caller
    BY ActingAsType
  <2>2. Refreshed(lease[t], ActingAs(t, c)) \in Lease
    BY <2>1, RefreshedLease
  <2>3. QED BY <1>10, <2>1, <2>2, TouchType, HeardFromType DEF StartRun, TaskStatus
<1>11. ASSUME NEW t \in Task, NEW c \in Caller, StartMarksExpired(t, c)
       PROVE  TypeOK'
  <2>1. ActingAs(t, c) \in Caller
    BY ActingAsType
  <2>2. MarkedExpired(lease[t]) \in Lease
    BY MarkedExpiredLease
  <2>3. QED BY <1>11, <2>1, <2>2, TouchType, HeardFromType DEF StartMarksExpired
<1>12. ASSUME NEW t \in Task, NEW c \in Caller,
              NEW outcome \in {"completed", "failed", "blocked"}, Finish(t, c, outcome)
       PROVE  TypeOK'
  <2>1. ActingAs(t, c) \in Caller
    BY ActingAsType
  <2>2. Released(lease[t], ActingAs(t, c)) \in Lease
    BY <2>1, ReleasedLease
  <2>3. QED BY <1>12, <2>1, <2>2, TouchType DEF Finish, TaskStatus
<1>13. ASSUME NEW t \in Task, NEW outcome \in {"released", "abandoned"},
              RecoverLease(t, outcome)
       PROVE  TypeOK'
  <2>1. Ended(lease[t], outcome) \in Lease
    BY EndedLease DEF LeaseStatus
  <2>2. QED BY <1>13, <2>1, TouchType DEF RecoverLease
<1>14. CASE Tick
  <2>1. lease' \in [Task -> Lease]
    BY <1>14, TickedLease DEF Tick
  <2>2. onlineFor' \in [Worker -> Nat]
    BY <1>14, DownType DEF Tick
  <2>3. silence' \in [Worker -> 0..LeaseTicks]
    BY <1>14, Parameters DEF Tick
  <2>4. QED BY <1>14, <2>1, <2>2, <2>3 DEF Tick
<1>15. CASE UNCHANGED vars
  BY <1>15 DEF vars
<1>16. QED BY <1>1, <1>2, <1>3, <1>4, <1>5, <1>6, <1>7, <1>8, <1>9, <1>10, <1>11,
              <1>12, <1>13, <1>14, <1>15 DEF Next

\* The handlers store nothing but well-formed tasks, leases and workers.
THEOREM TypeCorrect == Spec => []TypeOK
BY TypeInit, TypeStep, PTL DEF Spec

-----------------------------------------------------------------------------
(* The inductive invariant, task by task. *)

\* What IInv says of one task, apart from its types.
TaskInv(t) ==
  /\ ~IsActive(lease[t]) => lease[t].ttl = 0
  /\ lease[t].status # "none" => lease[t].holder \in Worker
  /\ lease[t].status = "none" => lease[t].attempt = 0
  /\ status[t] = "claimed" =>
       /\ lease[t].status # "none"
       /\ assigned[t] = lease[t].holder
       /\ claim[t] = lease[t].holder
  /\ status[t] = "running" /\ IsActive(lease[t]) => assigned[t] \in {lease[t].holder, None}
  /\ status[t] = "queued" => lease[t].attempt < requeues[t] + MaxAttempts
  /\ lease[t].attempt <= requeues[t] + MaxAttempts
  /\ IsActive(lease[t]) /\ assigned[t] = lease[t].holder =>
       lease[t].ttl + silence[lease[t].holder] <= LeaseTicks

\* IInv is TaskInv of every task.
LEMMA IInvByTask == IInv <=> TypeOK /\ \A t \in Task : TaskInv(t)
BY DEF IInv, TaskInv, LeaseShape, HolderAgrees, QueuedHasAttempt, NoSilentRetry,
       LeaseTracksContact

\* The same in the next state.
LEMMA IInvByTaskPrime == IInv' <=> TypeOK' /\ \A t \in Task : TaskInv(t)'
BY DEF IInv, TaskInv, LeaseShape, HolderAgrees, QueuedHasAttempt, NoSilentRetry,
       LeaseTracksContact

\* The step leaves task u alone.
Same(u) ==
  /\ status'[u] = status[u] /\ assigned'[u] = assigned[u] /\ claim'[u] = claim[u]
  /\ lease'[u] = lease[u] /\ requeues'[u] = requeues[u]

\* A step that prolongs nobody's silence has to keep TaskInv only for the tasks it
\* changes.
LEMMA ChangedTasks ==
  ASSUME IInv, TypeOK', \A w \in Worker : silence'[w] <= silence[w],
         \A u \in Task : Same(u) \/ TaskInv(u)'
  PROVE  IInv'
<1>1. ASSUME NEW u \in Task, Same(u)
      PROVE  TaskInv(u)'
  <2>1. TaskInv(u) /\ TypeOK
    BY IInvByTask
  <2>2. CASE IsActive(lease[u]) /\ assigned[u] = lease[u].holder
    <3>1. lease[u].holder \in Worker
      BY <2>1, <2>2 DEF TaskInv
    <3>2. /\ silence'[lease[u].holder] <= silence[lease[u].holder]
          /\ silence[lease[u].holder] \in Int
          /\ silence'[lease[u].holder] \in Int
          /\ lease[u].ttl \in Int
      BY <2>1, <3>1 DEF TypeOK, Lease
    <3>3. lease[u].ttl + silence'[lease[u].holder] <= LeaseTicks
      BY <2>1, <2>2, <3>2, Parameters DEF TaskInv
    <3>4. QED BY <1>1, <2>1, <3>3 DEF TaskInv, Same
  <2>3. CASE ~(IsActive(lease[u]) /\ assigned[u] = lease[u].holder)
    BY <1>1, <2>1, <2>3 DEF TaskInv, Same
  <2>4. QED BY <2>2, <2>3
<1>2. QED BY <1>1, IInvByTaskPrime

\* Hearing from a worker or from nobody prolongs nobody's silence.
LEMMA HeardFromFalls ==
  ASSUME TypeOK, NEW c \in Caller, HeardFrom(c)
  PROVE  /\ \A w \in Worker : silence'[w] <= silence[w]
         /\ c # None => silence'[c] = 0
BY Parameters DEF HeardFrom, Caller, TypeOK

\* The invariant holds of the empty queue.
LEMMA IInvInit == Init => IInv
<1> SUFFICES ASSUME Init
             PROVE  IInv
  OBVIOUS
<1>1. ASSUME NEW t \in Task
      PROVE  TaskInv(t)
  BY Parameters DEF Init, TaskInv, NoLease
<1>2. QED BY <1>1, TypeInit, IInvByTask

\* Every handler, and the passing of time, preserves the invariant.
LEMMA IInvStep == IInv /\ [Next]_vars => IInv'
<1> SUFFICES ASSUME IInv, [Next]_vars
             PROVE  IInv'
  OBVIOUS
<1> USE DEF taskVars, workerVars
<1>a. TypeOK /\ TypeOK' /\ \A t \in Task : TaskInv(t)
  BY TypeStep, IInvByTask
<1>b. \A u \in Task : lease[u] \in Lease /\ lease[u].attempt \in Nat /\ requeues[u] \in Nat
  BY <1>a DEF TypeOK, Lease
<1>1. ASSUME UNCHANGED <<status, assigned, claim, lease, requeues, silence>>
      PROVE  IInv'
  BY <1>a, <1>1, ChangedTasks DEF Same, TypeOK
<1>2. ASSUME NEW w \in Worker, NEW skew \in Skews, Heartbeat(w, skew)
      PROVE  IInv'
  <2>1. /\ \A v \in Worker : silence'[v] <= silence[v]
        /\ silence'[w] = 0
    BY <1>a, <1>2, HeardFromFalls, NoneIsNobody DEF Heartbeat, Caller
  <2>2. ASSUME NEW t \in HeldBy(w),
               lease' = [lease EXCEPT ![t] = Refreshed(lease[t], w)]
        PROVE  IInv'
    <3>1. t \in Task /\ assigned[t] = w /\ status[t] \in {"claimed", "running"}
          /\ IsActive(lease[t])
      BY DEF HeldBy
    <3>2. lease[t].holder = w
      BY <1>a, <3>1, NoneIsNobody DEF TaskInv
    <3>3. /\ lease'[t].status = "active" /\ lease'[t].holder = w
          /\ lease'[t].attempt = lease[t].attempt /\ lease'[t].ttl = LeaseTicks
      BY <1>a, <1>b, <2>2, <3>1, <3>2, RefreshedLease DEF TypeOK, Caller
    <3>4. TaskInv(t)'
      BY <1>a, <1>2, <2>1, <3>1, <3>2, <3>3, Parameters DEF TaskInv, Heartbeat
    <3>5. \A u \in Task \ {t} : Same(u)
      BY <1>a, <1>2, <2>2, <3>1 DEF Heartbeat, Same, TypeOK
    <3>6. QED BY <1>a, <2>1, <3>4, <3>5, ChangedTasks
  <2>3. CASE lease' = lease
    BY <1>a, <1>2, <2>1, <2>3, ChangedTasks DEF Same, Heartbeat
  <2>4. QED BY <1>2, <2>2, <2>3 DEF Heartbeat, RefreshWorkerActiveLease
<1>3. ASSUME NEW t \in Task, CreateTask(t)
      PROVE  IInv'
  <2>1. TaskInv(t)'
    BY <1>a, <1>3, Parameters DEF CreateTask, TaskInv, TypeOK, NoLease
  <2>2. \A u \in Task \ {t} : Same(u)
    BY <1>a, <1>3 DEF CreateTask, Same, TypeOK
  <2>3. \A w \in Worker : silence'[w] <= silence[w]
    BY <1>a, <1>3 DEF CreateTask, TypeOK
  <2>4. QED BY <1>a, <2>1, <2>2, <2>3, ChangedTasks
<1>4. ASSUME NEW t \in Task, Requeue(t)
      PROVE  IInv'
  <2>1. TaskInv(t)'
    BY <1>a, <1>b, <1>4, NoneIsNobody, Parameters DEF Requeue, TaskInv, TypeOK
  <2>2. \A u \in Task \ {t} : Same(u)
    BY <1>a, <1>4 DEF Requeue, Same, TypeOK
  <2>3. \A w \in Worker : silence'[w] <= silence[w]
    BY <1>a, <1>4 DEF Requeue, TypeOK
  <2>4. QED BY <1>a, <2>1, <2>2, <2>3, ChangedTasks
<1>5. ASSUME NEW t \in Task, RequeueSafe(t)
      PROVE  IInv'
  <2>1. /\ lease'[t].status = "released" /\ lease'[t].ttl = 0
        /\ lease'[t].holder = lease[t].holder /\ lease'[t].attempt = lease[t].attempt
    <3>1. lease'[t] = Ended(lease[t], "released")
      BY <1>a, <1>5 DEF RequeueSafe, TypeOK
    <3>2. lease[t] \in Lease /\ "released" \in LeaseStatus
      BY <1>b DEF LeaseStatus
    <3>3. QED BY <3>1, <3>2, EndedLease
  <2>2. TaskInv(t)'
    BY <1>a, <1>b, <1>5, <2>1, Parameters DEF RequeueSafe, TaskInv, TypeOK
  <2>3. \A u \in Task \ {t} : Same(u)
    BY <1>a, <1>5 DEF RequeueSafe, Same, TypeOK
  <2>4. \A w \in Worker : silence'[w] <= silence[w]
    BY <1>a, <1>5 DEF RequeueSafe, TypeOK
  <2>5. QED BY <1>a, <2>2, <2>3, <2>4, ChangedTasks
<1>6. ASSUME NEW t \in Task, NEW w \in Worker, ClaimGrant(t, w)
      PROVE  IInv'
  <2>1. /\ \A v \in Worker : silence'[v] <= silence[v]
        /\ silence'[w] = 0
    BY <1>a, <1>6, HeardFromFalls, NoneIsNobody DEF ClaimGrant, Caller
  <2>2. /\ lease'[t].status = "active" /\ lease'[t].holder = w
        /\ lease'[t].ttl = LeaseTicks /\ lease'[t].attempt = lease[t].attempt + 1
    BY <1>a, <1>6, BuiltLease DEF ClaimGrant, TypeOK
  <2>3. lease[t].attempt + 1 <= requeues[t] + MaxAttempts
    BY <1>a, <1>b, <1>6, Parameters DEF ClaimGrant, Claimable, TaskInv
  <2>4. TaskInv(t)'
    BY <1>a, <1>6, <2>1, <2>2, <2>3, Parameters DEF ClaimGrant, TaskInv, TypeOK
  <2>5. \A u \in Task \ {t} : Same(u)
    BY <1>a, <1>6 DEF ClaimGrant, Same, TypeOK
  <2>6. QED BY <1>a, <2>1, <2>4, <2>5, ChangedTasks
<1>7. ASSUME NEW t \in Task, NEW c \in Caller, IsExpired(lease[t]),
             lease' = [lease EXCEPT ![t] = MarkedExpired(@)], HeardFrom(c),
             UNCHANGED <<status, assigned, claim, requeues>>
      PROVE  IInv'
  <2>1. \A w \in Worker : silence'[w] <= silence[w]
    BY <1>a, <1>7, HeardFromFalls
  <2>2. /\ lease'[t].status = "expired" /\ lease'[t].ttl = 0
        /\ lease'[t].holder = lease[t].holder /\ lease'[t].attempt = lease[t].attempt
    BY <1>a, <1>b, <1>7, MarkedExpiredLease DEF TypeOK
  <2>3. TaskInv(t)'
    BY <1>a, <1>7, <2>2 DEF TaskInv
  <2>4. \A u \in Task \ {t} : Same(u)
    BY <1>a, <1>7 DEF Same, TypeOK
  <2>5. QED BY <1>a, <2>1, <2>3, <2>4, ChangedTasks
<1>8. ASSUME NEW t \in Task, NEW c \in Caller, StartRun(t, c)
      PROVE  IInv'
  <2> DEFINE a == ActingAs(t, c)
  <2>1. a \in Caller
    BY <1>a, ActingAsType DEF TypeOK
  <2>2. /\ \A w \in Worker : silence'[w] <= silence[w]
        /\ a # None => silence'[a] = 0
    BY <1>a, <1>8, <2>1, HeardFromFalls DEF StartRun
  <2>3. /\ lease'[t].status = lease[t].status /\ lease'[t].holder = lease[t].holder
        /\ lease'[t].attempt = lease[t].attempt
        /\ lease'[t].ttl = IF IsActive(lease[t]) /\ (a = None \/ lease[t].holder = a)
                           THEN LeaseTicks ELSE lease[t].ttl
    <3>1. lease'[t] = Refreshed(lease[t], a)
      BY <1>a, <1>8 DEF StartRun, TypeOK
    <3>2. lease[t] \in Lease
      BY <1>b
    <3> HIDE DEF a
    <3>3. QED BY <2>1, <3>1, <3>2, RefreshedLease
  <2>4. status'[t] = "running" /\ assigned'[t] = a /\ requeues'[t] = requeues[t]
    BY <1>a, <1>8 DEF StartRun, TypeOK
  <2>5. IsActive(lease[t]) => /\ lease[t].holder \in Worker
                              /\ a # None => lease[t].holder = a
    BY <1>a, <1>8 DEF StartRun, MayStart, TaskInv
  <2>6. TaskInv(t)'
    <3>1. (IsActive(lease[t]) /\ assigned[t] = lease[t].holder =>
            lease[t].ttl + silence[lease[t].holder] <= LeaseTicks)'
      BY <2>2, <2>3, <2>4, <2>5, NoneIsNobody, Parameters
    <3>2. QED BY <1>a, <1>8, <2>3, <2>4, <2>5, <3>1 DEF TaskInv
  <2>7. \A u \in Task \ {t} : Same(u)
    BY <1>a, <1>8 DEF StartRun, Same, TypeOK
  <2>8. QED BY <1>a, <2>2, <2>6, <2>7, ChangedTasks
<1>9. ASSUME NEW t \in Task, NEW c \in Caller,
             NEW outcome \in {"completed", "failed", "blocked"}, Finish(t, c, outcome)
      PROVE  IInv'
  <2> DEFINE a == ActingAs(t, c)
  <2>1. a \in Caller
    BY <1>a, ActingAsType DEF TypeOK
  <2>2. /\ lease'[t].holder = lease[t].holder /\ lease'[t].attempt = lease[t].attempt
        /\ lease'[t].status =
             IF lease[t].status # "none" /\ (a = None \/ lease[t].holder = a)
             THEN "released" ELSE lease[t].status
        /\ lease'[t].ttl = IF lease[t].status # "none" /\ (a = None \/ lease[t].holder = a)
                           THEN 0 ELSE lease[t].ttl
    <3>1. lease'[t] = Released(lease[t], a)
      BY <1>a, <1>9 DEF Finish, TypeOK
    <3>2. lease[t] \in Lease
      BY <1>b
    <3> HIDE DEF a
    <3>3. QED BY <2>1, <3>1, <3>2, ReleasedLease
  <2>3. /\ status'[t] \notin {"queued", "claimed", "running"}
        /\ assigned'[t] = a /\ requeues'[t] = requeues[t]
    BY <1>a, <1>9 DEF Finish, TypeOK
  <2>4. TaskInv(t)'
    BY <1>a, <2>2, <2>3 DEF TaskInv
  <2>5. \A u \in Task \ {t} : Same(u)
    BY <1>a, <1>9 DEF Finish, Same, TypeOK
  <2>6. \A w \in Worker : silence'[w] <= silence[w]
    BY <1>a, <1>9 DEF Finish, TypeOK
  <2>7. QED BY <1>a, <2>4, <2>5, <2>6, ChangedTasks
<1>10. ASSUME NEW t \in Task, NEW outcome \in {"released", "abandoned"},
              RecoverLease(t, outcome)
       PROVE  IInv'
  <2>1. /\ lease'[t].status = outcome /\ lease'[t].ttl = 0
        /\ lease'[t].holder = lease[t].holder /\ lease'[t].attempt = lease[t].attempt
    <3>1. lease'[t] = Ended(lease[t], outcome)
      BY <1>a, <1>10 DEF RecoverLease, TypeOK
    <3>2. lease[t] \in Lease /\ outcome \in LeaseStatus
      BY <1>b DEF LeaseStatus
    <3>3. QED BY <3>1, <3>2, EndedLease
  <2>2. TaskInv(t)'
    BY <1>a, <1>10, <2>1 DEF RecoverLease, TaskInv
  <2>3. \A u \in Task \ {t} : Same(u)
    BY <1>a, <1>10 DEF RecoverLease, Same, TypeOK
  <2>4. \A w \in Worker : silence'[w] <= silence[w]
    BY <1>a, <1>10 DEF RecoverLease, TypeOK
  <2>5. QED BY <1>a, <2>2, <2>3, <2>4, ChangedTasks
<1>11. CASE Tick
  <2>1. ASSUME NEW t \in Task
        PROVE  TaskInv(t)'
    <3>1. /\ lease'[t].status = lease[t].status /\ lease'[t].holder = lease[t].holder
          /\ lease'[t].attempt = lease[t].attempt /\ lease'[t].ttl = Down(lease[t].ttl)
      BY <1>b, <1>11, TickedLease DEF Tick
    <3>2. lease[t].ttl \in Nat /\ lease[t].ttl <= LeaseTicks
      BY <1>b, Parameters DEF Lease
    <3>3. /\ Down(lease[t].ttl) \in Nat
          /\ lease[t].ttl > 0 => Down(lease[t].ttl) = lease[t].ttl - 1
          /\ lease[t].ttl = 0 => Down(lease[t].ttl) = 0
      BY <3>2, DownType
    <3>4. ASSUME NEW w \in Worker
          PROVE  /\ silence[w] \in Nat /\ silence'[w] \in Nat
                 /\ silence'[w] <= silence[w] + 1
                 /\ silence'[w] <= LeaseTicks
      BY <1>a, <1>11, Parameters DEF Tick, TypeOK
    <3>5. (IsActive(lease[t]) /\ assigned[t] = lease[t].holder =>
            lease[t].ttl + silence[lease[t].holder] <= LeaseTicks)'
      <4>1. SUFFICES ASSUME IsActive(lease[t]), assigned[t] = lease[t].holder
                     PROVE  Down(lease[t].ttl) + silence'[lease[t].holder] <= LeaseTicks
        BY <1>11, <3>1 DEF Tick
      <4>2. /\ lease[t].holder \in Worker
            /\ lease[t].ttl + silence[lease[t].holder] <= LeaseTicks
        BY <1>a, <4>1 DEF TaskInv
      <4>3. QED BY <3>2, <3>3, <3>4, <4>2, Parameters
    <3>6. QED BY <1>a, <1>11, <3>1, <3>3, <3>5 DEF Tick, TaskInv
  <2>2. QED BY <1>a, <2>1, IInvByTaskPrime
<1>12. ASSUME NEW w \in Worker, NEW enabled \in BOOLEAN,
              Register(w, enabled) \/ PatchWorker(w, enabled)
       PROVE  IInv'
  BY <1>1, <1>12 DEF Register, PatchWorker
<1>13. ASSUME NEW g \in Goal, PatchGoal(g)
       PROVE  IInv'
  BY <1>1, <1>13 DEF PatchGoal
<1>14. ASSUME NEW t \in Task, RepairEvidence(t) \/ HygieneMetadata(t)
       PROVE  IInv'
  BY <1>1, <1>14 DEF RepairEvidence, HygieneMetadata
<1>15. ASSUME NEW t \in Task, NEW w \in Worker, ClaimMarksExpired(t, w)
       PROVE  IInv'
  BY <1>7, <1>15 DEF ClaimMarksExpired, Caller
<1>16. ASSUME NEW t \in Task, NEW c \in Caller, StartMarksExpired(t, c)
       PROVE  IInv'
  <2>1. ActingAs(t, c) \in Caller
    BY <1>a, ActingAsType DEF TypeOK
  <2>2. QED BY <1>7, <1>16, <2>1 DEF StartMarksExpired
<1>17. CASE UNCHANGED vars
  BY <1>1, <1>17 DEF vars
<1>18. QED BY <1>2, <1>3, <1>4, <1>5, <1>6, <1>8, <1>9, <1>10, <1>11, <1>12, <1>13,
              <1>14, <1>15, <1>16, <1>17 DEF Next

\* IInv holds in every reachable state.
THEOREM Invariance == Spec => []IInv
BY IInvInit, IInvStep, PTL DEF Spec

\* A task is never granted more often than MaxAttempts plus the operator's requeues.
THEOREM NoSilentRetryHolds == Spec => []NoSilentRetry
<1>1. IInv => NoSilentRetry
  BY DEF IInv
<1>2. QED BY <1>1, Invariance, PTL

\* The task record and its lease never name two workers.
THEOREM HolderAgreesHolds == Spec => []HolderAgrees
<1>1. IInv => HolderAgrees
  BY DEF IInv
<1>2. QED BY <1>1, Invariance, PTL

\* A silent worker's lease shrinks with its silence.
THEOREM LeaseTracksContactHolds == Spec => []LeaseTracksContact
<1>1. IInv => LeaseTracksContact
  BY DEF IInv
<1>2. QED BY <1>1, Invariance, PTL

-----------------------------------------------------------------------------
(* Steps. *)

\* What a step may do to the lease of t: leave it in the same hands and not revive it,
\* replace one that is not active by that of a new attempt, or end it.
LeaseStep(t) ==
  \/ /\ lease'[t].holder = lease[t].holder
     /\ IsActive(lease'[t]) => IsActive(lease[t])
  \/ ~IsActive(lease[t]) /\ lease'[t].attempt # lease[t].attempt
  \/ ~IsActive(lease'[t])

\* No handler does anything else to a lease.
LEMMA LeaseSteps ==
  ASSUME IInv, [Next]_vars, NEW u \in Task
  PROVE  LeaseStep(u)
<1> USE DEF taskVars, workerVars
<1>a. TypeOK /\ lease[u] \in Lease /\ lease[u].attempt \in Nat
  BY IInvByTask DEF TypeOK, Lease
<1>1. CASE lease'[u] = lease[u]
  BY <1>1 DEF LeaseStep
<1>2. ASSUME NEW w \in Worker, NEW skew \in Skews, Heartbeat(w, skew)
      PROVE  LeaseStep(u)
  <2>1. ASSUME NEW t \in HeldBy(w),
               lease' = [lease EXCEPT ![t] = Refreshed(lease[t], w)]
        PROVE  LeaseStep(u)
    <3>1. lease'[u] \in {lease[u], Refreshed(lease[u], w)}
      BY <1>a, <2>1 DEF TypeOK
    <3>2. QED BY <1>a, <1>1, <3>1, RefreshedLease DEF LeaseStep, Caller
  <2>2. QED BY <1>1, <1>2, <2>1 DEF Heartbeat, RefreshWorkerActiveLease
<1>3. ASSUME NEW t \in Task, CreateTask(t)
      PROVE  LeaseStep(u)
  <2>1. lease'[u] \in {lease[u], NoLease}
    BY <1>a, <1>3 DEF CreateTask, TypeOK
  <2>2. QED BY <1>1, <2>1 DEF LeaseStep, NoLease
<1>4. ASSUME NEW t \in Task, RequeueSafe(t)
      PROVE  LeaseStep(u)
  <2>1. lease'[u] \in {lease[u], Ended(lease[u], "released")}
    BY <1>a, <1>4 DEF RequeueSafe, TypeOK
  <2>2. "released" \in LeaseStatus
    BY DEF LeaseStatus
  <2>3. QED BY <1>a, <1>1, <2>1, <2>2, EndedLease DEF LeaseStep
<1>5. ASSUME NEW t \in Task, NEW w \in Worker, ClaimGrant(t, w)
      PROVE  LeaseStep(u)
  <2>1. CASE u = t
    BY <1>a, <1>5, <2>1, BuiltLease DEF ClaimGrant, Claimable, TypeOK, LeaseStep
  <2>2. CASE u # t
    BY <1>a, <1>1, <1>5, <2>2 DEF ClaimGrant, TypeOK
  <2>3. QED BY <2>1, <2>2
<1>6. ASSUME NEW t \in Task, lease' = [lease EXCEPT ![t] = MarkedExpired(@)]
      PROVE  LeaseStep(u)
  <2>1. lease'[u] \in {lease[u], MarkedExpired(lease[u])}
    BY <1>a, <1>6 DEF TypeOK
  <2>2. QED BY <1>a, <1>1, <2>1, MarkedExpiredLease DEF LeaseStep
<1>7. ASSUME NEW t \in Task, NEW c \in Caller, StartRun(t, c)
      PROVE  LeaseStep(u)
  <2>1. ActingAs(t, c) \in Caller
    BY <1>a, ActingAsType DEF TypeOK
  <2>2. lease'[u] = lease[u] \/ lease'[u] = Refreshed(lease[u], ActingAs(t, c))
    BY <1>a, <1>7 DEF StartRun, TypeOK
  <2>3. QED BY <1>a, <1>1, <2>1, <2>2, RefreshedLease DEF LeaseStep
<1>8. ASSUME NEW t \in Task, NEW c \in Caller,
             NEW outcome \in {"completed", "failed", "blocked"}, Finish(t, c, outcome)
      PROVE  LeaseStep(u)
  <2>1. ActingAs(t, c) \in Caller
    BY <1>a, ActingAsType DEF TypeOK
  <2>2. lease'[u] = lease[u] \/ lease'[u] = Released(lease[u], ActingAs(t, c))
    BY <1>a, <1>8 DEF Finish, TypeOK
  <2>3. QED BY <1>a, <1>1, <2>1, <2>2, ReleasedLease DEF LeaseStep
<1>9. ASSUME NEW t \in Task, NEW outcome \in {"released", "abandoned"},
             RecoverLease(t, outcome)
      PROVE  LeaseStep(u)
  <2>1. lease'[u] \in {lease[u], Ended(lease[u], outcome)}
    BY <1>a, <1>9 DEF RecoverLease, TypeOK
  <2>2. outcome \in LeaseStatus
    BY DEF LeaseStatus
  <2>3. QED BY <1>a, <1>1, <2>1, <2>2, EndedLease DEF LeaseStep
<1>10. CASE Tick
  BY <1>a, <1>10, TickedLease DEF Tick, LeaseStep
<1>11. CASE UNCHANGED lease
  BY <1>1, <1>11
<1>12. QED
  BY <1>2, <1>3, <1>4, <1>5, <1>6, <1>7, <1>8, <1>9, <1>10, <1>11
     DEF Next, vars, Register, PatchWorker, PatchGoal, RepairEvidence, HygieneMetadata,
         Requeue, ClaimMarksExpired, StartMarksExpired

\* A lease that was released, marked expired or abandoned is never active again.
THEOREM EndedLeaseStaysEndedHolds == Spec => EndedLeaseStaysEnded
<1>1. IInv /\ [Next]_vars =>
        [\A t \in Task :
           /\ lease[t].status \in {"released", "expired", "abandoned"}
           /\ lease'[t].attempt = lease[t].attempt
           => ~IsActive(lease'[t])]_vars
  BY LeaseSteps DEF LeaseStep
<1>2. QED BY <1>1, Invariance, PTL DEF Spec, EndedLeaseStaysEnded

\* A completed task stays completed until its task_id is created anew.
THEOREM CompletedIsFinalHolds == Spec => CompletedIsFinal
<1>1. ASSUME IInv, [Next]_vars, NEW u \in Task, status[u] = "completed",
             status'[u] # "completed"
      PROVE  status'[u] = "queued" /\ lease'[u] = NoLease
  <2>1. TypeOK
    BY <1>1, IInvByTask
  <2>2. PICK t \in Task : CreateTask(t)
    BY <1>1, <2>1
       DEF Next, vars, taskVars, workerVars, TypeOK, Register, PatchWorker, Heartbeat,
           PatchGoal, RepairEvidence, HygieneMetadata, Requeue, RequeueSafe, ClaimGrant,
           Claimable, ClaimAdmitted, ClaimMarksExpired, StartRun, MayStart, Startable,
           StartMarksExpired, Finish, Finishable, RecoverLease, Tick
  <2>3. QED BY <1>1, <2>1, <2>2 DEF CreateTask, TypeOK
<1>2. IInv /\ [Next]_vars =>
        [\A t \in Task :
           status[t] = "completed" /\ status'[t] # "completed"
           => status'[t] = "queued" /\ lease'[t] = NoLease]_vars
  BY <1>1
<1>3. QED BY <1>2, Invariance, PTL DEF Spec, CompletedIsFinal

\* TaskLease implements LeaseAuthority: the authority to execute a task passes from one
\* worker to another only through a state in which nobody has it.
THEOREM Refinement == Spec => AuthorityRefined
<1>1. Init => Abstract!Init
  BY DEF Init, Abstract!Init, Authority, NoLease, IsLive
<1>2. IInv /\ [Next]_vars => [Abstract!Next]_Authority
  <2> SUFFICES ASSUME IInv, [Next]_vars
               PROVE  Abstract!Next
    OBVIOUS
  <2>1. TypeOK'
    BY TypeStep, IInvByTask
  <2>2. Authority' \in [Task -> Worker \cup {None}]
    <3>1. \A t \in Task : lease'[t].holder \in Worker \cup {None}
      BY <2>1 DEF TypeOK, Lease
    <3>2. QED BY <3>1 DEF Authority
  <2>3. ASSUME NEW t \in Task
        PROVE  \/ Authority'[t] = Authority[t]
               \/ Authority[t] = None
               \/ Authority'[t] = None
    BY LeaseSteps DEF LeaseStep, Authority, IsLive
  <2>4. QED BY <2>2, <2>3 DEF Abstract!Next
<1>3. QED BY <1>1, <1>2, Invariance, PTL DEF Spec, AuthorityRefined, Abstract!Spec

\* Every step keeps the lease of a worker that keeps in touch at its full term less the
\* worker's silence, when there is a single task.
LEMMA KeepaliveStep ==
  ASSUME IInv, KeepaliveHoldsLease, [Next]_vars
  PROVE  KeepaliveHoldsLease'
<1> SUFFICES ASSUME NEW t \in Task, Task = {t}, status'[t] \in {"claimed", "running"},
                    IsActive(lease'[t]), assigned'[t] = lease'[t].holder
             PROVE  lease'[t].ttl + silence'[lease'[t].holder] = LeaseTicks
  BY DEF KeepaliveHoldsLease
<1> DEFINE h == lease[t].holder
<1>0. /\ TypeOK /\ lease[t] \in Lease /\ LeaseTicks \in Nat \ {0}
      /\ IsActive(lease[t]) => h \in Worker
      /\ status[t] \in {"claimed", "running"} /\ IsActive(lease[t]) /\ assigned[t] = h
           => lease[t].ttl + silence[h] = LeaseTicks
  BY Parameters DEF IInv, TypeOK, LeaseShape, KeepaliveHoldsLease
<1>1. CASE UNCHANGED <<status, lease, assigned, silence>>
  BY <1>0, <1>1
<1>2. ASSUME NEW w \in Worker, NEW skew \in Skews, Heartbeat(w, skew)
      PROVE  lease'[t].ttl + silence'[lease'[t].holder] = LeaseTicks
  <2>1. UNCHANGED <<status, assigned>> /\ silence' = [silence EXCEPT ![w] = 0]
    BY <1>2, NoneIsNobody DEF Heartbeat, HeardFrom
  <2>2. CASE HeldBy(w) = {} /\ UNCHANGED lease
    <3>1. h # w
      BY <2>1, <2>2 DEF HeldBy
    <3> QED
      BY <1>0, <2>1, <2>2, <3>1 DEF TypeOK
  <2>3. CASE t \in HeldBy(w) /\ lease' = [lease EXCEPT ![t] = Refreshed(lease[t], w)]
    <3>1. assigned[t] = w /\ IsActive(lease[t]) /\ lease'[t] = Refreshed(lease[t], w)
      BY <2>3 DEF HeldBy, IInv, TypeOK
    <3>2. lease'[t].holder = w /\ h = w
      BY <1>0, <2>1, <3>1, RefreshedLease DEF Caller
    <3>3. lease'[t].ttl = LeaseTicks
      BY <1>0, <3>1, <3>2, RefreshedLease DEF Caller
    <3> QED
      BY <1>0, <2>1, <3>2, <3>3 DEF TypeOK
  <2> QED
    BY <1>2, <2>2, <2>3 DEF Heartbeat, RefreshWorkerActiveLease, HeldBy
<1>3. ASSUME NEW w \in Worker, ClaimGrant(t, w)
      PROVE  lease'[t].ttl + silence'[lease'[t].holder] = LeaseTicks
  <2>1. lease'[t].ttl = LeaseTicks /\ lease'[t].holder = w
    BY <1>0, <1>3, BuiltLease DEF ClaimGrant, TypeOK
  <2>2. silence'[w] = 0
    BY <1>0, <1>3, NoneIsNobody DEF ClaimGrant, HeardFrom, TypeOK
  <2> QED
    BY <1>0, <2>1, <2>2
<1>4. ASSUME NEW c \in Caller, StartRun(t, c)
      PROVE  lease'[t].ttl + silence'[lease'[t].holder] = LeaseTicks
  <2> DEFINE a == ActingAs(t, c)
  <2>1. a \in Caller
    BY <1>0, ActingAsType DEF TypeOK
  <2>2. lease'[t] = Refreshed(lease[t], a) /\ assigned'[t] = a /\ HeardFrom(a)
    BY <1>0, <1>4 DEF StartRun, TypeOK
  <2> HIDE DEF a
  <2>3. IsActive(lease[t]) /\ lease'[t].holder = h /\ a = h
    BY <1>0, <2>1, <2>2, RefreshedLease
  <2>4. lease'[t].ttl = LeaseTicks
    BY <1>0, <2>1, <2>2, <2>3, RefreshedLease
  <2>5. silence'[h] = 0
    BY <1>0, <2>2, <2>3, NoneIsNobody DEF HeardFrom, TypeOK
  <2> QED
    BY <1>0, <2>3, <2>4, <2>5
<1>5. CASE Tick
  <2>1. /\ lease'[t] = [lease[t] EXCEPT !.ttl = Down(@)]
        /\ UNCHANGED <<status, assigned>>
    BY <1>5 DEF Tick
  <2>2. lease'[t].ttl = Down(lease[t].ttl) /\ lease'[t].holder = h /\ IsActive(lease[t])
    BY <1>0, <2>1, TickedLease
  <2>3. h \in Worker /\ lease[t].ttl + silence[h] = LeaseTicks
    BY <1>0, <2>1, <2>2
  <2>4. silence'[h] = IF silence[h] < LeaseTicks THEN silence[h] + 1 ELSE LeaseTicks
    BY <1>5, <2>3 DEF Tick
  <2>5. lease[t].ttl \in 0..LeaseTicks /\ silence[h] \in 0..LeaseTicks
    BY <1>0, <2>3 DEF TypeOK, Lease
  <2> QED
    BY <1>0, <2>2, <2>3, <2>4, <2>5 DEF Down
<1>6. ASSUME \/ CreateTask(t) \/ Requeue(t) \/ RequeueSafe(t)
             \/ \E c \in Caller, outcome \in {"completed", "failed", "blocked"} :
                  Finish(t, c, outcome)
      PROVE  FALSE
  BY <1>0, <1>6 DEF CreateTask, Requeue, RequeueSafe, Finish, TypeOK
<1>7. ASSUME \/ \E w \in Worker : ClaimMarksExpired(t, w)
             \/ \E c \in Caller : StartMarksExpired(t, c)
      PROVE  FALSE
  BY <1>0, <1>7, MarkedExpiredLease DEF ClaimMarksExpired, StartMarksExpired, TypeOK
<1>8. ASSUME NEW outcome \in {"released", "abandoned"}, RecoverLease(t, outcome)
      PROVE  FALSE
  <2>1. outcome \in LeaseStatus
    BY DEF LeaseStatus
  <2> QED
    BY <1>0, <1>8, <2>1, EndedLease DEF RecoverLease, TypeOK
<1>9. CASE \E u \in Task :
        \/ CreateTask(u) \/ RepairEvidence(u) \/ HygieneMetadata(u)
        \/ Requeue(u) \/ RequeueSafe(u)
        \/ \E w \in Worker : ClaimGrant(u, w) \/ ClaimMarksExpired(u, w)
        \/ \E c \in Caller : StartRun(u, c) \/ StartMarksExpired(u, c)
        \/ \E c \in Caller, outcome \in {"completed", "failed", "blocked"} :
             Finish(u, c, outcome)
        \/ \E outcome \in {"released", "abandoned"} : RecoverLease(u, outcome)
  <2>1. CASE RepairEvidence(t) \/ HygieneMetadata(t)
    BY <1>1, <2>1 DEF RepairEvidence, HygieneMetadata
  <2> QED
    BY <1>3, <1>4, <1>6, <1>7, <1>8, <1>9, <2>1
<1>10. CASE \/ UNCHANGED vars
            \/ \E w \in Worker, enabled \in BOOLEAN :
                 Register(w, enabled) \/ PatchWorker(w, enabled)
            \/ \E g \in Goal : PatchGoal(g)
  BY <1>1, <1>10 DEF Register, PatchWorker, PatchGoal, vars, taskVars
<1> QED
  BY <1>2, <1>5, <1>9, <1>10 DEF Next

\* For every length of a lease and whatever other callers do: with a single task, a
\* worker that keeps calling keeps its lease.
THEOREM KeepaliveHoldsLeaseHolds == Spec => []KeepaliveHoldsLease
<1>1. Init => KeepaliveHoldsLease
  BY DEF Init, KeepaliveHoldsLease
<1>2. IInv /\ KeepaliveHoldsLease /\ [Next]_vars => KeepaliveHoldsLease'
  BY KeepaliveStep
<1>3. QED BY Invariance, <1>1, <1>2, PTL DEF Spec

-----------------------------------------------------------------------------
(* What prolongs a lease. *)

\* A heartbeat of w prolongs the lease of u: the first of w's tasks.
BeatFor(u) ==
  \E w \in Worker : u \in HeldBy(w) /\ \A t \in HeldBy(w) : order[u] <= order[t]

\* Only a claim, a start, and a heartbeat of the worker whose first task it is, give a
\* lease more time or make it active.
LEMMA ProlongedBy ==
  ASSUME TypeOK, [Next]_vars, NEW u \in Task
  PROVE  \/ /\ lease'[u].ttl <= lease[u].ttl
            /\ IsActive(lease'[u]) => IsActive(lease[u])
         \/ \E w \in Worker : ClaimGrant(u, w)
         \/ \E c \in Caller : StartRun(u, c)
         \/ BeatFor(u)
<1> DEFINE Worn == /\ lease'[u].ttl <= lease[u].ttl
                   /\ IsActive(lease'[u]) => IsActive(lease[u])
<1>a. lease \in [Task -> Lease] /\ lease[u] \in Lease /\ lease[u].ttl \in Nat
  BY Parameters DEF TypeOK, Lease
<1>1. lease'[u] = lease[u] => Worn
  BY <1>a
<1>2. ~IsActive(lease'[u]) /\ lease'[u].ttl \in {0, lease[u].ttl} => Worn
  BY <1>a
<1>3. ASSUME NEW w \in Worker, NEW skew \in Skews, Heartbeat(w, skew)
      PROVE  Worn \/ BeatFor(u)
  <2>1. CASE lease' = lease
    BY <1>1, <2>1
  <2>2. ASSUME NEW t \in HeldBy(w), \A v \in HeldBy(w) : order[t] <= order[v],
               lease' = [lease EXCEPT ![t] = Refreshed(lease[t], w)]
        PROVE  Worn \/ BeatFor(u)
    BY <1>a, <1>1, <2>2 DEF BeatFor
  <2>3. QED BY <1>3, <2>1, <2>2 DEF Heartbeat, RefreshWorkerActiveLease
<1>4. ASSUME NEW t \in Task, CreateTask(t) \/ RequeueSafe(t)
      PROVE  Worn
  <2>1. lease'[u] \in {lease[u], NoLease, Ended(lease[u], "released")}
    BY <1>a, <1>4 DEF CreateTask, RequeueSafe
  <2>2. "released" \in LeaseStatus
    BY DEF LeaseStatus
  <2>3. QED BY <1>a, <1>1, <1>2, <2>1, <2>2, EndedLease DEF NoLease, IsActive
<1>5. ASSUME NEW t \in Task, lease' = [lease EXCEPT ![t] = MarkedExpired(@)]
      PROVE  Worn
  <2>1. lease'[u] = lease[u] \/ lease'[u] = MarkedExpired(lease[u])
    BY <1>a, <1>5
  <2>2. QED BY <1>a, <1>1, <1>2, <2>1, MarkedExpiredLease DEF IsActive
<1>6. ASSUME NEW t \in Task, NEW w \in Worker, ClaimGrant(t, w)
      PROVE  Worn \/ ClaimGrant(u, w)
  <2>1. t = u \/ lease'[u] = lease[u]
    BY <1>a, <1>6 DEF ClaimGrant
  <2>2. QED BY <1>1, <1>6, <2>1
<1>7. ASSUME NEW t \in Task, NEW c \in Caller, StartRun(t, c)
      PROVE  Worn \/ StartRun(u, c)
  <2>1. t = u \/ lease'[u] = lease[u]
    BY <1>a, <1>7 DEF StartRun
  <2>2. QED BY <1>1, <1>7, <2>1
<1>8. ASSUME NEW t \in Task, NEW c \in Caller,
             NEW outcome \in {"completed", "failed", "blocked"}, Finish(t, c, outcome)
      PROVE  Worn
  <2>1. lease'[u] = lease[u] \/ lease'[u] = Ended(lease[u], "released")
    BY <1>a, <1>8 DEF Finish, Released
  <2>2. "released" \in LeaseStatus
    BY DEF LeaseStatus
  <2>3. QED BY <1>a, <1>1, <1>2, <2>1, <2>2, EndedLease DEF IsActive
<1>9. ASSUME NEW t \in Task, NEW outcome \in {"released", "abandoned"},
             RecoverLease(t, outcome)
      PROVE  Worn
  <2>1. lease'[u] = lease[u] \/ lease'[u] = Ended(lease[u], outcome)
    BY <1>a, <1>9 DEF RecoverLease
  <2>2. outcome \in LeaseStatus
    BY DEF LeaseStatus
  <2>3. QED BY <1>a, <1>1, <1>2, <1>9, <2>1, <2>2, EndedLease DEF IsActive
<1>10. CASE Tick
  BY <1>a, <1>10, TickedLease DEF Tick, Down, IsActive, Lease
<1>11. CASE UNCHANGED lease
  BY <1>1, <1>11
<1>12. QED
  BY <1>3, <1>4, <1>5, <1>6, <1>7, <1>8, <1>9, <1>10, <1>11
     DEF Next, vars, taskVars, Register, PatchWorker, PatchGoal, RepairEvidence, HygieneMetadata,
         Requeue, ClaimMarksExpired, StartMarksExpired

\* A requeued task comes free by itself, whatever the worker that had it still sends.
THEOREM QueuedComesFreeHolds == Spec => QueuedComesFree
<1>1. ASSUME TypeOK, [Next]_vars, NEW t \in Task, status[t] = "queued", status'[t] = "queued"
      PROVE  /\ IsActive(lease'[t]) => IsActive(lease[t]) /\ lease'[t].ttl <= lease[t].ttl
             /\ Tick => lease'[t].ttl = Down(lease[t].ttl)
  <2>1. ~BeatFor(t)
    BY <1>1 DEF BeatFor, HeldBy
  <2>2. ~\E w \in Worker : ClaimGrant(t, w)
    BY <1>1 DEF ClaimGrant, TypeOK
  <2>3. ~\E c \in Caller : StartRun(t, c)
    BY <1>1 DEF StartRun, TypeOK
  <2>4. Tick => lease'[t].ttl = Down(lease[t].ttl)
    BY <1>1 DEF Tick, TypeOK, Lease
  <2>5. QED BY <1>1, <2>1, <2>2, <2>3, <2>4, ProlongedBy
<1>2. TypeOK /\ [Next]_vars =>
        [\A t \in Task :
           status[t] = "queued" /\ status'[t] = "queued" =>
             /\ IsActive(lease'[t]) => IsActive(lease[t]) /\ lease'[t].ttl <= lease[t].ttl
             /\ Tick => lease'[t].ttl = Down(lease[t].ttl)]_vars
  BY <1>1
<1>3. QED BY <1>2, TypeCorrect, PTL DEF Spec, QueuedComesFree

\* Of several tasks a worker keeps only the one in front alive, however often it sends
\* heartbeats: the others' leases run out.
THEOREM OnlyFrontIsKeptHolds == Spec => OnlyFrontIsKept
<1>1. ASSUME TypeOK, [Next]_vars, NEW w \in Worker, NEW t \in HeldBy(w), NEW u \in HeldBy(w),
             order[t] < order[u], order'[t] < order'[u]
      PROVE  lease'[u].ttl <= lease[u].ttl
  <2>1. /\ t \in Task /\ u \in Task /\ assigned[u] = w /\ IsActive(lease[u])
        /\ order[t] \in Nat /\ order[u] \in Nat
    BY <1>1 DEF HeldBy, TypeOK
  <2>2. ~BeatFor(u)
    BY <1>1, <2>1 DEF BeatFor, HeldBy
  <2>3. ~\E v \in Worker : ClaimGrant(u, v)
    BY <2>1 DEF ClaimGrant, Claimable
  <2>4. ~\E c \in Caller : StartRun(u, c)
    BY <1>1, <2>1 DEF StartRun, Touch
  <2>5. QED BY <1>1, <2>1, <2>2, <2>3, <2>4, ProlongedBy
<1>2. TypeOK /\ [Next]_vars =>
        [\A w \in Worker : \A t, u \in HeldBy(w) :
           order[t] < order[u] /\ order'[t] < order'[u] => lease'[u].ttl <= lease[u].ttl]_vars
  BY <1>1
<1>3. QED BY <1>2, TypeCorrect, PTL DEF Spec, OnlyFrontIsKept
=============================================================================
