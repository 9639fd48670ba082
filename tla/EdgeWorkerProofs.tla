-------------------------- MODULE EdgeWorkerProofs --------------------------
(***************************************************************************)
(* Proofs about EdgeWorker, for every set of tasks and every finite set of *)
(* workers that share a worktree.  First that the system implements        *)
(* TaskLease, which makes the theorems of TaskLeaseProofs hold of it; then *)
(* that its lock file is never left behind by a living process, and that   *)
(* every run of Codex has an attempt of its own.  The last is bounded by   *)
(* NoSilentRetry of TaskLease: this is how a promise of the workers comes  *)
(* to rest on one of the server.  At the end what is true of three         *)
(* statements that do not hold of the code in general: one execution per   *)
(* worktree, a dead worker's lease runs down, and one holder per task.     *)
(***************************************************************************)
EXTENDS EdgeWorker, TaskLeaseProofs

-----------------------------------------------------------------------------
(* The loops by themselves: what holds whatever the server does. *)

LoopInv == EdgeTypeOK /\ LoopShape /\ LockNotLeaked

\* The processes have not started.
LEMMA LoopInvInit == EdgeInit => LoopInv
BY NoneIsNobody, LoopParameters
   DEF EdgeInit, LoopInv, EdgeTypeOK, LoopShape, LockNotLeaked, Unlocked, Step, OnTask

\* A step of one loop only has to leave that loop in order, and in the lock file what was
\* there, a lock of its own, or nobody's.
LEMMA OneLoop ==
  ASSUME LoopInv, NEW w \in Worker, NEW a \in Step, NEW d \in Task \cup {None},
         NEW o \in Outcome \cup {"none"}, NEW k \in BOOLEAN, NEW h \in BOOLEAN,
         at' = [at EXCEPT ![w] = a], doing' = [doing EXCEPT ![w] = d],
         outcome' = [outcome EXCEPT ![w] = o], keepalive' = [keepalive EXCEPT ![w] = k],
         hasLock' = [hasLock EXCEPT ![w] = h], tries' \in [Worker -> Tries],
         a \in OnTask => d \in Task, a = "reporting" => o \in Outcome, h => a \in UnderLock,
         repoLock' \in [task : Task \cup {None}, by : Worker \cup {None}],
         repoLock' = repoLock \/ repoLock'.by \in {w, None},
         repoLock'.by = w => h /\ repoLock'.task = d,
         late' \subseteq Call, runs' \in [Task -> Nat]
  PROVE  LoopInv'
<1>1. EdgeTypeOK'
  BY DEF LoopInv, EdgeTypeOK, Tries
<1>2. LoopShape'
  BY DEF LoopInv, EdgeTypeOK, LoopShape
<1>3. LockNotLeaked'
  BY NoneIsNobody DEF LoopInv, EdgeTypeOK, LockNotLeaked
<1>4. QED BY <1>1, <1>2, <1>3 DEF LoopInv

\* So does a step after which the loop still knows what it knew.
LEMMA SameKnowledge ==
  ASSUME LoopInv, NEW w \in Worker, NEW a \in Step,
         at' = [at EXCEPT ![w] = a], UNCHANGED <<doing, outcome, hasLock, repoLock>>,
         keepalive' \in [Worker -> BOOLEAN], tries' \in [Worker -> Tries],
         a \in OnTask => doing[w] \in Task, a = "reporting" => outcome[w] \in Outcome,
         hasLock[w] => a \in UnderLock,
         late' \subseteq Call, runs' \in [Task -> Nat]
  PROVE  LoopInv'
<1>1. EdgeTypeOK'
  BY DEF LoopInv, EdgeTypeOK, Tries
<1>2. LoopShape'
  BY DEF LoopInv, EdgeTypeOK, LoopShape
<1>3. LockNotLeaked'
  BY DEF LoopInv, LockNotLeaked
<1>4. QED BY <1>1, <1>2, <1>3 DEF LoopInv

\* No step of a loop, of the server or of the operator breaks the loops' invariant.
LEMMA LoopInvStep == LoopInv /\ [EdgeNext]_allVars => LoopInv'
<1> SUFFICES ASSUME LoopInv, [EdgeNext]_allVars
             PROVE  LoopInv'
  OBVIOUS
<1>0. 0 \in 0..MaxTransportRetries
  BY LoopParameters
<1> USE NoneIsNobody, <1>0
    DEF LoopInv, EdgeTypeOK, LoopShape, LockNotLeaked, Unlocked, Step, OnTask, UnderLock,
        Outcome, Go, Keep, Decide, Leave, Tries
<1>1. ASSUME NEW w \in Worker, RegisterSelf(w) \/ BeatBeforePoll(w) \/ PollThrows(w)
      PROVE  LoopInv'
  <2>1. at' = [at EXCEPT ![w] = at'[w]] /\ at'[w] \in Step \ OnTask
    BY <1>1 DEF RegisterSelf, BeatBeforePoll, PollThrows
  <2>2. at[w] \notin OnTask /\ UNCHANGED <<doing, outcome, tries, keepalive, hasLock, repoLock, late, runs>>
    BY <1>1 DEF RegisterSelf, BeatBeforePoll, PollThrows
  <2>3. QED BY <2>1, <2>2
<1>2. ASSUME NEW w \in Worker, Poll(w)
      PROVE  LoopInv'
  BY <1>2 DEF Poll
<1>3. ASSUME NEW w \in Worker, NEW kind \in Outcome \cup {"claim", "start"},
             Throws(CallOf(w, kind)) \/ Succeeds(CallOf(w, kind)), at[w] \in OnTask
      PROVE  late' \subseteq Call
  <2>1. CallOf(w, kind) \in Call
    BY <1>3 DEF CallOf, Call
  <2>2. late' \subseteq late \cup {CallOf(w, kind)}
    BY <1>3 DEF Throws, Succeeds
  <2>3. QED BY <2>1, <2>2
<1>4. ASSUME NEW w \in Worker, ClaimTask(w)
      PROVE  LoopInv'
  <2>1. late' \subseteq Call
    BY <1>3, <1>4 DEF ClaimTask
  <2>2. CASE Go(w, "guarding") /\ Keep
    BY <1>4, <2>1, <2>2 DEF ClaimTask
  <2>3. CASE Leave(w, "idle")
    BY <1>4, <2>1, <2>3, OneLoop DEF ClaimTask
  <2>4. QED BY <1>4, <2>2, <2>3 DEF ClaimTask
<1>5. ASSUME NEW w \in Worker, Guard(w) \/ ReadLock(w) \/ MoveStaleLock(w)
      PROVE  LoopInv'
  BY <1>5 DEF Guard, ReadLock, MoveStaleLock, MayBeStale
<1>6. ASSUME NEW w \in Worker, WriteLock(w)
      PROVE  LoopInv'
  BY <1>6 DEF WriteLock
<1>7. ASSUME NEW w \in Worker, StartTask(w)
      PROVE  LoopInv'
  <2>1. late' \subseteq Call
    BY <1>3, <1>7 DEF StartTask
  <2>2. QED BY <1>7, <2>1 DEF StartTask
<1>8. ASSUME NEW w \in Worker, BeginRun(w) \/ RetryRun(w) \/ EndRun(w)
      PROVE  LoopInv'
  <2>1. CASE BeginRun(w)
    <3>1. runs' \in [Task -> Nat] /\ late' = late /\ repoLock' = repoLock
      BY <2>1 DEF BeginRun
    <3>2. CASE Go(w, "executing")
      <4>1. /\ UNCHANGED <<doing, outcome, hasLock>>
            /\ keepalive' = [keepalive EXCEPT ![w] = TRUE]
            /\ tries' = [tries EXCEPT ![w] = 0]
            /\ at[w] \in OnTask
        BY <2>1, <3>2 DEF BeginRun
      <4>a. /\ keepalive' \in [Worker -> BOOLEAN] /\ tries' \in [Worker -> Tries]
            /\ doing[w] \in Task
        BY <4>1
      <4>2. late' \subseteq Call /\ at' = [at EXCEPT ![w] = "executing"]
        BY <3>1, <3>2
      <4>3. "executing" \in Step /\ "executing" \in UnderLock
        OBVIOUS
      <4> HIDE DEF LoopInv, Step, OnTask, UnderLock, Outcome, Tries
      <4>4. QED BY <3>1, <4>1, <4>a, <4>2, <4>3, SameKnowledge
    <3>3. CASE Decide(w, "failed", "failing")
      BY <2>1, <3>1, <3>3 DEF BeginRun
    <3>4. QED BY <2>1, <3>2, <3>3 DEF BeginRun
  <2>2. CASE EndRun(w)
    BY <2>2 DEF EndRun
  <2>3. CASE RetryRun(w)
    <3>1. tries[w] + 1 \in 0..MaxTransportRetries
      BY <2>3, LoopParameters DEF RetryRun
    <3>2. QED BY <2>3, <3>1 DEF RetryRun
  <2>4. QED BY <1>8, <2>1, <2>2, <2>3
<1>9. ASSUME NEW w \in Worker, Report(w)
      PROVE  LoopInv'
  <2>1. late' \subseteq Call
    BY <1>3, <1>9 DEF Report
  <2>2. QED BY <1>9, <2>1 DEF Report
<1>10. ASSUME NEW w \in Worker, FailTask(w)
       PROVE  LoopInv'
  <2>1. late' \subseteq Call
    BY <1>3, <1>10 DEF FailTask
  <2>2. QED BY <1>10, <2>1 DEF FailTask
<1>11. ASSUME NEW w \in Worker, Clean(w) \/ ReadOwnLock(w) \/ RemoveLock(w)
       PROVE  LoopInv'
  <2>1. CASE Clean(w)
    <3>1. CASE hasLock[w]
      <4>1. /\ at' = [at EXCEPT ![w] = "unlocking"]
            /\ keepalive' \in [Worker -> BOOLEAN]
            /\ UNCHANGED <<doing, outcome, tries, hasLock, repoLock, late, runs>>
            /\ doing[w] \in Task
        BY <2>1, <3>1 DEF Clean
      <4>2. late' \subseteq Call /\ runs' \in [Task -> Nat] /\ tries' \in [Worker -> Tries]
        BY <4>1
      <4>3. "unlocking" \in Step /\ "unlocking" \in UnderLock
        OBVIOUS
      <4> HIDE DEF LoopInv, Step, OnTask, UnderLock, Outcome, Tries
      <4>4. QED BY <4>1, <4>2, <4>3, SameKnowledge
    <3>2. CASE ~hasLock[w]
      <4>1. repoLock.by # w
        BY <3>2
      <4>2. /\ at' = [at EXCEPT ![w] = "idle"] /\ doing' = [doing EXCEPT ![w] = None]
            /\ outcome' = [outcome EXCEPT ![w] = "none"]
            /\ keepalive' = [keepalive EXCEPT ![w] = FALSE]
            /\ hasLock' = [hasLock EXCEPT ![w] = FALSE]
            /\ tries' \in [Worker -> Tries]
            /\ UNCHANGED <<repoLock, late, runs>>
        BY <2>1, <3>2 DEF Clean
      <4>3. /\ repoLock' \in [task : Task \cup {None}, by : Worker \cup {None}]
            /\ repoLock' = repoLock /\ late' \subseteq Call /\ runs' \in [Task -> Nat]
        BY <4>2
      <4>4. "idle" \in Step /\ "idle" \notin OnTask
        OBVIOUS
      <4> HIDE DEF LoopInv, Step, OnTask, UnderLock, Outcome, Tries
      <4>5. QED BY <4>1, <4>2, <4>3, <4>4, OneLoop
    <3> HIDE DEF LoopInv
    <3>3. QED BY <3>1, <3>2
  <2>2. CASE ReadOwnLock(w)
    <3>1. CASE Go(w, "removing") /\ Keep
      BY <2>2, <3>1 DEF ReadOwnLock
    <3>2. CASE repoLock # [task |-> doing[w], by |-> w] /\ Leave(w, "idle")
      <4>1. repoLock.by # w
        BY <3>2
      <4>2. QED BY <2>2, <3>2, <4>1, OneLoop DEF ReadOwnLock
    <3>3. QED BY <2>2, <3>1, <3>2 DEF ReadOwnLock
  <2>3. CASE RemoveLock(w)
    BY <2>3, OneLoop DEF RemoveLock
  <2> HIDE DEF LoopInv
  <2>4. QED BY <1>11, <2>1, <2>2, <2>3
<1>12. ASSUME NEW w \in Worker, StartLoop(w) \/ EndLoop(w) \/ Keepalive(w)
       PROVE  LoopInv'
  BY <1>12 DEF StartLoop, EndLoop, Keepalive, edgeVars, loopVars
<1>13. ASSUME NEW w \in Worker, Crash(w)
       PROVE  LoopInv'
  BY <1>13 DEF Crash
<1>14. ASSUME NEW c \in late, ServeLate(c)
       PROVE  LoopInv'
  BY <1>14 DEF ServeLate, loopVars
<1>15. CASE Operate \/ Pass \/ UNCHANGED allVars
  BY <1>15 DEF Operate, Pass, allVars, edgeVars, loopVars
<1>16. QED
  BY <1>1, <1>2, <1>4, <1>5, <1>6, <1>7, <1>8, <1>9, <1>10, <1>11, <1>12, <1>13, <1>14,
     <1>15 DEF EdgeNext, Advance

\* The loops' invariant holds in every reachable state.
THEOREM LoopInvariance == EdgeSpec => []LoopInv
BY LoopInvInit, LoopInvStep, PTL DEF EdgeSpec

\* The loops keep their variables well-typed.
THEOREM EdgeTypeCorrect == EdgeSpec => []EdgeTypeOK
<1>1. LoopInv => EdgeTypeOK
  BY DEF LoopInv
<1>2. QED BY <1>1, LoopInvariance, PTL

\* A lock file with a live pid belongs to a process that is going to remove it.
THEOREM LockNotLeakedHolds == EdgeSpec => []LockNotLeaked
<1>1. LoopInv => LockNotLeaked
  BY DEF LoopInv
<1>2. QED BY <1>1, LoopInvariance, PTL

-----------------------------------------------------------------------------
(* What the system asks of the server. *)

\* What a call of worker w about task t can do when the server serves it.
Served(t, w) ==
  \/ ClaimGrant(t, w) \/ ClaimMarksExpired(t, w)
  \/ StartRun(t, w) \/ StartMarksExpired(t, w)
  \/ \E what \in Outcome : Finish(t, w, what)

\* What the server does in a step of the system: everything TaskLease allows, except
\* that nobody creates a task twice.
ServerStep ==
  \/ \E w \in Worker : \/ \E enabled \in BOOLEAN : Register(w, enabled) \/ PatchWorker(w, enabled)
                       \/ Heartbeat(w, 0)
  \/ \E t \in Task : \/ status[t] = "absent" /\ CreateTask(t)
                     \/ Requeue(t) \/ RequeueSafe(t)
                     \/ \E how \in {"released", "abandoned"} : RecoverLease(t, how)
                     \/ \E w \in Worker : Served(t, w)
  \/ Tick
  \/ UNCHANGED vars

\* A call served or refused is a step of the server.
LEMMA CallIsServed ==
  ASSUME NEW c \in Call, Granted(c) \/ Refused(c)
  PROVE  Served(c.task, c.by) \/ UNCHANGED vars
<1>1. CASE Granted(c)
  BY <1>1 DEF Granted, Served
<1>2. CASE Refused(c)
  BY <1>2 DEF Refused, Served
<1>3. QED BY <1>1, <1>2

\* Every step of the system is one of the server, or none.
LEMMA ServerSteps ==
  ASSUME LoopInv, [EdgeNext]_allVars
  PROVE  ServerStep
<1>1. ASSUME NEW w \in Worker, NEW kind \in Outcome \cup {"claim", "start"},
             Throws(CallOf(w, kind)) \/ Succeeds(CallOf(w, kind)), at[w] \in OnTask
      PROVE  ServerStep
  <2>1. CallOf(w, kind) \in Call /\ CallOf(w, kind).by = w /\ CallOf(w, kind).task = doing[w]
        /\ doing[w] \in Task
    BY <1>1 DEF CallOf, Call, LoopInv, LoopShape
  <2>2. Granted(CallOf(w, kind)) \/ Refused(CallOf(w, kind)) \/ UNCHANGED vars
    BY <1>1 DEF Throws, Succeeds
  <2>3. QED BY <2>1, <2>2, CallIsServed DEF ServerStep
<1>2. ASSUME NEW w \in Worker,
             ClaimTask(w) \/ StartTask(w) \/ Report(w) \/ FailTask(w)
      PROVE  ServerStep
  <2>1. at[w] \in OnTask
    BY <1>2 DEF ClaimTask, StartTask, Report, FailTask, OnTask, Step
  <2>2. \E kind \in Outcome \cup {"claim", "start"} :
          Throws(CallOf(w, kind)) \/ Succeeds(CallOf(w, kind))
    BY <1>2 DEF ClaimTask, StartTask, Report, FailTask, LoopInv, LoopShape, Outcome
  <2>3. QED BY <1>1, <2>1, <2>2
<1>3. ASSUME NEW w \in Worker,
             RegisterSelf(w) \/ BeatBeforePoll(w) \/ BeginRun(w) \/ Clean(w) \/ Keepalive(w)
      PROVE  ServerStep
  BY <1>3 DEF RegisterSelf, BeatBeforePoll, BeginRun, Clean, Keepalive, ServerStep
<1>4. ASSUME NEW w \in Worker,
             \/ PollThrows(w) \/ Poll(w) \/ Guard(w) \/ ReadLock(w) \/ MoveStaleLock(w)
             \/ WriteLock(w) \/ RetryRun(w) \/ EndRun(w) \/ ReadOwnLock(w) \/ RemoveLock(w)
             \/ StartLoop(w) \/ EndLoop(w) \/ Crash(w)
      PROVE  UNCHANGED vars
  BY <1>4 DEF PollThrows, Poll, Guard, ReadLock, MoveStaleLock, WriteLock, RetryRun, EndRun,
              ReadOwnLock, RemoveLock, StartLoop, EndLoop, Crash
<1>5. ASSUME NEW c \in late, ServeLate(c)
      PROVE  ServerStep
  <2>1. c \in Call
    BY DEF LoopInv, EdgeTypeOK
  <2>2. c.task \in Task /\ c.by \in Worker
    BY <2>1 DEF Call
  <2>3. QED BY <1>5, <2>1, <2>2, CallIsServed DEF ServeLate, ServerStep
<1>6. CASE Operate \/ Pass
  BY <1>6 DEF Operate, Pass, ServerStep
<1>7. CASE UNCHANGED allVars
  BY <1>7 DEF allVars, ServerStep
<1>8. QED BY <1>2, <1>3, <1>4, <1>5, <1>6, <1>7 DEF EdgeNext, Advance, ServerStep

\* The system implements TaskLease.
THEOREM ServerRefinedHolds == EdgeSpec => ServerRefined
<1>1. EdgeInit => Init
  BY DEF EdgeInit
<1>2. ServerStep => [Next]_vars
  BY ClocksMayAgree DEF ServerStep, Served, Next, Caller, Outcome
<1>3. LoopInv /\ [EdgeNext]_allVars => [Next]_vars
  BY <1>2, ServerSteps
<1>4. QED BY <1>1, <1>3, LoopInvariance, PTL DEF EdgeSpec, ServerRefined, Spec

-----------------------------------------------------------------------------
(* Runs and attempts. *)

\* No attempt is taken back, and a task that has never been created has none.
LEMMA AttemptsGrow ==
  ASSUME TypeOK, ServerStep, NEW u \in Task, status[u] = "absent" => lease[u].attempt = 0
  PROVE  /\ lease[u].attempt \in Nat /\ lease'[u].attempt \in Nat
         /\ lease'[u].attempt >= lease[u].attempt
         /\ status'[u] = "absent" => lease'[u].attempt = 0
<1> DEFINE Kept == /\ lease'[u].attempt = lease[u].attempt
                   /\ status'[u] = "absent" => status[u] = "absent"
<1> DEFINE Grown == /\ lease[u].attempt \in Nat /\ lease'[u].attempt \in Nat
                    /\ lease'[u].attempt >= lease[u].attempt
                    /\ status'[u] = "absent" => lease'[u].attempt = 0
<1> USE DEF taskVars, workerVars
<1>a. lease[u] \in Lease /\ lease[u].attempt \in Nat
  BY DEF TypeOK, Lease
<1>1. ASSUME Kept
      PROVE  Grown
  BY <1>a, <1>1
<1>2. ASSUME NEW w \in Worker, Heartbeat(w, 0)
      PROVE  Kept
  <2>1. lease'[u] \in {lease[u], Refreshed(lease[u], w)}
    BY <1>2 DEF Heartbeat, RefreshWorkerActiveLease, TypeOK
  <2>2. QED BY <1>a, <1>2, <2>1, RefreshedLease DEF Heartbeat, Caller
<1>3. ASSUME NEW t \in Task, status[t] = "absent", CreateTask(t)
      PROVE  Kept
  BY <1>3 DEF CreateTask, TypeOK, NoLease
<1>4. ASSUME NEW t \in Task, RequeueSafe(t)
      PROVE  Kept
  <2>1. lease'[u] \in {lease[u], Ended(lease[u], "released")}
    BY <1>4 DEF RequeueSafe, TypeOK
  <2>2. "released" \in LeaseStatus
    BY DEF LeaseStatus
  <2>3. QED BY <1>a, <1>4, <2>1, <2>2, EndedLease DEF RequeueSafe, TypeOK
<1>5. ASSUME NEW t \in Task, NEW how \in {"released", "abandoned"}, RecoverLease(t, how)
      PROVE  Kept
  <2>1. lease'[u] \in {lease[u], Ended(lease[u], how)}
    BY <1>5 DEF RecoverLease, TypeOK
  <2>2. how \in LeaseStatus
    BY DEF LeaseStatus
  <2>3. QED BY <1>a, <1>5, <2>1, <2>2, EndedLease DEF RecoverLease
<1>6. ASSUME NEW t \in Task, NEW w \in Worker, ClaimGrant(t, w)
      PROVE  Grown
  <2>1. CASE u = t
    BY <1>a, <1>6, <2>1, BuiltLease DEF ClaimGrant, TypeOK
  <2>2. CASE u # t
    BY <1>a, <1>1, <1>6, <2>2 DEF ClaimGrant, TypeOK
  <2>3. QED BY <2>1, <2>2
<1>7. ASSUME NEW t \in Task, lease' = [lease EXCEPT ![t] = MarkedExpired(@)], status' = status
      PROVE  Kept
  <2>1. lease'[u] \in {lease[u], MarkedExpired(lease[u])}
    BY <1>7 DEF TypeOK
  <2>2. QED BY <1>a, <1>7, <2>1, MarkedExpiredLease
<1>8. ASSUME NEW t \in Task, NEW w \in Worker, StartRun(t, w)
      PROVE  Kept
  <2>1. ActingAs(t, w) \in Caller
    BY ActingAsType DEF TypeOK, Caller
  <2>2. lease'[u] = lease[u] \/ lease'[u] = Refreshed(lease[u], ActingAs(t, w))
    BY <1>8 DEF StartRun, TypeOK
  <2>3. QED BY <1>a, <1>8, <2>1, <2>2, RefreshedLease DEF StartRun, TypeOK
<1>9. ASSUME NEW t \in Task, NEW w \in Worker, NEW what \in Outcome, Finish(t, w, what)
      PROVE  Kept
  <2>1. ActingAs(t, w) \in Caller
    BY ActingAsType DEF TypeOK, Caller
  <2>2. lease'[u] = lease[u] \/ lease'[u] = Released(lease[u], ActingAs(t, w))
    BY <1>9 DEF Finish, TypeOK
  <2>3. status'[u] = status[u] \/ status'[u] = what
    BY <1>9 DEF Finish, TypeOK
  <2>4. what # "absent"
    BY DEF Outcome
  <2>5. lease'[u].attempt = lease[u].attempt
    <3> HIDE DEF Kept, Grown
    <3>1. QED BY <1>a, <2>1, <2>2, ReleasedLease
  <2>6. QED BY <2>3, <2>4, <2>5
<1>10. ASSUME NEW t \in Task, Requeue(t)
       PROVE  Kept
  BY <1>10 DEF Requeue, TypeOK
<1>11. ASSUME Tick
       PROVE  Kept
  BY <1>a, <1>11, TickedLease DEF Tick
<1>12. ASSUME UNCHANGED <<status, lease>>
       PROVE  Kept
  BY <1>12
<1>13. Grown
  <2> HIDE DEF Kept, Grown
  <2>1. ASSUME NEW t \in Task, NEW w \in Worker, Served(t, w)
        PROVE  Grown
    BY <1>1, <1>6, <1>7, <1>8, <1>9, <2>1 DEF Served, ClaimMarksExpired, StartMarksExpired
  <2>2. ASSUME NEW w \in Worker, NEW enabled \in BOOLEAN,
               Register(w, enabled) \/ PatchWorker(w, enabled)
        PROVE  UNCHANGED <<status, lease>>
    BY <2>2 DEF Register, PatchWorker
  <2>3. UNCHANGED vars => UNCHANGED <<status, lease>>
    BY DEF vars
  <2>4. QED BY <1>1, <1>2, <1>3, <1>4, <1>5, <1>10, <1>11, <1>12, <2>1, <2>2, <2>3
               DEF ServerStep
<1>14. QED BY <1>13

\* The executions to come are finitely many: MaxTransportRetries + 1 of each worker at most.
LEMMA TriesFinite ==
  ASSUME NEW w \in Worker
  PROVE  /\ IsFiniteSet(Worker \X Tries)
         /\ IsFiniteSet({w} \X Tries) /\ Cardinality({w} \X Tries) = MaxTransportRetries + 1
<1>1. IsFiniteSet(Tries) /\ Cardinality(Tries) = MaxTransportRetries + 1
  BY LoopParameters, FS_Interval DEF Tries
<1>2. IsFiniteSet({w}) /\ Cardinality({w}) = 1
  BY FS_Singleton
<1>3. Cardinality({w} \X Tries) = 1 * (MaxTransportRetries + 1)
  BY <1>1, <1>2, FS_Product
<1>4. QED BY <1>1, <1>2, <1>3, FiniteWorkers, LoopParameters, FS_Product

LEMMA PendingFinite ==
  ASSUME NEW t \in Task
  PROVE  /\ IsFiniteSet(Pending(t)) /\ IsFiniteSet(Pending(t)')
         /\ Cardinality(Pending(t)) \in Nat /\ Cardinality(Pending(t)') \in Nat
<1>1. Pending(t) \subseteq Worker \X Tries /\ Pending(t)' \subseteq Worker \X Tries
  BY DEF Pending
<1>2. IsFiniteSet(Worker \X Tries)
  <2>1. IsFiniteSet(Tries)
    BY LoopParameters, FS_Interval DEF Tries
  <2>2. QED BY <2>1, FiniteWorkers, FS_Product
<1>3. QED BY <1>1, <1>2, FS_Subset, FS_CardinalityType

\* What the attempts pay for, one attempt more, and more attempts.
LEMMA PaidFor ==
  ASSUME NEW a \in Nat
  PROVE  /\ (MaxTransportRetries + 1) * a \in Nat
         /\ (MaxTransportRetries + 1) * (a + 1)
              = (MaxTransportRetries + 1) * a + (MaxTransportRetries + 1)
         /\ \A b \in Nat : a <= b =>
              (MaxTransportRetries + 1) * a <= (MaxTransportRetries + 1) * b
<1>1. ASSUME NEW k \in Nat, NEW b \in Nat, NEW d \in Nat
      PROVE  k * (b + d) = k * b + k * d /\ k * b \in Nat /\ k * d >= 0
  OBVIOUS
<1>2. MaxTransportRetries + 1 \in Nat
  BY LoopParameters
<1>3. ASSUME NEW b \in Nat, a <= b
      PROVE  (MaxTransportRetries + 1) * a <= (MaxTransportRetries + 1) * b
  <2>1. b = a + (b - a) /\ b - a \in Nat
    BY <1>3
  <2>2. (MaxTransportRetries + 1) * (a + (b - a))
          = (MaxTransportRetries + 1) * a + (MaxTransportRetries + 1) * (b - a)
        /\ (MaxTransportRetries + 1) * a \in Nat /\ (MaxTransportRetries + 1) * (b - a) \in Nat
    BY <1>1, <1>2, <2>1
  <2>3. QED BY <2>1, <2>2
<1>4. QED BY <1>1, <1>2, <1>3

\* Nobody comes to stand before an execution except out of a claim.
NoNewPending ==
  \A w \in Worker :
    /\ at'[w] \in BeforeRun => at[w] \in BeforeRun /\ doing'[w] = doing[w]
    /\ at'[w] = "executing" =>
         at[w] = "executing" /\ doing'[w] = doing[w] /\ tries'[w] = tries[w]

\* What a step of worker w does to w alone.
OnlyLoop(w) ==
  \A v \in Worker \ {w} : at'[v] = at[v] /\ doing'[v] = doing[v] /\ tries'[v] = tries[v]

\* Worker w begins the execution of its task that is number n of its turn.
Executes(w, n) ==
  /\ OnlyLoop(w)
  /\ at'[w] = "executing" /\ doing'[w] = doing[w] /\ tries'[w] = n
  /\ (at[w] = "started" /\ n = 0) \/ (at[w] = "executing" /\ n = tries[w] + 1)
  /\ runs' = [runs EXCEPT ![doing[w]] = @ + 1]

\* Only a granted claim puts a process before an execution.
LEMMA PendingSteps ==
  ASSUME LoopInv, [EdgeNext]_allVars
  PROVE  \/ NoNewPending /\ UNCHANGED runs
         \/ \E w \in Worker :
              /\ OnlyLoop(w)
              /\ at[w] = "claiming" /\ doing'[w] = doing[w] /\ at'[w] # "executing"
              /\ ClaimGrant(doing[w], w)
              /\ UNCHANGED runs
         \/ \E w \in Worker, n \in Tries : Executes(w, n)
<1>0. EdgeTypeOK
  BY DEF LoopInv
<1> USE DEF Go, Keep, Decide, Leave, BeforeRun, NoNewPending
<1>1. ASSUME NEW w \in Worker, ClaimTask(w)
      PROVE  \/ NoNewPending /\ UNCHANGED runs
             \/ /\ OnlyLoop(w)
                /\ at[w] = "claiming" /\ doing'[w] = doing[w] /\ at'[w] # "executing"
                /\ ClaimGrant(doing[w], w)
                /\ UNCHANGED runs
  <2>1. CASE Succeeds(CallOf(w, "claim")) /\ Go(w, "guarding") /\ Keep
    <3>1. ClaimGrant(doing[w], w)
      BY <2>1 DEF Succeeds, Granted, CallOf, Outcome
    <3>2. QED BY <1>0, <1>1, <2>1, <3>1 DEF ClaimTask, OnlyLoop, EdgeTypeOK
  <2>2. CASE Leave(w, "idle")
    BY <1>0, <1>1, <2>2 DEF ClaimTask, EdgeTypeOK
  <2>3. QED BY <1>1, <2>1, <2>2 DEF ClaimTask
<1>2. ASSUME NEW w \in Worker, BeginRun(w) \/ RetryRun(w)
      PROVE  \/ NoNewPending /\ UNCHANGED runs
             \/ \E n \in Tries : Executes(w, n)
  <2>1. CASE BeginRun(w) /\ Go(w, "executing")
    <3>1. Executes(w, 0)
      BY <1>0, <2>1 DEF BeginRun, Executes, OnlyLoop, EdgeTypeOK
    <3>2. QED BY <3>1, LoopParameters DEF Tries
  <2>2. CASE BeginRun(w) /\ Decide(w, "failed", "failing")
    BY <1>0, <2>2 DEF BeginRun, EdgeTypeOK
  <2>3. CASE RetryRun(w)
    <3>1. tries[w] + 1 \in Tries
      BY <1>0, <2>3, LoopParameters DEF RetryRun, EdgeTypeOK, Tries
    <3>2. Executes(w, tries[w] + 1)
      BY <1>0, <2>3 DEF RetryRun, Executes, OnlyLoop, EdgeTypeOK
    <3>3. QED BY <3>1, <3>2
  <2>4. QED BY <1>2, <2>1, <2>2, <2>3 DEF BeginRun
<1>3. ASSUME NEW w \in Worker, RegisterSelf(w) \/ BeatBeforePoll(w) \/ PollThrows(w) \/ Poll(w)
      PROVE  NoNewPending /\ UNCHANGED runs
  BY <1>0, <1>3 DEF RegisterSelf, BeatBeforePoll, PollThrows, Poll, EdgeTypeOK
<1>4. ASSUME NEW w \in Worker,
             Guard(w) \/ ReadLock(w) \/ MoveStaleLock(w) \/ WriteLock(w) \/ StartTask(w)
      PROVE  NoNewPending /\ UNCHANGED runs
  <2>1. CASE Guard(w)
    BY <1>0, <2>1 DEF Guard, EdgeTypeOK
  <2>2. CASE ReadLock(w)
    BY <1>0, <2>2 DEF ReadLock, EdgeTypeOK
  <2>3. CASE MoveStaleLock(w)
    BY <1>0, <2>3 DEF MoveStaleLock, EdgeTypeOK
  <2>4. CASE WriteLock(w)
    BY <1>0, <2>4 DEF WriteLock, EdgeTypeOK
  <2>5. CASE StartTask(w)
    BY <1>0, <2>5 DEF StartTask, EdgeTypeOK
  <2>6. QED BY <1>4, <2>1, <2>2, <2>3, <2>4, <2>5
<1>5. ASSUME NEW w \in Worker,
             EndRun(w) \/ Report(w) \/ FailTask(w) \/ Clean(w) \/ ReadOwnLock(w) \/ RemoveLock(w)
      PROVE  NoNewPending /\ UNCHANGED runs
  <2>1. CASE EndRun(w)
    BY <1>0, <2>1 DEF EndRun, EdgeTypeOK
  <2>2. CASE Report(w)
    BY <1>0, <2>2 DEF Report, EdgeTypeOK
  <2>3. CASE FailTask(w)
    BY <1>0, <2>3 DEF FailTask, EdgeTypeOK
  <2>4. CASE Clean(w)
    BY <1>0, <2>4 DEF Clean, EdgeTypeOK
  <2>5. CASE ReadOwnLock(w)
    BY <1>0, <2>5 DEF ReadOwnLock, EdgeTypeOK
  <2>6. CASE RemoveLock(w)
    BY <1>0, <2>6 DEF RemoveLock, EdgeTypeOK
  <2>7. QED BY <1>5, <2>1, <2>2, <2>3, <2>4, <2>5, <2>6
<1>6. ASSUME NEW w \in Worker, StartLoop(w) \/ EndLoop(w) \/ Keepalive(w) \/ Crash(w)
      PROVE  NoNewPending /\ UNCHANGED runs
  BY <1>0, <1>6 DEF StartLoop, EndLoop, Keepalive, Crash, edgeVars, loopVars, EdgeTypeOK
<1>7. ASSUME NEW c \in late, ServeLate(c)
      PROVE  NoNewPending /\ UNCHANGED runs
  BY <1>7 DEF ServeLate, loopVars
<1>8. CASE Operate \/ Pass \/ UNCHANGED allVars
  BY <1>8 DEF Operate, Pass, allVars, edgeVars, loopVars
<1>9. QED
  <2> HIDE DEF NoNewPending
  <2>1. QED BY <1>1, <1>2, <1>3, <1>4, <1>5, <1>6, <1>7, <1>8 DEF EdgeNext, Advance

\* No attempt, no run.
LEMMA RunsInit == EdgeInit => RunsAreClaimed
<1> SUFFICES ASSUME EdgeInit, NEW t \in Task
             PROVE  /\ runs[t] + Cardinality(Pending(t))
                         <= (MaxTransportRetries + 1) * lease[t].attempt
                    /\ status[t] = "absent" => lease[t].attempt = 0
  BY DEF RunsAreClaimed
<1>1. Pending(t) = {}
  BY DEF EdgeInit, Pending, BeforeRun
<1>2. Cardinality(Pending(t)) = 0
  BY <1>1, FS_EmptySet
<1>3. lease[t].attempt = 0 /\ runs[t] = 0
  BY DEF EdgeInit, Init, NoLease
<1>4. QED BY <1>2, <1>3, PaidFor

\* A granted claim adds an attempt and the executions it pays for, each execution uses up one.
LEMMA RunsStep ==
  ASSUME TypeOK, LoopInv, RunsAreClaimed, [EdgeNext]_allVars
  PROVE  RunsAreClaimed'
<1>0. EdgeTypeOK /\ ServerStep
  BY ServerSteps DEF LoopInv
<1>1. SUFFICES ASSUME NEW t \in Task
               PROVE  /\ runs'[t] + Cardinality(Pending(t)')
                           <= (MaxTransportRetries + 1) * lease'[t].attempt
                      /\ status'[t] = "absent" => lease'[t].attempt = 0
  BY DEF RunsAreClaimed
<1> DEFINE Bound == (MaxTransportRetries + 1) * lease[t].attempt
           Later == (MaxTransportRetries + 1) * lease'[t].attempt
<1>2. /\ lease[t].attempt \in Nat /\ lease'[t].attempt \in Nat
      /\ lease'[t].attempt >= lease[t].attempt
      /\ status'[t] = "absent" => lease'[t].attempt = 0
  BY <1>0, AttemptsGrow DEF RunsAreClaimed
<1>3. /\ runs[t] + Cardinality(Pending(t)) <= Bound
      /\ runs[t] \in Nat
      /\ Cardinality(Pending(t)) \in Nat /\ Cardinality(Pending(t)') \in Nat
      /\ IsFiniteSet(Pending(t)) /\ IsFiniteSet(Pending(t)')
  BY <1>0, PendingFinite DEF RunsAreClaimed, EdgeTypeOK
<1>a. Bound \in Nat /\ Later \in Nat /\ Bound <= Later
  BY <1>2, PaidFor
<1> HIDE DEF Bound, Later
<1>4. ASSUME Pending(t)' \subseteq Pending(t), runs'[t] = runs[t]
      PROVE  runs'[t] + Cardinality(Pending(t)') <= Later
  <2>1. Cardinality(Pending(t)') <= Cardinality(Pending(t))
    BY <1>3, <1>4, FS_Subset
  <2>2. QED BY <1>a, <1>3, <1>4, <2>1
<1>5. ASSUME NoNewPending, UNCHANGED runs
      PROVE  runs'[t] + Cardinality(Pending(t)') <= Later
  <2>1. Pending(t)' \subseteq Pending(t)
    BY <1>5 DEF NoNewPending, Pending
  <2>2. runs'[t] = runs[t]
    BY <1>5
  <2>3. QED BY <1>4, <2>1, <2>2
<1>6. ASSUME NEW w \in Worker, OnlyLoop(w), at[w] = "claiming", doing'[w] = doing[w],
             at'[w] # "executing", ClaimGrant(doing[w], w), UNCHANGED runs
      PROVE  runs'[t] + Cardinality(Pending(t)') <= Later
  <2>1. Pending(t)' \subseteq Pending(t) \cup ({w} \X Tries)
    BY <1>6 DEF OnlyLoop, Pending
  <2>2. doing[w] \in Task
    BY <1>6 DEF LoopInv, LoopShape, OnTask, Step
  <2>3. CASE doing[w] = t
    <3>1. lease'[t].attempt = lease[t].attempt + 1
      BY <1>6, <2>3, BuiltLease DEF ClaimGrant, TypeOK
    <3>2. Later = Bound + (MaxTransportRetries + 1)
      BY <1>2, <3>1, PaidFor DEF Bound, Later
    <3>3. /\ IsFiniteSet({w} \X Tries) /\ Cardinality({w} \X Tries) = MaxTransportRetries + 1
      BY TriesFinite
    <3>4. /\ IsFiniteSet(Pending(t) \cup ({w} \X Tries))
          /\ Cardinality(Pending(t) \cup ({w} \X Tries))
               = Cardinality(Pending(t)) + (MaxTransportRetries + 1)
                 - Cardinality(Pending(t) \cap ({w} \X Tries))
      BY <1>3, <3>3, FS_Union
    <3>5. Cardinality(Pending(t) \cap ({w} \X Tries)) \in Nat
      BY <1>3, FS_Intersection, FS_CardinalityType
    <3>6. Cardinality(Pending(t)') <= Cardinality(Pending(t) \cup ({w} \X Tries))
      BY <2>1, <3>4, FS_Subset
    <3>7. QED BY <1>a, <1>3, <1>6, <3>2, <3>4, <3>5, <3>6, LoopParameters
  <2>4. CASE doing[w] # t
    <3>1. Pending(t)' \subseteq Pending(t)
      BY <1>6, <2>4 DEF OnlyLoop, Pending
    <3>2. QED BY <1>4, <1>6, <3>1
  <2>5. QED BY <2>3, <2>4
<1>7. ASSUME NEW w \in Worker, NEW n \in Tries, Executes(w, n)
      PROVE  runs'[t] + Cardinality(Pending(t)') <= Later
  <2>0. tries[w] \in Nat /\ n \in Nat
    BY <1>0 DEF EdgeTypeOK, Tries
  <2>1. Pending(t)' \subseteq Pending(t) /\ <<w, n>> \notin Pending(t)'
    <3>1. ASSUME NEW p \in Pending(t)'
          PROVE  p \in Pending(t) /\ p # <<w, n>>
      <4>1. /\ p \in Worker \X Tries /\ p[1] \in Worker /\ p[2] \in Nat
            /\ doing'[p[1]] = t
            /\ at'[p[1]] \in BeforeRun \/ (at'[p[1]] = "executing" /\ p[2] > tries'[p[1]])
        BY <3>1 DEF Pending, Tries
      <4>2. CASE p[1] # w
        BY <1>7, <4>1, <4>2 DEF Executes, OnlyLoop, Pending
      <4>3. CASE p[1] = w
        <5>1. p[2] > n /\ doing[w] = t
          BY <1>7, <4>1, <4>3 DEF Executes, BeforeRun
        <5>2. at[w] \in BeforeRun \/ (at[w] = "executing" /\ p[2] > tries[w])
          BY <1>7, <2>0, <4>1, <5>1 DEF Executes, BeforeRun
        <5>3. p # <<w, n>>
          BY <2>0, <4>1, <5>1
        <5>4. QED BY <4>1, <4>3, <5>1, <5>2, <5>3 DEF Pending
      <4>4. QED BY <4>2, <4>3
    <3>2. QED BY <3>1
  <2>2. CASE doing[w] = t
    <3>1. runs'[t] = runs[t] + 1
      BY <1>0, <1>7, <2>2 DEF EdgeTypeOK, Executes
    <3>2. <<w, n>> \in Pending(t)
      BY <1>7, <2>0, <2>2 DEF Pending, BeforeRun, Executes
    <3>3. Cardinality(Pending(t) \ {<<w, n>>}) = Cardinality(Pending(t)) - 1
          /\ IsFiniteSet(Pending(t) \ {<<w, n>>})
      BY <1>3, <3>2, FS_RemoveElement
    <3>4. Pending(t)' \subseteq Pending(t) \ {<<w, n>>}
      BY <2>1
    <3>5. Cardinality(Pending(t)') <= Cardinality(Pending(t) \ {<<w, n>>})
      BY <3>3, <3>4, FS_Subset
    <3>6. QED BY <1>a, <1>3, <3>1, <3>3, <3>5
  <2>3. CASE doing[w] # t
    <3>1. runs'[t] = runs[t]
      BY <1>0, <1>7, <2>3 DEF EdgeTypeOK, Executes
    <3>2. QED BY <1>4, <2>1, <3>1
  <2>4. QED BY <2>2, <2>3
<1>8. runs'[t] + Cardinality(Pending(t)') <= Later
  BY <1>5, <1>6, <1>7, <1>4, PendingSteps
<1>9. QED BY <1>2, <1>8 DEF Later

\* EdgeIInv, which the runs check, holds in every reachable state.
THEOREM EdgeInvariance == EdgeSpec => []EdgeIInv
<1>1. EdgeSpec => []TypeOK
  BY ServerRefinedHolds, TypeCorrect, PTL DEF ServerRefined
<1>2. TypeOK /\ LoopInv /\ RunsAreClaimed /\ [EdgeNext]_allVars => RunsAreClaimed'
  BY RunsStep
<1>3. LoopInv /\ RunsAreClaimed => EdgeIInv
  BY DEF LoopInv, EdgeIInv
<1>4. QED BY <1>1, <1>2, <1>3, RunsInit, LoopInvariance, PTL DEF EdgeSpec

\* There are at most MaxAttempts turns at a task plus one for each requeue, and Codex runs
\* at most MaxTransportRetries + 1 times in each.
THEOREM NoSilentRerunHolds == EdgeSpec => []NoSilentRerun
<1>1. EdgeSpec => [](TypeOK /\ NoSilentRetry)
  BY ServerRefinedHolds, TypeCorrect, NoSilentRetryHolds, PTL DEF ServerRefined
<1>2. TypeOK /\ NoSilentRetry /\ EdgeIInv => NoSilentRerun
  <2> SUFFICES ASSUME TypeOK, NoSilentRetry, EdgeIInv, NEW t \in Task
               PROVE  runs[t] <= (MaxTransportRetries + 1) * (requeues[t] + MaxAttempts)
    BY DEF NoSilentRerun
  <2>1. /\ runs[t] \in Nat /\ lease[t].attempt \in Nat
        /\ requeues[t] + MaxAttempts \in Nat
    BY Parameters DEF TypeOK, Lease, EdgeIInv, EdgeTypeOK
  <2>2. Cardinality(Pending(t)) \in Nat
    BY PendingFinite
  <2>3. runs[t] + Cardinality(Pending(t)) <= (MaxTransportRetries + 1) * lease[t].attempt
        /\ lease[t].attempt <= requeues[t] + MaxAttempts
    BY DEF EdgeIInv, RunsAreClaimed, NoSilentRetry
  <2>4. /\ (MaxTransportRetries + 1) * lease[t].attempt
             <= (MaxTransportRetries + 1) * (requeues[t] + MaxAttempts)
        /\ (MaxTransportRetries + 1) * lease[t].attempt \in Nat
        /\ (MaxTransportRetries + 1) * (requeues[t] + MaxAttempts) \in Nat
    BY <2>1, <2>3, PaidFor
  <2>5. QED BY <2>1, <2>2, <2>3, <2>4
<1>3. QED BY <1>1, <1>2, EdgeInvariance, PTL

-----------------------------------------------------------------------------
(* What the server promises arbitrary clients, these loops have as well. *)

\* Everything that TaskLeaseProofs shows of the queue holds with the workers the
\* repository ships: the lease, the task record and the worker's silence agree, an ended
\* lease and a completed task stay ended and completed, a holder in touch keeps its only
\* lease, and a task changes hands only through nobody's.
THEOREM QueuePromisesKept ==
  EdgeSpec => /\ []IInv /\ []KeepaliveHoldsLease
              /\ EndedLeaseStaysEnded /\ CompletedIsFinal /\ AuthorityRefined
BY ServerRefinedHolds, Invariance, KeepaliveHoldsLeaseHolds, EndedLeaseStaysEndedHolds,
   CompletedIsFinalHolds, Refinement, PTL DEF ServerRefined

-----------------------------------------------------------------------------
(* The lock file. *)

\* While nobody writes a lock over another's, the file is that of the process which has the
\* lock, and of no living process while one is about to write.
Exclusive ==
  \A w \in Worker :
    /\ at[w] \in {"moving", "writing"} => repoLock.by = None
    /\ at[w] \in {"starting", "started", "executing", "unlocking", "removing"} => hasLock[w]
    /\ hasLock[w] => repoLock.by = w

\* A step of another loop that leaves the file, or that writes it while nobody else has it.
LEMMA ExclusiveOne ==
  ASSUME LoopInv, Exclusive, NEW w \in Worker,
         \A v \in Worker \ {w} : at'[v] = at[v] /\ hasLock'[v] = hasLock[v],
         at'[w] \in {"moving", "writing"} => repoLock'.by = None,
         at'[w] \in {"starting", "started", "executing", "unlocking", "removing"} => hasLock'[w],
         hasLock'[w] => repoLock'.by = w,
         \/ repoLock'.by = repoLock.by
         \/ repoLock.by \in {w, None} /\ repoLock'.by = None
         \/ /\ repoLock.by \in {w, None}
            /\ \A v \in Worker \ {w} : at[v] \notin {"moving", "writing"}
  PROVE  Exclusive'
BY NoneIsNobody DEF Exclusive, LoopInv, EdgeTypeOK

\* As long as no lock outlives its age limit, and the reads and writes of the lock file do
\* not mix, the lock excludes.
LEMMA ExclusiveStep ==
  ASSUME ~LocksAge, LoopInv, Exclusive, LockingAlone, [EdgeNext]_allVars
  PROVE  Exclusive'
<1>0. /\ at \in [Worker -> Step] /\ hasLock \in [Worker -> BOOLEAN]
      /\ \A w \in Worker : hasLock[w] => at[w] \in UnderLock
      /\ None \notin Worker
  BY NoneIsNobody DEF LoopInv, EdgeTypeOK, LoopShape
<1> USE DEF Go, Keep, Decide, Leave, UnderLock, Unlocked
<1>1. ASSUME NEW w \in Worker,
             \/ RegisterSelf(w) \/ BeatBeforePoll(w) \/ PollThrows(w) \/ Poll(w) \/ ClaimTask(w)
             \/ Guard(w) \/ StartLoop(w) \/ EndLoop(w)
      PROVE  Exclusive'
  <2>1. /\ at' = [at EXCEPT ![w] = at'[w]] /\ hasLock' = hasLock /\ ~hasLock[w]
        /\ at'[w] \in {"down", "idle", "registered", "polling", "claiming", "guarding",
                       "locking", "reporting", "failing"}
        /\ repoLock' = repoLock
    BY <1>0, <1>1
       DEF RegisterSelf, BeatBeforePoll, PollThrows, Poll, ClaimTask, Guard, StartLoop, EndLoop
  <2>2. QED BY <1>0, <2>1, ExclusiveOne
<1>2. ASSUME NEW w \in Worker, ReadLock(w) \/ MoveStaleLock(w)
      PROVE  Exclusive'
  <2>1. /\ at' = [at EXCEPT ![w] = at'[w]] /\ hasLock' = hasLock /\ ~hasLock[w]
        /\ at'[w] \in {"moving", "writing", "reporting", "failing"}
        /\ at'[w] \in {"moving", "writing"} => repoLock.by = None /\ repoLock'.by = None
        /\ repoLock'.by = repoLock.by \/ (repoLock.by = None /\ repoLock'.by = None)
    <3>1. CASE ReadLock(w)
      <4>1. hasLock' = hasLock /\ repoLock' = repoLock /\ at[w] = "locking"
        BY <3>1 DEF ReadLock
      <4>2. \/ at' = [at EXCEPT ![w] = "writing"] /\ repoLock.by = None
            \/ at' = [at EXCEPT ![w] = "moving"] /\ repoLock.by = None
            \/ at' = [at EXCEPT ![w] = "reporting"]
        BY <3>1 DEF ReadLock, MayBeStale
      <4>3. QED BY <1>0, <4>1, <4>2
    <3>2. CASE MoveStaleLock(w)
      <4>1. repoLock.by = None
        BY <3>2 DEF MoveStaleLock, Exclusive
      <4>2. QED BY <1>0, <3>2, <4>1 DEF MoveStaleLock
    <3>3. QED BY <1>2, <3>1, <3>2
  <2>2. QED BY <1>0, <2>1, ExclusiveOne
<1>3. ASSUME NEW w \in Worker, WriteLock(w)
      PROVE  Exclusive'
  <2>1. /\ at' = [at EXCEPT ![w] = "starting"] /\ hasLock' = [hasLock EXCEPT ![w] = TRUE]
        /\ repoLock'.by = w /\ repoLock.by = None
    BY <1>3 DEF WriteLock, Exclusive
  <2>2. \A v \in Worker \ {w} : at[v] \notin {"moving", "writing"}
    BY <1>3 DEF WriteLock, LockingAlone
  <2>3. QED BY <1>0, <2>1, <2>2, ExclusiveOne
<1>4. ASSUME NEW w \in Worker,
             \/ StartTask(w) \/ BeginRun(w) \/ RetryRun(w) \/ EndRun(w) \/ Report(w)
             \/ FailTask(w)
      PROVE  Exclusive'
  <2>1. /\ at' = [at EXCEPT ![w] = at'[w]] /\ hasLock' = hasLock /\ repoLock' = repoLock
        /\ at'[w] \in {"started", "executing", "reporting", "failing", "cleaning"}
        /\ at'[w] \in {"started", "executing"} => hasLock[w]
    BY <1>0, <1>4 DEF StartTask, BeginRun, RetryRun, EndRun, Report, FailTask, Exclusive
  <2>2. hasLock[w] => repoLock.by = w
    BY DEF Exclusive
  <2>3. QED BY <1>0, <2>1, <2>2, ExclusiveOne
<1>5. ASSUME NEW w \in Worker, Clean(w) \/ ReadOwnLock(w)
      PROVE  Exclusive'
  <2>1. /\ repoLock' = repoLock
        /\ \/ at' = [at EXCEPT ![w] = "idle"] /\ hasLock' = [hasLock EXCEPT ![w] = FALSE]
           \/ /\ at' = [at EXCEPT ![w] = at'[w]] /\ hasLock' = hasLock /\ hasLock[w]
              /\ at'[w] \in {"unlocking", "removing"}
    BY <1>0, <1>5 DEF Clean, ReadOwnLock, Exclusive
  <2>2. hasLock[w] => repoLock.by = w
    BY DEF Exclusive
  <2>3. QED BY <1>0, <2>1, <2>2, ExclusiveOne
<1>6. ASSUME NEW w \in Worker, RemoveLock(w) \/ Crash(w)
      PROVE  Exclusive'
  <2>1. /\ hasLock' = [hasLock EXCEPT ![w] = FALSE]
        /\ at' = [at EXCEPT ![w] = at'[w]] /\ at'[w] \in {"idle", "down"}
        /\ repoLock'.by = repoLock.by \/ (repoLock.by = w /\ repoLock'.by = None)
    <3>1. CASE RemoveLock(w)
      <4>1. repoLock.by = w
        BY <3>1 DEF RemoveLock, Exclusive
      <4>2. QED BY <1>0, <3>1, <4>1 DEF RemoveLock
    <3>2. CASE Crash(w)
      <4>1. repoLock'.by = repoLock.by \/ (repoLock.by = w /\ repoLock'.by = None)
        BY <3>2 DEF Crash, LoopInv, EdgeTypeOK
      <4>2. QED BY <1>0, <3>2, <4>1 DEF Crash
    <3>3. QED BY <1>6, <3>1, <3>2
  <2>2. QED BY <1>0, <2>1, ExclusiveOne
<1>7. ASSUME NEW w \in Worker, Keepalive(w)
      PROVE  Exclusive'
  BY <1>7 DEF Keepalive, edgeVars, loopVars, Exclusive
<1>8. ASSUME NEW c \in late, ServeLate(c)
      PROVE  Exclusive'
  BY <1>8 DEF ServeLate, loopVars, Exclusive
<1>9. CASE Operate \/ Pass \/ UNCHANGED allVars
  BY <1>9 DEF Operate, Pass, allVars, edgeVars, loopVars, Exclusive
<1>10. QED
  BY <1>1, <1>2, <1>3, <1>4, <1>5, <1>6, <1>7, <1>8, <1>9 DEF EdgeNext, Advance

\* "A live non-stale lock blocks task execution": it does, as long as no task is held past
\* the age at which the lock of a living process counts as stale, and no two processes are
\* between reading and writing the file at once.  There is no third hole: the locks of dead
\* processes, late answers and the removal of the lock, which reads before it removes, are none.
THEOREM WorktreeExclusion ==
  ASSUME ~LocksAge
  PROVE  EdgeSpec /\ []LockingAlone => []OneExecutionPerWorktree
<1>1. EdgeInit => Exclusive
  BY NoneIsNobody DEF EdgeInit, Exclusive
<1>2. LoopInv /\ Exclusive => OneExecutionPerWorktree
  BY DEF Exclusive, OneExecutionPerWorktree
<1>3. QED BY <1>1, <1>2, ExclusiveStep, LoopInvariance, PTL DEF EdgeSpec

-----------------------------------------------------------------------------
(* What a dead worker leaves behind. *)

\* The background job lives while its process is at the task.
KeepaliveAtWork ==
  \A w \in Worker : keepalive[w] => at[w] \in {"executing", "reporting", "failing", "cleaning"}

LEMMA KeepaliveAtWorkStep == LoopInv /\ KeepaliveAtWork /\ [EdgeNext]_allVars => KeepaliveAtWork'
<1> SUFFICES ASSUME LoopInv, KeepaliveAtWork, [EdgeNext]_allVars
             PROVE  KeepaliveAtWork'
  OBVIOUS
<1>0. at \in [Worker -> Step] /\ keepalive \in [Worker -> BOOLEAN]
  BY DEF LoopInv, EdgeTypeOK
<1> USE DEF Go, Keep, Decide, Leave, KeepaliveAtWork
<1>1. ASSUME NEW w \in Worker,
             \/ RegisterSelf(w) \/ BeatBeforePoll(w) \/ PollThrows(w) \/ Poll(w) \/ ClaimTask(w)
             \/ Guard(w) \/ StartLoop(w) \/ EndLoop(w)
      PROVE  KeepaliveAtWork'
  BY <1>0, <1>1
     DEF RegisterSelf, BeatBeforePoll, PollThrows, Poll, ClaimTask, Guard, StartLoop, EndLoop
<1>2. ASSUME NEW w \in Worker, ReadLock(w) \/ MoveStaleLock(w) \/ WriteLock(w) \/ StartTask(w)
      PROVE  KeepaliveAtWork'
  BY <1>0, <1>2 DEF ReadLock, MoveStaleLock, WriteLock, StartTask
<1>3. ASSUME NEW w \in Worker,
             BeginRun(w) \/ RetryRun(w) \/ EndRun(w) \/ Report(w) \/ FailTask(w)
      PROVE  KeepaliveAtWork'
  <2>1. /\ at' = [at EXCEPT ![w] = at'[w]]
        /\ at'[w] \in {"executing", "reporting", "failing", "cleaning"}
        /\ keepalive' \in {keepalive, [keepalive EXCEPT ![w] = TRUE]}
    BY <1>0, <1>3 DEF BeginRun, RetryRun, EndRun, Report, FailTask, Keep
  <2>2. QED BY <1>0, <2>1
<1>4. ASSUME NEW w \in Worker, Clean(w) \/ ReadOwnLock(w) \/ RemoveLock(w) \/ Crash(w)
      PROVE  KeepaliveAtWork'
  <2>1. /\ at' = [at EXCEPT ![w] = at'[w]]
        /\ \/ keepalive' = [keepalive EXCEPT ![w] = FALSE]
           \/ keepalive' = keepalive /\ ~keepalive[w]
    BY <1>0, <1>4 DEF Clean, ReadOwnLock, RemoveLock, Crash
  <2>2. QED BY <1>0, <2>1
<1>5. ASSUME NEW w \in Worker, Keepalive(w)
      PROVE  KeepaliveAtWork'
  BY <1>5 DEF Keepalive, edgeVars, loopVars
<1>6. ASSUME NEW c \in late, ServeLate(c)
      PROVE  KeepaliveAtWork'
  BY <1>6 DEF ServeLate, loopVars
<1>7. CASE Operate \/ Pass \/ UNCHANGED allVars
  BY <1>7 DEF Operate, Pass, allVars, edgeVars, loopVars
<1>8. QED
  BY <1>1, <1>2, <1>3, <1>4, <1>5, <1>6, <1>7 DEF EdgeNext, Advance

\* A lease that stays, that ends, or that goes to another gives w no time.
Unaided(w, t) == lease'[t] = lease[t] \/ ~IsActive(lease'[t]) \/ lease'[t].holder # w

LEMMA UnaidedTerm ==
  ASSUME TypeOK, NEW w \in Worker, NEW t \in Task, Unaided(w, t)
  PROVE  Term(w, t)' <= Term(w, t)
<1>1. lease[t].ttl \in Nat
  BY Parameters DEF TypeOK, Lease
<1>2. CASE lease'[t] = lease[t]
  BY <1>1, <1>2 DEF Term, IsActive
<1>3. CASE ~IsActive(lease'[t]) \/ lease'[t].holder # w
  <2>1. Term(w, t)' = 0 /\ Term(w, t) \in Nat
    BY <1>1, <1>3 DEF Term, IsActive
  <2>2. QED BY <2>1
<1>4. QED BY <1>2, <1>3 DEF Unaided

\* What the server does for others, or for the operator, does not aid w.
LEMMA OthersCalls ==
  ASSUME TypeOK, NEW v \in Worker, NEW w \in Worker, v # w, NEW u \in Task, NEW t \in Task,
         Served(u, v)
  PROVE  Unaided(w, t)
<1>1. v # None /\ lease \in [Task -> Lease]
  BY NoneIsNobody DEF TypeOK
<1>2. CASE ClaimGrant(u, v)
  BY <1>1, <1>2 DEF ClaimGrant, BuildLease, Unaided
<1>3. CASE ClaimMarksExpired(u, v) \/ StartMarksExpired(u, v)
  BY <1>1, <1>3 DEF ClaimMarksExpired, StartMarksExpired, MarkedExpired, IsActive, Lease, Unaided
<1>4. CASE StartRun(u, v)
  BY <1>1, <1>4 DEF StartRun, ActingAs, Refreshed, Unaided, Lease
<1>5. ASSUME NEW what \in Outcome, Finish(u, v, what)
      PROVE  Unaided(w, t)
  BY <1>1, <1>5 DEF Finish, ActingAs, Released, Ended, IsActive, Unaided, Lease
<1>6. QED BY <1>2, <1>3, <1>4, <1>5 DEF Served

LEMMA OthersHeartbeat ==
  ASSUME TypeOK, NEW v \in Worker, NEW w \in Worker, v # w, NEW t \in Task, Heartbeat(v, 0)
  PROVE  Unaided(w, t)
<1>1. v # None /\ lease \in [Task -> Lease]
  BY NoneIsNobody DEF TypeOK
<1>2. QED
  BY <1>1 DEF Heartbeat, RefreshWorkerActiveLease, HeldBy, Refreshed, Unaided, Lease

LEMMA OperatorsCalls ==
  ASSUME TypeOK, NEW w \in Worker, NEW t \in Task, Operate
  PROVE  Unaided(w, t)
<1>1. lease \in [Task -> Lease]
  BY DEF TypeOK
<1>2. ASSUME NEW u \in Task, CreateTask(u) \/ Requeue(u) \/ RequeueSafe(u)
      PROVE  Unaided(w, t)
  <2>1. CASE CreateTask(u)
    BY <1>1, <2>1 DEF CreateTask, NoLease, IsActive, Unaided
  <2>2. CASE Requeue(u)
    BY <2>2 DEF Requeue, Unaided
  <2>3. CASE RequeueSafe(u)
    BY <1>1, <2>3 DEF RequeueSafe, Ended, IsActive, Unaided, Lease
  <2>4. QED BY <1>2, <2>1, <2>2, <2>3
<1>3. ASSUME NEW u \in Task, NEW how \in {"released", "abandoned"}, RecoverLease(u, how)
      PROVE  Unaided(w, t)
  BY <1>1, <1>3 DEF RecoverLease, Ended, IsActive, Unaided, Lease
<1>4. ASSUME NEW v \in Worker, NEW enabled \in BOOLEAN, PatchWorker(v, enabled)
      PROVE  Unaided(w, t)
  BY <1>4 DEF PatchWorker, taskVars, Unaided
<1>5. QED BY <1>2, <1>3, <1>4 DEF Operate

\* A call that throws, or is served late, is another worker's.
LEMMA OthersThrow ==
  ASSUME LoopInv, TypeOK, NEW v \in Worker, NEW w \in Worker, v # w,
         NEW kind \in Outcome \cup {"claim", "start"}, at[v] \in OnTask,
         Throws(CallOf(v, kind)) \/ Succeeds(CallOf(v, kind))
  PROVE  LateOf(w)' = LateOf(w) /\ \A t \in Task : Unaided(w, t)
<1>1. CallOf(v, kind) \in Call /\ CallOf(v, kind).by = v /\ CallOf(v, kind).task = doing[v]
      /\ doing[v] \in Task
  BY DEF CallOf, Call, LoopInv, LoopShape
<1>2. late' = late \/ late' = late \cup {CallOf(v, kind)}
  BY DEF Throws, Succeeds
<1>3. Served(doing[v], v) \/ UNCHANGED vars
  BY <1>1, CallIsServed DEF Throws, Succeeds
<1>4. ASSUME NEW t \in Task
      PROVE  Unaided(w, t)
  BY <1>1, <1>3, OthersCalls DEF vars, taskVars, Unaided
<1>5. QED BY <1>1, <1>2, <1>4 DEF LateOf

\* What a dead worker left behind only runs down.
THEOREM DeadRunsDown == EdgeSpec => DeadWorkerRunsDown
<1> DEFINE RunsDown(w) ==
      /\ LateOf(w)' \subseteq LateOf(w)
      /\ LateOf(w)' = LateOf(w) => \A t \in Task : Term(w, t)' <= Term(w, t)
      /\ Pass => \A t \in Task : Term(w, t)' = Down(Term(w, t))
<1>1. ASSUME TypeOK, NEW w \in Worker, NEW t \in Task, Tick
      PROVE  Term(w, t)' = Down(Term(w, t)) /\ Term(w, t)' <= Term(w, t)
  <2>1. lease[t] \in Lease /\ lease[t].ttl \in Nat
    BY <1>1, Parameters DEF TypeOK, Lease
  <2>2. lease'[t] = [lease[t] EXCEPT !.ttl = Down(@)]
    BY <1>1 DEF Tick
  <2>3. lease'[t].ttl = Down(lease[t].ttl) /\ lease'[t].holder = lease[t].holder
        /\ lease'[t].status = lease[t].status
    BY <2>1, <2>2 DEF Lease
  <2>4. QED BY <2>1, <2>3 DEF Term, IsActive, Down
<1>2. ASSUME TypeOK, LoopInv, KeepaliveAtWork, [EdgeNext]_allVars, NEW w \in Worker,
             at[w] = "down", at'[w] = "down"
      PROVE  RunsDown(w)
  <2>0. Pass => \A t \in Task : Term(w, t)' = Down(Term(w, t))
    BY <1>1, <1>2 DEF Pass
  <2> DEFINE Quiet == LateOf(w)' = LateOf(w) /\ \A t \in Task : Unaided(w, t)
  <2>1. Quiet => RunsDown(w)
    BY <1>2, <2>0, UnaidedTerm
  <2>2. ASSUME NEW v \in Worker,
               ClaimTask(v) \/ StartTask(v) \/ Report(v) \/ FailTask(v)
        PROVE  Quiet
    <3>1. v # w /\ at[v] \in OnTask
      BY <1>2, <2>2 DEF ClaimTask, StartTask, Report, FailTask, OnTask, Step
    <3>2. \E kind \in Outcome \cup {"claim", "start"} :
            Throws(CallOf(v, kind)) \/ Succeeds(CallOf(v, kind))
      BY <1>2, <2>2 DEF ClaimTask, StartTask, Report, FailTask, LoopInv, LoopShape, Outcome
    <3>3. QED BY <1>2, <3>1, <3>2, OthersThrow
  <2>3. ASSUME NEW v \in Worker,
               RegisterSelf(v) \/ BeatBeforePoll(v) \/ BeginRun(v) \/ Clean(v) \/ Keepalive(v)
        PROVE  Quiet
    <3>1. v # w /\ late' = late
      BY <1>2, <2>3 DEF RegisterSelf, BeatBeforePoll, BeginRun, Clean, Keepalive, edgeVars,
                        KeepaliveAtWork
    <3>2. Heartbeat(v, 0) \/ lease' = lease
      BY <2>3 DEF RegisterSelf, BeatBeforePoll, BeginRun, Clean, Keepalive, Register,
                  vars, taskVars
    <3>3. QED BY <1>2, <3>1, <3>2, OthersHeartbeat DEF LateOf, Unaided
  <2>4. ASSUME NEW v \in Worker,
               \/ PollThrows(v) \/ Poll(v) \/ Guard(v) \/ ReadLock(v) \/ MoveStaleLock(v)
               \/ WriteLock(v) \/ RetryRun(v) \/ EndRun(v) \/ ReadOwnLock(v) \/ RemoveLock(v)
               \/ StartLoop(v) \/ EndLoop(v) \/ Crash(v)
        PROVE  Quiet
    <3>1. UNCHANGED vars /\ late' = late
      BY <2>4 DEF PollThrows, Poll, Guard, ReadLock, MoveStaleLock, WriteLock, RetryRun, EndRun,
                  ReadOwnLock, RemoveLock, StartLoop, EndLoop, Crash
    <3>2. QED BY <3>1 DEF vars, taskVars, LateOf, Unaided
  <2>5. ASSUME NEW c \in late, ServeLate(c)
        PROVE  RunsDown(w)
    <3>1. c \in Call /\ c.task \in Task /\ c.by \in Worker
      BY <1>2 DEF LoopInv, EdgeTypeOK, Call
    <3>2. CASE c.by = w
      <4>1. LateOf(w)' = LateOf(w) \ {c} /\ c \in LateOf(w)
        BY <2>5, <3>2 DEF ServeLate, LateOf
      <4>2. QED BY <2>0, <4>1
    <3>3. CASE c.by # w
      <4>1. LateOf(w)' = LateOf(w)
        BY <2>5, <3>3 DEF ServeLate, LateOf
      <4>2. Served(c.task, c.by) \/ UNCHANGED vars
        BY <2>5, <3>1, CallIsServed DEF ServeLate
      <4>3. \A t \in Task : Unaided(w, t)
        BY <1>2, <3>1, <3>3, <4>2, OthersCalls DEF vars, taskVars, Unaided
      <4>4. QED BY <2>1, <4>1, <4>3
    <3>4. QED BY <3>2, <3>3
  <2>6. CASE Operate
    <3>1. late' = late
      BY <2>6 DEF Operate, edgeVars
    <3>2. QED BY <1>2, <2>1, <2>6, <3>1, OperatorsCalls DEF LateOf
  <2>7. CASE Pass
    <3>1. late' = late /\ Tick
      BY <2>7 DEF Pass, edgeVars
    <3>2. QED BY <1>1, <1>2, <2>0, <3>1 DEF LateOf
  <2>8. CASE UNCHANGED allVars
    <3>1. lease' = lease /\ late' = late
      BY <2>8 DEF allVars, vars, taskVars, edgeVars
    <3>2. QED BY <2>1, <3>1 DEF LateOf, Unaided
  <2> HIDE DEF RunsDown
  <2>9. QED
    BY <1>2, <2>1, <2>2, <2>3, <2>4, <2>5, <2>6, <2>7, <2>8 DEF EdgeNext, Advance
<1>3. TypeOK /\ LoopInv /\ KeepaliveAtWork /\ [EdgeNext]_allVars =>
        [\A w \in Worker : at[w] = "down" /\ at'[w] = "down" =>
           /\ LateOf(w)' \subseteq LateOf(w)
           /\ LateOf(w)' = LateOf(w) => \A t \in Task : Term(w, t)' <= Term(w, t)
           /\ Pass => \A t \in Task : Term(w, t)' = Down(Term(w, t))]_allVars
  BY <1>2
<1>4. EdgeSpec => []TypeOK
  BY ServerRefinedHolds, TypeCorrect, PTL DEF ServerRefined
<1>5. EdgeInit => KeepaliveAtWork
  BY DEF EdgeInit, KeepaliveAtWork
<1>6. QED
  BY <1>3, <1>4, <1>5, KeepaliveAtWorkStep, LoopInvariance, PTL DEF EdgeSpec, DeadWorkerRunsDown
-----------------------------------------------------------------------------
(* A task that nobody requeued. *)

\* The steps of a process whose claim was answered.
Claimed == OnTask \ {"claiming"}

Holds(w, t) == lease[t].holder = w /\ lease[t].attempt >= 1

\* Whoever works or calls holds the lease, and a task that is over has none.
Rightful(t) ==
  /\ \A w \in Worker : doing[w] = t /\ at[w] \in Claimed => Holds(w, t)
  /\ \A c \in late : c.task = t /\ c.kind # "claim" => Holds(c.by, t)
  /\ status[t] \in Outcome => ~IsActive(lease[t])

HolderInv ==
  \A t \in Task : /\ requeues[t] = 0 => Rightful(t)
                  /\ status[t] = "absent" => requeues[t] = 0

\* A lease keeps holder and attempt, or is that of a new claim or of a task created anew.
LEMMA HolderSteps ==
  ASSUME TypeOK, [Next]_vars, NEW u \in Task
  PROVE  \/ lease'[u].holder = lease[u].holder /\ lease'[u].attempt = lease[u].attempt
         \/ status'[u] = "claimed" /\ lease'[u].attempt = lease[u].attempt + 1
         \/ status'[u] = "queued" /\ lease'[u].attempt = 0
<1> DEFINE Kept == lease'[u].holder = lease[u].holder /\ lease'[u].attempt = lease[u].attempt
           Changed == \/ status'[u] = "claimed" /\ lease'[u].attempt = lease[u].attempt + 1
                      \/ status'[u] = "queued" /\ lease'[u].attempt = 0
<1> USE DEF taskVars, workerVars
<1>a. lease[u] \in Lease /\ lease[u].attempt \in Nat
  BY DEF TypeOK, Lease
<1>1. ASSUME NEW w \in Worker, NEW skew \in Skews, Heartbeat(w, skew)
      PROVE  Kept
  <2>1. lease'[u] \in {lease[u], Refreshed(lease[u], w)}
    BY <1>1 DEF Heartbeat, RefreshWorkerActiveLease, TypeOK
  <2> QED BY <1>a, <2>1, RefreshedLease DEF Caller
<1>2. ASSUME NEW t \in Task, CreateTask(t)
      PROVE  Kept \/ Changed
  BY <1>2 DEF CreateTask, NoLease, TypeOK
<1>3. ASSUME NEW t \in Task, NEW s \in LeaseStatus, lease' = [lease EXCEPT ![t] = Ended(@, s)]
      PROVE  Kept
  <2>1. lease'[u] \in {lease[u], Ended(lease[u], s)}
    BY <1>3 DEF TypeOK
  <2> QED BY <1>a, <2>1, EndedLease
<1>4. ASSUME NEW t \in Task, NEW w \in Worker, ClaimGrant(t, w)
      PROVE  Kept \/ Changed
  <2>1. CASE u = t
    BY <1>a, <1>4, <2>1, BuiltLease DEF ClaimGrant, TypeOK
  <2>2. CASE u # t
    BY <1>4, <2>2 DEF ClaimGrant, TypeOK
  <2> QED BY <2>1, <2>2
<1>5. ASSUME NEW t \in Task, lease' = [lease EXCEPT ![t] = MarkedExpired(@)]
      PROVE  Kept
  <2>1. lease'[u] \in {lease[u], MarkedExpired(lease[u])}
    BY <1>5 DEF TypeOK
  <2> QED BY <1>a, <2>1, MarkedExpiredLease
<1>6. ASSUME NEW t \in Task, NEW c \in Caller, StartRun(t, c)
      PROVE  Kept
  <2>1. ActingAs(t, c) \in Caller
    BY ActingAsType DEF TypeOK
  <2>2. lease'[u] \in {lease[u], Refreshed(lease[u], ActingAs(t, c))}
    BY <1>6 DEF StartRun, TypeOK
  <2> QED BY <1>a, <2>1, <2>2, RefreshedLease
<1>7. ASSUME NEW t \in Task, NEW c \in Caller,
             NEW what \in {"completed", "failed", "blocked"}, Finish(t, c, what)
      PROVE  Kept
  <2>1. ActingAs(t, c) \in Caller
    BY ActingAsType DEF TypeOK
  <2>2. lease'[u] \in {lease[u], Released(lease[u], ActingAs(t, c))}
    BY <1>7 DEF Finish, TypeOK
  <2> QED BY <1>a, <2>1, <2>2, ReleasedLease
<1>8. ASSUME Tick
      PROVE  Kept
  BY <1>a, <1>8, TickedLease DEF Tick
<1>9. ASSUME UNCHANGED lease
      PROVE  Kept
  BY <1>9
<1> HIDE DEF Kept, Changed
<1>10. ASSUME NEW t \in Task, NEW how \in {"released", "abandoned"},
              RequeueSafe(t) \/ RecoverLease(t, how)
       PROVE  Kept
  <2>1. how \in LeaseStatus /\ "released" \in LeaseStatus
    BY DEF LeaseStatus
  <2> QED BY <1>3, <1>10, <2>1 DEF RequeueSafe, RecoverLease
<1>11. ASSUME NEW t \in Task, NEW w \in Caller, ClaimMarksExpired(t, w) \/ StartMarksExpired(t, w)
       PROVE  Kept
  BY <1>5, <1>11 DEF ClaimMarksExpired, StartMarksExpired
<1>12. Kept \/ Changed
  <2>1. ASSUME \/ \E w \in Worker, enabled \in BOOLEAN : Register(w, enabled) \/ PatchWorker(w, enabled)
               \/ \E g \in Goal : PatchGoal(g)
               \/ \E t \in Task : RepairEvidence(t) \/ HygieneMetadata(t) \/ Requeue(t)
               \/ UNCHANGED vars
        PROVE  Kept
    BY <1>9, <2>1
       DEF vars, Register, PatchWorker, PatchGoal, RepairEvidence, HygieneMetadata, Requeue
  <2> QED
    BY <1>1, <1>2, <1>4, <1>6, <1>7, <1>8, <1>10, <1>11, <2>1 DEF Next, Caller
<1> QED BY <1>12 DEF Kept, Changed

\* Requeues are only forgotten when a task is created, and a task has some status ever after.
LEMMA RequeueSteps ==
  ASSUME TypeOK, ServerStep, NEW u \in Task
  PROVE  /\ requeues'[u] = 0 => requeues[u] = 0 \/ status[u] = "absent"
         /\ status'[u] = "absent" => status[u] = "absent" /\ requeues'[u] = requeues[u]
<1> USE DEF TypeOK, taskVars, workerVars
<1>1. ASSUME NEW t \in Task, NEW w \in Worker, Served(t, w)
      PROVE  requeues' = requeues /\ (status'[u] = "absent" => status[u] = "absent")
  BY <1>1 DEF Served, ClaimGrant, ClaimMarksExpired, StartRun, StartMarksExpired, Finish, Outcome
<1>2. ASSUME NEW t \in Task, Requeue(t) \/ RequeueSafe(t)
      PROVE  /\ requeues'[u] = 0 => requeues[u] = 0
             /\ status'[u] = "absent" => status[u] = "absent" /\ requeues'[u] = requeues[u]
  BY <1>2 DEF Requeue, RequeueSafe
<1>3. ASSUME NEW t \in Task, status[t] = "absent", CreateTask(t)
      PROVE  /\ requeues'[u] = 0 => requeues[u] = 0 \/ status[u] = "absent"
             /\ status'[u] = "absent" => status[u] = "absent" /\ requeues'[u] = requeues[u]
  BY <1>3 DEF CreateTask
<1>4. ASSUME UNCHANGED <<status, requeues>>
      PROVE  /\ requeues'[u] = 0 => requeues[u] = 0 \/ status[u] = "absent"
             /\ status'[u] = "absent" => status[u] = "absent" /\ requeues'[u] = requeues[u]
  BY <1>4
<1> QED
  BY <1>1, <1>2, <1>3, <1>4
     DEF ServerStep, Register, PatchWorker, Heartbeat, RecoverLease, Tick, vars

\* A process is past a claim of u because it was before, or because the claim is granted.
LEMMA NewlyClaimed ==
  ASSUME LoopInv, [EdgeNext]_allVars, NEW v \in Worker, NEW u \in Task,
         doing'[v] = u, at'[v] \in Claimed
  PROVE  (doing[v] = u /\ at[v] \in Claimed) \/ ClaimGrant(u, v)
<1>0. EdgeTypeOK /\ LoopShape
  BY DEF LoopInv
<1> DEFINE Before == doing[v] = u /\ at[v] \in Claimed
<1> USE NoneIsNobody DEF Claimed, OnTask, Step, Go, Keep, Decide, Leave
<1>1. ASSUME NEW w \in Worker, ClaimTask(w)
      PROVE  Before \/ ClaimGrant(u, v)
  <2>1. CASE Succeeds(CallOf(w, "claim")) /\ Go(w, "guarding") /\ Keep
    <3>1. ClaimGrant(doing[w], w)
      BY <2>1 DEF Succeeds, Granted, CallOf, Outcome
    <3>2. doing' = doing /\ (v # w => at'[v] = at[v])
      BY <1>0, <2>1 DEF EdgeTypeOK
    <3> QED BY <3>1, <3>2
  <2>2. CASE Leave(w, "idle")
    BY <1>0, <2>2 DEF EdgeTypeOK
  <2> QED BY <1>1, <2>1, <2>2 DEF ClaimTask
<1>2. ASSUME NEW w \in Worker,
             RegisterSelf(w) \/ BeatBeforePoll(w) \/ PollThrows(w) \/ Poll(w) \/ StartLoop(w) \/ EndLoop(w)
      PROVE  Before
  <2>1. at'[w] \notin Claimed
    BY <1>0, <1>2 DEF RegisterSelf, BeatBeforePoll, PollThrows, Poll, StartLoop, EndLoop, EdgeTypeOK
  <2>2. v # w => doing'[v] = doing[v] /\ at'[v] = at[v]
    BY <1>0, <1>2 DEF RegisterSelf, BeatBeforePoll, PollThrows, Poll, StartLoop, EndLoop, EdgeTypeOK
  <2> QED BY <2>1, <2>2
<1>3. ASSUME NEW w \in Worker,
             \/ Guard(w) \/ ReadLock(w) \/ MoveStaleLock(w) \/ WriteLock(w) \/ StartTask(w)
             \/ BeginRun(w) \/ RetryRun(w) \/ EndRun(w) \/ Report(w) \/ FailTask(w)
      PROVE  Before
  <2>1. at[w] \in Claimed /\ doing' = doing
    BY <1>3 DEF Guard, ReadLock, MoveStaleLock, WriteLock, StartTask, BeginRun, RetryRun, EndRun,
                Report, FailTask
  <2>2. v # w => at'[v] = at[v]
    BY <1>0, <1>3 DEF Guard, ReadLock, MoveStaleLock, WriteLock, StartTask, BeginRun, RetryRun,
                      EndRun, Report, FailTask, EdgeTypeOK
  <2> QED BY <2>1, <2>2
<1>4. ASSUME NEW w \in Worker, Clean(w) \/ ReadOwnLock(w) \/ RemoveLock(w) \/ Crash(w)
      PROVE  Before
  <2>1. \/ at[w] \in Claimed /\ doing' = doing /\ (v # w => at'[v] = at[v])
        \/ Leave(w, "idle") \/ Leave(w, "down")
    BY <1>0, <1>4 DEF Clean, ReadOwnLock, RemoveLock, Crash, EdgeTypeOK
  <2>2. CASE Leave(w, "idle") \/ Leave(w, "down")
    BY <1>0, <2>2 DEF EdgeTypeOK
  <2> QED BY <2>1, <2>2
<1>5. ASSUME UNCHANGED <<at, doing>>
      PROVE  Before
  BY <1>5
<1> QED
  <2> HIDE DEF Before, Claimed, OnTask, Step
  <2>1. CASE (\E w \in Worker : Keepalive(w)) \/ (\E c \in late : ServeLate(c))
             \/ Operate \/ Pass \/ UNCHANGED allVars
    <3>1. UNCHANGED <<at, doing>>
      BY <2>1 DEF Keepalive, ServeLate, Operate, Pass, allVars, edgeVars, loopVars
    <3> QED BY <3>1, <1>5 DEF Before
  <2>2. Before \/ ClaimGrant(u, v)
    BY <1>1, <1>2, <1>3, <1>4, <2>1 DEF EdgeNext, Advance, Before
  <2> QED BY <2>2 DEF Before
\* A call left under way was so before, or is sent by a process at work on its task.
LEMMA NewlyLate ==
  ASSUME LoopInv, [EdgeNext]_allVars, NEW c \in late', c.kind # "claim"
  PROVE  c \in late \/ (c.by \in Worker /\ doing[c.by] = c.task /\ at[c.by] \in Claimed)
<1> DEFINE Sent == c.by \in Worker /\ doing[c.by] = c.task /\ at[c.by] \in Claimed
<1>1. ASSUME NEW w \in Worker, NEW kind \in Outcome \cup {"claim", "start"},
             Throws(CallOf(w, kind)) \/ Succeeds(CallOf(w, kind))
      PROVE  c \in late \/ c = CallOf(w, kind)
  BY <1>1 DEF Throws, Succeeds
<1>2. ASSUME NEW w \in Worker, ClaimTask(w)
      PROVE  c \in late
  <2>1. c \in late \/ c = CallOf(w, "claim")
    BY <1>1, <1>2 DEF ClaimTask
  <2> QED BY <2>1 DEF CallOf
<1>3. ASSUME NEW w \in Worker, StartTask(w) \/ Report(w) \/ FailTask(w)
      PROVE  c \in late \/ Sent
  <2>1. at[w] \in Claimed
    BY <1>3 DEF StartTask, Report, FailTask, Claimed, OnTask, Step
  <2>2. \E kind \in Outcome \cup {"claim", "start"} :
          Throws(CallOf(w, kind)) \/ Succeeds(CallOf(w, kind))
    BY <1>3 DEF StartTask, Report, FailTask, LoopInv, LoopShape, Outcome
  <2>3. c \in late \/ \E kind \in Outcome \cup {"claim", "start"} : c = CallOf(w, kind)
    BY <1>1, <2>2
  <2> QED BY <2>1, <2>3 DEF CallOf
<1>4. ASSUME late' \subseteq late
      PROVE  c \in late
  BY <1>4
<1>5. ASSUME NEW w \in Worker,
             \/ RegisterSelf(w) \/ BeatBeforePoll(w) \/ PollThrows(w) \/ Poll(w) \/ Guard(w)
             \/ ReadLock(w) \/ MoveStaleLock(w) \/ WriteLock(w) \/ BeginRun(w) \/ RetryRun(w) \/ EndRun(w)
             \/ Clean(w) \/ ReadOwnLock(w) \/ RemoveLock(w) \/ StartLoop(w) \/ EndLoop(w)
             \/ Keepalive(w) \/ Crash(w)
      PROVE  late' = late
  BY <1>5 DEF RegisterSelf, BeatBeforePoll, PollThrows, Poll, Guard, ReadLock, MoveStaleLock,
              WriteLock, BeginRun, RetryRun, EndRun, Clean, ReadOwnLock, RemoveLock, StartLoop, EndLoop,
              Keepalive, Crash, edgeVars
<1>6. (\E d \in late : ServeLate(d)) \/ Operate \/ Pass \/ UNCHANGED allVars => late' \subseteq late
  BY DEF ServeLate, Operate, Pass, allVars, edgeVars
<1> QED
  <2> HIDE DEF Sent
  <2>1. c \in late \/ Sent
    BY <1>2, <1>3, <1>4, <1>5, <1>6 DEF EdgeNext, Advance
  <2> QED BY <2>1 DEF Sent

\* A task is finished by a process at work on it, or by a call that one left under way.
LEMMA Finishers ==
  ASSUME TypeOK, LoopInv, [EdgeNext]_allVars, NEW u \in Task,
         status'[u] \in Outcome, status'[u] # status[u]
  PROVE  \E w \in Worker :
           /\ \E what \in Outcome : Finish(u, w, what)
           /\ \/ doing[w] = u /\ at[w] \in Claimed
              \/ \E c \in late : c.task = u /\ c.by = w /\ c.kind # "claim"
<1>1. ASSUME NEW c \in Call, Granted(c) \/ Refused(c)
      PROVE  c.task = u /\ c.kind # "claim" /\ \E what \in Outcome : Finish(u, c.by, what)
  <2>1. CASE c.kind = "claim" /\ ClaimGrant(c.task, c.by)
    BY <2>1 DEF ClaimGrant, TypeOK, Outcome
  <2>2. CASE c.kind = "start" /\ StartRun(c.task, c.by)
    BY <2>2 DEF StartRun, TypeOK, Outcome
  <2>3. CASE c.kind \in Outcome /\ Finish(c.task, c.by, c.kind)
    BY <2>3 DEF Finish, TypeOK, Outcome
  <2>4. CASE Refused(c)
    BY <2>4 DEF Refused, ClaimMarksExpired, StartMarksExpired, vars, taskVars
  <2> QED BY <1>1, <2>1, <2>2, <2>3, <2>4 DEF Granted
<1>2. ASSUME NEW w \in Worker, ClaimTask(w) \/ StartTask(w) \/ Report(w) \/ FailTask(w)
      PROVE  doing[w] = u /\ at[w] \in Claimed /\ \E what \in Outcome : Finish(u, w, what)
  <2>1. doing[w] \in Task /\ at[w] \in OnTask
    BY <1>2 DEF ClaimTask, StartTask, Report, FailTask, OnTask, Step, LoopInv, LoopShape
  <2>2. PICK kind \in Outcome \cup {"claim", "start"} :
          /\ Throws(CallOf(w, kind)) \/ Succeeds(CallOf(w, kind))
          /\ at[w] = "claiming" <=> kind = "claim"
    BY <1>2 DEF ClaimTask, StartTask, Report, FailTask, LoopInv, LoopShape, Outcome
  <2>3. CallOf(w, kind) \in Call
    BY <2>1 DEF CallOf, Call
  <2>4. Granted(CallOf(w, kind)) \/ Refused(CallOf(w, kind))
    BY <2>2 DEF Throws, Succeeds, vars, taskVars
  <2> QED BY <1>1, <2>1, <2>2, <2>3, <2>4 DEF CallOf, Claimed
<1>3. ASSUME NEW w \in Worker,
             \/ RegisterSelf(w) \/ BeatBeforePoll(w) \/ PollThrows(w) \/ Poll(w) \/ Guard(w)
             \/ ReadLock(w) \/ MoveStaleLock(w) \/ WriteLock(w) \/ BeginRun(w) \/ RetryRun(w) \/ EndRun(w)
             \/ Clean(w) \/ ReadOwnLock(w) \/ RemoveLock(w) \/ StartLoop(w) \/ EndLoop(w)
             \/ Keepalive(w) \/ Crash(w)
      PROVE  FALSE
  BY <1>3 DEF RegisterSelf, BeatBeforePoll, PollThrows, Poll, Guard, ReadLock, MoveStaleLock,
              WriteLock, BeginRun, RetryRun, EndRun, Clean, ReadOwnLock, RemoveLock, StartLoop, EndLoop,
              Keepalive, Crash, Register, Heartbeat, vars, taskVars
<1>4. ASSUME NEW c \in late, ServeLate(c)
      PROVE  \E w \in Worker :
               /\ \E what \in Outcome : Finish(u, w, what)
               /\ \E d \in late : d.task = u /\ d.by = w /\ d.kind # "claim"
  <2>1. c \in Call /\ c.by \in Worker
    BY DEF LoopInv, EdgeTypeOK, Call
  <2> QED BY <1>1, <1>4, <2>1 DEF ServeLate
<1>5. ~Operate
  BY DEF Operate, CreateTask, Requeue, RequeueSafe, RecoverLease, PatchWorker, TypeOK, Outcome,
         taskVars
<1>6. ~Pass /\ ~UNCHANGED allVars
  BY DEF Pass, Tick, allVars, vars, taskVars
<1> QED BY <1>2, <1>3, <1>4, <1>5, <1>6 DEF EdgeNext, Advance

\* While nobody requeues it a task is claimed once: who holds its lease keeps holding it.
LEMMA HolderStays ==
  ASSUME MaxAttempts = 1, TypeOK, TypeOK', NoSilentRetry', [Next]_vars, NEW u \in Task,
         NEW w \in Worker, requeues'[u] = 0, Holds(w, u),
         status'[u] = "queued" => lease'[u].attempt >= lease[u].attempt
  PROVE  Holds(w, u)'
<1>1. lease[u].attempt \in Nat /\ lease'[u].attempt \in Nat
  BY DEF TypeOK, Lease
<1>2. lease'[u].attempt <= 1
  BY DEF NoSilentRetry
<1>3. lease[u].attempt >= 1 /\ lease[u].holder = w
  BY DEF Holds
<1>4. lease'[u].holder = lease[u].holder /\ lease'[u].attempt = lease[u].attempt
  BY <1>1, <1>2, <1>3, HolderSteps
<1> QED BY <1>3, <1>4 DEF Holds

\* No step takes a task that was never requeued out of the hands of its holder.
LEMMA HolderInvStep ==
  ASSUME MaxAttempts = 1, IInv, IInv', LoopInv, RunsAreClaimed, HolderInv, [EdgeNext]_allVars
  PROVE  HolderInv'
<1>1. ServerStep /\ TypeOK /\ TypeOK' /\ NoSilentRetry' /\ LeaseShape
  BY ServerSteps DEF IInv
<1>2. [Next]_vars
  BY <1>1, ClocksMayAgree DEF ServerStep, Served, Next, Caller, Outcome
<1>3. SUFFICES ASSUME NEW u \in Task
               PROVE  /\ requeues'[u] = 0 => Rightful(u)'
                      /\ status'[u] = "absent" => requeues'[u] = 0
  BY DEF HolderInv
<1>4. status'[u] = "absent" => requeues'[u] = 0
  BY <1>1, RequeueSteps DEF HolderInv
<1>5. SUFFICES ASSUME requeues'[u] = 0
               PROVE  Rightful(u)'
  BY <1>4
<1>6. requeues[u] = 0 /\ Rightful(u)
  <2>1. requeues[u] = 0 \/ status[u] = "absent"
    BY <1>1, <1>5, RequeueSteps
  <2>2. requeues[u] = 0
    BY <2>1 DEF HolderInv
  <2> QED BY <2>2 DEF HolderInv
<1>7. ASSUME NEW w \in Worker, Holds(w, u)
      PROVE  Holds(w, u)'
  <2>1. lease'[u].attempt >= lease[u].attempt
    BY <1>1, AttemptsGrow DEF RunsAreClaimed
  <2> QED BY <1>1, <1>2, <1>5, <1>7, <2>1, HolderStays
<1>8. ASSUME NEW w \in Worker, ClaimGrant(u, w)
      PROVE  Holds(w, u)'
  <2>1. lease[u] \in Lease /\ lease[u].attempt \in Nat
    BY <1>1 DEF TypeOK, Lease
  <2> QED BY <1>1, <1>8, <2>1 DEF ClaimGrant, BuildLease, Holds, TypeOK
<1>9. ASSUME NEW w \in Worker, doing'[w] = u, at'[w] \in Claimed
      PROVE  Holds(w, u)'
  BY <1>6, <1>7, <1>8, <1>9, NewlyClaimed DEF Rightful
<1>10. ASSUME NEW c \in late', c.task = u, c.kind # "claim"
       PROVE  Holds(c.by, u)'
  <2>1. c.by \in Worker
    <3>1. late \subseteq Call
      BY DEF LoopInv, EdgeTypeOK
    <3> QED BY <1>10, <3>1, NewlyLate DEF Call
  <2>2. Holds(c.by, u)
    BY <1>6, <1>10, <2>1, NewlyLate DEF Rightful
  <2> QED BY <1>7, <2>1, <2>2
<1>11. ASSUME status'[u] \in Outcome
       PROVE  ~IsActive(lease'[u])
  <2>1. CASE status'[u] = status[u]
    <3>1. ~IsActive(lease[u])
      BY <1>6, <1>11, <2>1 DEF Rightful
    <3>2. lease'[u].attempt = lease[u].attempt
      BY <1>1, <1>2, <1>11, HolderSteps DEF Outcome
    <3> QED BY <1>2, <3>1, <3>2, LeaseSteps DEF LeaseStep
  <2>2. CASE status'[u] # status[u]
    <3>1. PICK w \in Worker :
            /\ \E what \in Outcome : Finish(u, w, what)
            /\ \/ doing[w] = u /\ at[w] \in Claimed
               \/ \E c \in late : c.task = u /\ c.by = w /\ c.kind # "claim"
      BY <1>1, <1>11, <2>2, Finishers
    <3>2. Holds(w, u)
      BY <1>6, <3>1 DEF Rightful
    <3>3. lease[u].status # "none" /\ lease[u].holder = w
      BY <1>1, <3>2 DEF LeaseShape, Holds, TypeOK, Lease
    <3>4. lease'[u] = Released(lease[u], w)
      BY <1>1, <3>1, NoneIsNobody DEF Finish, ActingAs, TypeOK
    <3>5. Released(lease[u], w).status = "released"
      BY <1>1, <3>3 DEF Released, Ended, TypeOK, Lease
    <3>6. lease'[u].status = "released"
      BY <3>4, <3>5
    <3> QED BY <3>6 DEF IsActive
  <2> QED BY <2>1, <2>2
<1> QED BY <1>9, <1>10, <1>11 DEF Rightful

\* "Completing, failing or blocking a task releases the lease", and what comes before it is
\* one worker's: with the one attempt the code allows this is true of the shipped workers as
\* long as nobody requeues the task, whichever calls are lost or late and whoever dies.
THEOREM OneHolderHolds ==
  ASSUME MaxAttempts = 1
  PROVE  EdgeSpec => []OneHolderUntilRequeued
<1>1. EdgeInit => HolderInv
  BY DEF EdgeInit, Init, HolderInv, Rightful, Claimed, OnTask, Outcome
<1>2. EdgeSpec => [](IInv /\ LoopInv /\ RunsAreClaimed)
  <2>1. EdgeIInv => RunsAreClaimed
    BY DEF EdgeIInv
  <2> QED BY <2>1, QueuePromisesKept, LoopInvariance, EdgeInvariance, PTL
<1>3. HolderInv => OneHolderUntilRequeued
  BY DEF HolderInv, Rightful, Holds, Claimed, OneHolderUntilRequeued
<1> QED
  BY <1>1, <1>2, <1>3, HolderInvStep, PTL DEF EdgeSpec
=============================================================================
