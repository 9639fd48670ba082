----------------------------- MODULE TaskLease -----------------------------
(***************************************************************************)
(* The task queue of the SkyBridge server: tasks, the leases that workers  *)
(* hold on them, and the workers' liveness, as the handlers of             *)
(* apps/server/src/index.ts change them.                                   *)
(*                                                                         *)
(* The server is one Node process and its stores are synchronous, so one   *)
(* handler is one step.  Requests come from anybody, in any order, with    *)
(* any worker id: nothing here assumes well-behaved workers (EdgeWorker    *)
(* composes this module with the ones the repository ships).               *)
(*                                                                         *)
(* Time is relative.  A lease carries the ticks left until                 *)
(* lease_expires_at, a worker the ticks for which its newest heartbeat     *)
(* still counts as online; both count down to 0.                           *)
(***************************************************************************)
EXTENDS Integers, FiniteSets

CONSTANTS
  Task, Worker, Goal,
  None,            \* an absent worker id, goal id or lease holder
  GoalOf,          \* GoalOf[t]: the goal_id of task t, or None
  SafeToRequeue,   \* the tasks of low risk and of no blocked task_type
  LeaseTicks,      \* DEFAULT_TASK_LEASE_SECONDS (30 min), in ticks
  OnlineTicks,     \* the 2 min a heartbeat keeps a worker online, in ticks
  Skews,           \* how far a worker's seen_at runs ahead of (or, < 0, behind) the server
  MaxAttempts,     \* DEFAULT_TASK_MAX_ATTEMPTS
  RequeueBound     \* model bound: requeues of one task

ASSUME NoneIsNobody == None \notin Worker \cup Goal
ASSUME Parameters ==
  /\ GoalOf \in [Task -> Goal \cup {None}]
  /\ SafeToRequeue \subseteq Task
  /\ LeaseTicks \in Nat \ {0}
  /\ OnlineTicks \in Nat \ {0}
  /\ Skews \subseteq Int
  /\ MaxAttempts \in Nat \ {0}
  /\ RequeueBound \in Nat

ASSUME FiniteTasks == IsFiniteSet(Task)

VARIABLES
  status,      \* status[t]: the task's status, "absent" before it is created
  assigned,    \* assigned[t]: assigned_worker_id
  claim,       \* claim[t]: the worker of the claim record
  lease,       \* lease[t]: the lease record
  order,       \* order[t]: its place in listTasks(), newest updated_at first
  worker,      \* worker[w]: "absent", "enabled" or "disabled"
  onlineFor,   \* onlineFor[w]: ticks w still counts as online
  goalOpen,    \* goalOpen[g]: g is neither archived nor superseded
  requeues,    \* history: requeues of the task since it was created
  silence      \* history: ticks since w's last call about a task, capped

taskVars == <<status, assigned, claim, lease, order, requeues>>
workerVars == <<worker, onlineFor>>
vars == <<taskVars, workerVars, goalOpen, silence>>

-----------------------------------------------------------------------------
(* Data *)

\* "stale" and "cancelled" are declared by the server, but no handler sets them.
TaskStatus == {"queued", "claimed", "running", "completed", "failed",
               "blocked", "cancelled", "stale"}
LeaseStatus == {"none", "active", "released", "expired", "abandoned"}

Lease == [status: LeaseStatus, holder: Worker \cup {None},
          ttl: 0..LeaseTicks, attempt: Nat]

NoLease == [status |-> "none", holder |-> None, ttl |-> 0, attempt |-> 0]

\* A caller that leaves worker_id out of the body.
Caller == Worker \cup {None}

IsActive(l) == l.status = "active"
IsExpired(l) == IsActive(l) /\ l.ttl = 0
IsLive(l) == IsActive(l) /\ l.ttl > 0

BuildLease(t, w) ==
  [status |-> "active", holder |-> w, ttl |-> LeaseTicks,
   attempt |-> lease[t].attempt + 1]

\* Mutant: the new expiry counts from the old one instead of from now.
RefreshedFromExpiry(l, c) ==
  IF IsActive(l) /\ (c = None \/ l.holder = c)
  THEN [l EXCEPT !.ttl = @ + LeaseTicks] ELSE l

\* Mutant: refreshing forgets to ask whether the lease is still active.
RefreshedWhateverStatus(l, c) ==
  IF l.status # "none" /\ (c = None \/ l.holder = c)
  THEN [l EXCEPT !.status = "active", !.ttl = LeaseTicks] ELSE l

Refreshed(l, c) ==
  IF IsActive(l) /\ (c = None \/ l.holder = c)
  THEN [l EXCEPT !.ttl = LeaseTicks] ELSE l

\* The expiry time stays in the record, but nothing reads it of a lease that ended.
Ended(l, s) == [l EXCEPT !.status = s, !.ttl = 0]

\* Releasing does not look at the lease's status, only at its holder.
Released(l, c) ==
  IF l.status # "none" /\ (c = None \/ l.holder = c)
  THEN Ended(l, "released") ELSE l

MarkedExpired(l) == [l EXCEPT !.status = "expired"]

\* upsertTask stamps updated_at: the task moves to the front of listTasks().
Touch(t) ==
  order' = [u \in Task |-> IF u = t THEN 1
                           ELSE IF order[u] < order[t] THEN order[u] + 1
                           ELSE order[u]]

GoalAllows(t) == GoalOf[t] # None => goalOpen[GoalOf[t]]

\* The worker a call is attributed to: worker_id, else the assigned worker.
ActingAs(t, c) == IF c = None THEN assigned[t] ELSE c

HeardFrom(w) ==
  silence' = IF w = None THEN silence ELSE [silence EXCEPT ![w] = 0]

-----------------------------------------------------------------------------
(* Workers and goals *)

\* POST /v1/workers/register: an upsert that sets enabled from the body, whatever
\* an operator set before.
Register(w, enabled) ==
  /\ worker' = [worker EXCEPT ![w] = IF enabled THEN "enabled" ELSE "disabled"]
  /\ UNCHANGED <<taskVars, onlineFor, goalOpen, silence>>

\* PATCH /v1/workers/:workerId
PatchWorker(w, enabled) ==
  /\ worker[w] # "absent"
  /\ worker' = [worker EXCEPT ![w] = IF enabled THEN "enabled" ELSE "disabled"]
  /\ UNCHANGED <<taskVars, onlineFor, goalOpen, silence>>

\* Mutant: only running tasks are kept alive, a claimed one is forgotten.
HeldByRunning(w) == {t \in Task : /\ assigned[t] = w
                                  /\ status[t] = "running"
                                  /\ IsActive(lease[t])}

\* Mutant: the lease's holder decides, not the task's assignment and status.
HeldByLease(w) == {t \in Task : IsActive(lease[t]) /\ lease[t].holder = w}

\* The tasks of which a heartbeat of w may refresh the lease.
HeldBy(w) == {t \in Task : /\ assigned[t] = w
                           /\ status[t] \in {"claimed", "running"}
                           /\ IsActive(lease[t])}

\* refreshWorkerActiveLease: only the first such task of listTasks(), and without
\* asking whether its lease has run out.
RefreshWorkerActiveLease(w) ==
  \/ /\ HeldBy(w) = {}
     /\ UNCHANGED <<lease, order>>
  \/ \E t \in HeldBy(w) :
       /\ \A u \in HeldBy(w) : order[t] <= order[u]
       /\ lease' = [lease EXCEPT ![t] = Refreshed(lease[t], w)]
       /\ IF lease[t].holder = w THEN Touch(t) ELSE UNCHANGED order

\* POST /v1/workers/:workerId/heartbeat.  seen_at is the worker's own clock, and the
\* newest seen_at decides: one that runs ahead keeps the worker online for longer, one
\* that lags does not make it online, though the lease is refreshed all the same.
Heartbeat(w, skew) ==
  /\ worker[w] # "absent"
  /\ onlineFor' = [onlineFor EXCEPT ![w] =
                     IF @ > OnlineTicks + skew THEN @ ELSE OnlineTicks + skew]
  /\ RefreshWorkerActiveLease(w)
  /\ HeardFrom(w)
  /\ UNCHANGED <<status, assigned, claim, requeues, worker, goalOpen>>

\* presentWorker(...).status = "online"
Online(w) == worker[w] = "enabled" /\ onlineFor[w] > 0

\* PATCH /v1/goals/:goalId moving the goal into or out of archived and superseded.
PatchGoal(g) ==
  /\ goalOpen' = [goalOpen EXCEPT ![g] = ~@]
  /\ UNCHANGED <<taskVars, workerVars, silence>>

-----------------------------------------------------------------------------
(* Tasks *)

\* POST /v1/tasks: an upsert, so an existing task_id is replaced, lease and all.
CreateTask(t) ==
  /\ GoalAllows(t)
  /\ status' = [status EXCEPT ![t] = "queued"]
  /\ assigned' = [assigned EXCEPT ![t] = None]
  /\ claim' = [claim EXCEPT ![t] = None]
  /\ lease' = [lease EXCEPT ![t] = NoLease]
  /\ requeues' = [requeues EXCEPT ![t] = 0]
  /\ Touch(t)
  /\ UNCHANGED <<workerVars, goalOpen, silence>>

\* The checks of POST /v1/tasks/:taskId/claim before it looks at the lease.
ClaimAdmitted(t, w) ==
  /\ Online(w)
  /\ GoalAllows(t)
  /\ status[t] \in {"queued", "failed", "stale"}

\* Mutant: the active lease is overlooked.
ClaimableOverLease(t, w) ==
  /\ ClaimAdmitted(t, w)
  /\ lease[t].attempt < MaxAttempts \/ status[t] = "queued"

\* Mutant: the attempt limit is overlooked.
ClaimableWithoutLimit(t, w) == ClaimAdmitted(t, w) /\ ~IsActive(lease[t])

\* 200: the attempt limit binds a failed task but not a queued one.
Claimable(t, w) ==
  /\ ClaimAdmitted(t, w)
  /\ ~IsActive(lease[t])
  /\ lease[t].attempt < MaxAttempts \/ status[t] = "queued"

ClaimGrant(t, w) ==
  /\ Claimable(t, w)
  /\ status' = [status EXCEPT ![t] = "claimed"]
  /\ assigned' = [assigned EXCEPT ![t] = w]
  /\ claim' = [claim EXCEPT ![t] = w]
  /\ lease' = [lease EXCEPT ![t] = BuildLease(t, w)]
  /\ Touch(t)
  /\ HeardFrom(w)
  /\ UNCHANGED <<requeues, workerVars, goalOpen>>

\* 409 task_stale_lease: the refused claim itself marks the lease expired.
ClaimMarksExpired(t, w) ==
  /\ ClaimAdmitted(t, w)
  /\ IsExpired(lease[t])
  /\ lease' = [lease EXCEPT ![t] = MarkedExpired(@)]
  /\ Touch(t)
  /\ HeardFrom(w)
  /\ UNCHANGED <<status, assigned, claim, requeues, workerVars, goalOpen>>

\* Mutant: a completed task may be started again.
StartableUnlessCancelled(t) == status[t] \notin {"absent", "cancelled"}

Startable(t) == status[t] \notin {"absent", "completed", "cancelled"}

\* Mutant: the worker id of the lease is not compared.
MayStartWithoutHolderCheck(t, c) == Startable(t) /\ ~IsExpired(lease[t])

\* The lease is consulted only while it is active, and the status only to rule out
\* completed and cancelled tasks.
MayStart(t, c) ==
  /\ Startable(t)
  /\ ~IsExpired(lease[t])
  /\ IsActive(lease[t]) /\ ActingAs(t, c) # None
       => lease[t].holder = ActingAs(t, c)

\* POST /v1/tasks/:taskId/start
StartRun(t, c) ==
  /\ MayStart(t, c)
  /\ status' = [status EXCEPT ![t] = "running"]
  /\ assigned' = [assigned EXCEPT ![t] = ActingAs(t, c)]
  /\ lease' = [lease EXCEPT ![t] = Refreshed(lease[t], ActingAs(t, c))]
  /\ Touch(t)
  /\ HeardFrom(ActingAs(t, c))
  /\ UNCHANGED <<claim, requeues, workerVars, goalOpen>>

\* 409 task_stale_lease, checked before the worker id is.
StartMarksExpired(t, c) ==
  /\ Startable(t)
  /\ IsExpired(lease[t])
  /\ lease' = [lease EXCEPT ![t] = MarkedExpired(@)]
  /\ Touch(t)
  /\ HeardFrom(ActingAs(t, c))
  /\ UNCHANGED <<status, assigned, claim, requeues, workerVars, goalOpen>>

Finishable(t) == status[t] \notin {"absent", "completed", "cancelled"}

\* POST /v1/tasks/:taskId/{complete,fail,block}: nobody asks whether the caller holds
\* the task, and the lease is released only when the caller holds it.
Finish(t, c, outcome) ==
  /\ Finishable(t)
  /\ status' = [status EXCEPT ![t] = outcome]
  /\ assigned' = [assigned EXCEPT ![t] = ActingAs(t, c)]
  /\ lease' = [lease EXCEPT ![t] = Released(lease[t], ActingAs(t, c))]
  /\ Touch(t)
  /\ UNCHANGED <<claim, requeues, workerVars, goalOpen, silence>>

\* POST /v1/tasks/:taskId/evidence-repair rewrites the result, which is abstracted.
RepairEvidence(t) ==
  /\ status[t] # "absent"
  /\ Touch(t)
  /\ UNCHANGED <<status, assigned, claim, lease, requeues, workerVars, goalOpen, silence>>

\* POST /v1/tasks/:taskId/hygiene-metadata
HygieneMetadata(t) ==
  /\ status[t] \notin {"absent", "queued", "claimed", "running"}
  /\ Touch(t)
  /\ UNCHANGED <<status, assigned, claim, lease, requeues, workerVars, goalOpen, silence>>

\* POST /v1/tasks/:taskId/requeue: the lease stays as it is.
Requeue(t) ==
  /\ status[t] \notin {"absent", "completed", "cancelled"}
  /\ requeues[t] < RequeueBound
  /\ status' = [status EXCEPT ![t] = "queued"]
  /\ assigned' = [assigned EXCEPT ![t] = None]
  /\ claim' = [claim EXCEPT ![t] = None]
  /\ requeues' = [requeues EXCEPT ![t] = @ + 1]
  /\ Touch(t)
  /\ UNCHANGED <<lease, workerVars, goalOpen, silence>>

\* POST /v1/tasks/:taskId/lease-recovery, action release-stale or mark-abandoned: the
\* lease must have run out, or the task must no longer be queued, claimed or running.
RecoverLease(t, outcome) ==
  /\ lease[t].status \in {"active", "expired"}
  /\ \/ IsExpired(lease[t])
     \/ status[t] \notin {"queued", "claimed", "running"}
     \/ lease[t].status = "expired"
  /\ lease' = [lease EXCEPT ![t] = Ended(@, outcome)]
  /\ Touch(t)
  /\ UNCHANGED <<status, assigned, claim, requeues, workerVars, goalOpen, silence>>

\* The same route, action requeue-safe: it never asks whether the lease is stale.
RequeueSafe(t) ==
  /\ lease[t].status # "none"
  /\ t \in SafeToRequeue
  /\ status[t] \notin {"completed", "cancelled"}
  /\ requeues[t] < RequeueBound
  /\ status' = [status EXCEPT ![t] = "queued"]
  /\ assigned' = [assigned EXCEPT ![t] = None]
  /\ claim' = [claim EXCEPT ![t] = None]
  /\ lease' = [lease EXCEPT ![t] = Ended(@, "released")]
  /\ requeues' = [requeues EXCEPT ![t] = @ + 1]
  /\ Touch(t)
  /\ UNCHANGED <<workerVars, goalOpen, silence>>

-----------------------------------------------------------------------------
(* Time *)

\* Mutant: the countdown does not stop at 0.
DownWithoutFloor(n) == n - 1

Down(n) == IF n > 0 THEN n - 1 ELSE 0

Tick ==
  /\ lease' = [t \in Task |-> [lease[t] EXCEPT !.ttl = Down(@)]]
  /\ onlineFor' = [w \in Worker |-> Down(onlineFor[w])]
  /\ silence' = [w \in Worker |-> IF silence[w] < LeaseTicks THEN silence[w] + 1
                                  ELSE LeaseTicks]
  /\ UNCHANGED <<status, assigned, claim, order, requeues, worker, goalOpen>>

-----------------------------------------------------------------------------

Init ==
  /\ status = [t \in Task |-> "absent"]
  /\ assigned = [t \in Task |-> None]
  /\ claim = [t \in Task |-> None]
  /\ lease = [t \in Task |-> NoLease]
  /\ order = [t \in Task |-> Cardinality(Task) + 1]
  /\ worker = [w \in Worker |-> "absent"]
  /\ onlineFor = [w \in Worker |-> 0]
  /\ goalOpen = [g \in Goal |-> TRUE]
  /\ requeues = [t \in Task |-> 0]
  /\ silence = [w \in Worker |-> LeaseTicks]

Next ==
  \/ \E w \in Worker :
       \/ \E enabled \in BOOLEAN : Register(w, enabled) \/ PatchWorker(w, enabled)
       \/ \E skew \in Skews : Heartbeat(w, skew)
  \/ \E g \in Goal : PatchGoal(g)
  \/ \E t \in Task :
       \/ CreateTask(t) \/ RepairEvidence(t) \/ HygieneMetadata(t)
       \/ Requeue(t) \/ RequeueSafe(t)
       \/ \E w \in Worker : ClaimGrant(t, w) \/ ClaimMarksExpired(t, w)
       \/ \E c \in Caller : StartRun(t, c) \/ StartMarksExpired(t, c)
       \/ \E c \in Caller, outcome \in {"completed", "failed", "blocked"} :
            Finish(t, c, outcome)
       \/ \E outcome \in {"released", "abandoned"} : RecoverLease(t, outcome)
  \/ Tick

Spec == Init /\ [][Next]_vars

-----------------------------------------------------------------------------
(* Properties *)

\* Every variable ranges over the values the handlers can store.
TypeOK ==
  /\ status \in [Task -> (TaskStatus \ {"cancelled", "stale"}) \cup {"absent"}]
  /\ assigned \in [Task -> Caller]
  /\ claim \in [Task -> Caller]
  /\ lease \in [Task -> Lease]
  /\ order \in [Task -> Nat]
  /\ worker \in [Worker -> {"absent", "enabled", "disabled"}]
  /\ onlineFor \in [Worker -> Nat]
  /\ goalOpen \in [Goal -> BOOLEAN]
  /\ requeues \in [Task -> Nat]
  /\ silence \in [Worker -> 0..LeaseTicks]

\* A lease that is not active has no time left, and one that exists has a holder.
LeaseShape ==
  \A t \in Task :
    /\ ~IsActive(lease[t]) => lease[t].ttl = 0
    /\ lease[t].status # "none" => lease[t].holder \in Worker
    /\ lease[t].status = "none" => lease[t].attempt = 0

\* The task record and its lease never name two workers: a claimed task has one
\* worker in assigned_worker_id, claim and lease, and a running task under an active
\* lease is assigned to the lease's holder, unless a requeue emptied the field and
\* the start named nobody.
HolderAgrees ==
  \A t \in Task :
    /\ status[t] = "claimed" =>
         /\ lease[t].status # "none"
         /\ assigned[t] = lease[t].holder
         /\ claim[t] = lease[t].holder
    /\ status[t] = "running" /\ IsActive(lease[t]) =>
         assigned[t] \in {lease[t].holder, None}

\* What keeps NoSilentRetry going: a queued task still has an attempt in hand.
QueuedHasAttempt ==
  \A t \in Task :
    status[t] = "queued" => lease[t].attempt < requeues[t] + MaxAttempts

\* No retry without an operator: a task is never granted more often than MaxAttempts
\* (1 in this code) plus the times somebody requeued it, whatever workers send, in
\* whatever order leases expire, are recovered or released by the wrong worker.
NoSilentRetry ==
  \A t \in Task : lease[t].attempt <= requeues[t] + MaxAttempts

\* A worker that fell silent loses its authority in time: the lease on a task assigned
\* to its holder never has more time left than a full lease less the holder's silence.
LeaseTracksContact ==
  \A t \in Task :
    IsActive(lease[t]) /\ assigned[t] = lease[t].holder =>
      lease[t].ttl + silence[lease[t].holder] <= LeaseTicks

\* A worker that keeps in touch keeps its lease: when there is a single task, each call
\* of the holder of a claimed or running task gives the lease its full term again.  (With
\* two tasks a heartbeat refreshes only the one at the front of listTasks().)
KeepaliveHoldsLease ==
  \A t \in Task :
    /\ Task = {t}
    /\ status[t] \in {"claimed", "running"}
    /\ IsActive(lease[t])
    /\ assigned[t] = lease[t].holder
    => lease[t].ttl + silence[lease[t].holder] = LeaseTicks

\* The conjunction that every step preserves.
IInv == /\ TypeOK /\ LeaseShape /\ HolderAgrees
        /\ QueuedHasAttempt /\ NoSilentRetry /\ LeaseTracksContact

\* A lease that was released, marked expired or abandoned is never active again: late
\* heartbeats and starts of its holder do not resurrect it, only a new claim (a new
\* attempt) makes a new one.
EndedLeaseStaysEnded ==
  [][\A t \in Task :
       /\ lease[t].status \in {"released", "expired", "abandoned"}
       /\ lease'[t].attempt = lease[t].attempt
       => ~IsActive(lease'[t])]_vars

\* A completed task stays completed, against late starts, failures, requeues and
\* recoveries of its leftover lease; only creating the task_id anew replaces it.
CompletedIsFinal ==
  [][\A t \in Task :
       status[t] = "completed" /\ status'[t] # "completed"
       => status'[t] = "queued" /\ lease'[t] = NoLease]_vars

\* A queued task comes free by itself: a lease that is still active, of the worker it was
\* requeued from, is prolonged by nobody, and time wears it off.
QueuedComesFree ==
  [][\A t \in Task :
       status[t] = "queued" /\ status'[t] = "queued" =>
         /\ IsActive(lease'[t]) => IsActive(lease[t]) /\ lease'[t].ttl <= lease[t].ttl
         /\ Tick => lease'[t].ttl = Down(lease[t].ttl)]_vars

\* A worker keeps one lease alive at a time: of two tasks it holds, the one further down in
\* listTasks() gets no time from its heartbeats, which keep the other one in front.  Only a
\* start of its own prolongs it, and puts it in front.
OnlyFrontIsKept ==
  [][\A w \in Worker : \A t, u \in HeldBy(w) :
       order[t] < order[u] /\ order'[t] < order'[u] => lease'[u].ttl <= lease[u].ttl]_vars

\* The worker that may execute t: the holder of a lease that is active and not run out.
Authority == [t \in Task |-> IF IsLive(lease[t]) THEN lease[t].holder ELSE None]

Abstract == INSTANCE LeaseAuthority WITH holder <- Authority

\* The queue hands a task from one worker to another only through a moment at which
\* nobody may execute it: LeaseAuthority is implemented.
AuthorityRefined == Abstract!Spec

-----------------------------------------------------------------------------
(* Liveness *)

\* Time passes.  Nothing else is fair: a worker loop that is refused a claim takes it for an
\* exception, pauses the project and ends (LoopControl), so nobody need come back.
FairSpec == Spec /\ WF_vars(Tick)

\* A lease that is left over, on a task that was requeued under it or that another finished,
\* comes to its end although no request ends it: no heartbeat prolongs it, whoever sends
\* them and however often, unless the task is claimed or started again.
LeftoverRunsOut ==
  \A t \in Task :
    IsLive(lease[t]) /\ status[t] \notin {"claimed", "running"}
      ~> ~IsLive(lease[t]) \/ status[t] \in {"claimed", "running"}

\* Violated: "Completing, failing or blocking a task releases the lease."
FinishedTaskHasNoLease ==
  \A t \in Task :
    status[t] \in {"completed", "failed", "blocked"} => ~IsActive(lease[t])

=============================================================================
