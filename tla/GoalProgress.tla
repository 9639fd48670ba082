---------------------------- MODULE GoalProgress ----------------------------
(***************************************************************************)
(* One goal of the registry, the tasks linked to it, and the records the   *)
(* server derives from them: the goal's progress_summary and               *)
(* evidence_summary, the task_events of each task and the event log.       *)
(*                                                                         *)
(* A request about a task writes the task, then the goal's progress, then  *)
(* the task event, then the stored event.                                  *)
(*                                                                         *)
(* Leases and workers do not matter here (see TaskLease), so their guards  *)
(* are left out: more requests are accepted than the server accepts.       *)
(***************************************************************************)
EXTENDS Records, FiniteSets

CONSTANTS
  LinkedTask,
  Evidence,      \* evidence summaries
  MaxRequests    \* model bound: requests about tasks

ASSUME GoalParameters ==
  /\ IsFiniteSet(LinkedTask)
  /\ None \notin Evidence \cup LinkedTask
  /\ MaxRequests \in Nat

VARIABLES
  status,       \* status[t], "absent" while t is no task of this goal
  evidence,     \* evidence[t]: result.evidence_summary
  updated,      \* updated[t]: updated_at, as the number of the request
  goal,         \* the goal's record
  goalHandler,  \* what the request being served still has to write
  requests,     \* the number of the newest request: the clock
  goalCrashes,  \* history: how often the process died
  wrote         \* history: how many records of each kind t has

goalVars == <<status, evidence, updated, goal, goalHandler, requests, goalCrashes, wrote>>

-----------------------------------------------------------------------------
(* Data *)

\* "archived" stands for superseded too: neither takes new tasks.  The statuses the
\* handlers treat alike are left out.
GoalStatus == {"draft", "active", "partially_completed", "completed", "archived"}

LinkedStatus == {"absent", "queued", "running", "completed", "failed", "blocked"}

OptionalEvidence == Evidence \cup {None}

InStatus(s) == Cardinality({t \in LinkedTask : status[t] = s})

\* summarizeGoalTasks, of which progress_summary keeps these counts.
SummarizeGoalTasks ==
  [total |-> Cardinality({t \in LinkedTask : status[t] # "absent"}),
   queued |-> InStatus("queued"), running |-> InStatus("running"),
   completed |-> InStatus("completed"), failed |-> InStatus("failed"),
   blocked |-> InStatus("blocked"),
   evidence |-> Cardinality({t \in LinkedTask : evidence[t] # None})]

WithEvidence == {t \in LinkedTask : evidence[t] # None}

\* latest_evidence is evidence.at(-1) of listTasks(), which is sorted newest first.
LatestEvidence ==
  IF WithEvidence = {} THEN None
  ELSE evidence[CHOOSE t \in WithEvidence :
                  \A u \in WithEvidence : updated[t] <= updated[u]]

NothingPending == goalHandler.next = "idle"

\* The rule of parseGoalMetadata for completed goals.
MayBeCompleted(note, e) == note \/ e # None

-----------------------------------------------------------------------------
(* Requests about tasks: each stores the task and leaves the rest to do *)

\* upsertTask, with what its handler writes after it.
StoreTask(t, s, e, next) ==
  /\ NothingPending
  /\ requests < MaxRequests
  /\ requests' = requests + 1
  /\ status' = [status EXCEPT ![t] = s]
  /\ evidence' = [evidence EXCEPT ![t] = e]
  /\ updated' = [updated EXCEPT ![t] = requests + 1]
  /\ wrote' = [wrote EXCEPT ![t].task = @ + 1]
  /\ goalHandler' = [task |-> t, next |-> next]
  /\ UNCHANGED <<goal, goalCrashes>>

\* POST /v1/tasks with this goal_id; an existing task_id is replaced.
CreateLinkedTask(t) ==
  /\ goal.status # "archived"
  /\ StoreTask(t, "queued", None, "trail")

\* POST /v1/tasks with the id of a task of this goal under another goal_id or none: the
\* record that replaces it is no task of this goal, whose progress nobody brings up to date.
PostTaskElsewhere(t) ==
  /\ status[t] # "absent"
  /\ StoreTask(t, "absent", None, "trail")

\* POST /v1/tasks/:taskId/claim and start.
RunTask(t) ==
  /\ status[t] \notin {"absent", "completed"}
  /\ StoreTask(t, "running", evidence[t], "trail")

\* POST /v1/tasks/:taskId/requeue: the result of the last run stays in the record.
RequeueTask(t) ==
  /\ status[t] \notin {"absent", "completed"}
  /\ StoreTask(t, "queued", evidence[t], "trail")

\* finishTask: the result is replaced, evidence included.
FinishTask(t, outcome, e) ==
  /\ status[t] \notin {"absent", "completed"}
  /\ StoreTask(t, outcome, e, "progress")

\* POST /v1/tasks/:taskId/evidence-repair
RepairTaskEvidence(t, e) ==
  /\ status[t] # "absent"
  /\ e # None
  /\ StoreTask(t, status[t], e, "progress")

\* POST /v1/tasks/:taskId/hygiene-metadata
TouchTask(t) ==
  /\ status[t] \notin {"absent", "queued", "running"}
  /\ StoreTask(t, status[t], evidence[t], "trail")

-----------------------------------------------------------------------------
(* The writes that follow *)

\* Mutant: the summary is kept up to date by adding to it.
AddToProgress(g) ==
  [g EXCEPT !.progress = IF @ = None THEN [counts |-> SummarizeGoalTasks, at |-> requests]
                         ELSE [counts |-> [@.counts EXCEPT
                                 !.completed = @ + IF status[goalHandler.task] = "completed"
                                                   THEN 1 ELSE 0],
                               at |-> requests]]

\* Mutant: without evidence of a task the goal loses the evidence it had.
OverwriteEvidence(g) ==
  [g EXCEPT !.progress = [counts |-> SummarizeGoalTasks, at |-> requests],
            !.evidence = LatestEvidence]

\* updateGoalProgress: everything is counted again from the tasks.
UpdateGoalProgress(g) ==
  [g EXCEPT !.progress = [counts |-> SummarizeGoalTasks, at |-> requests],
            !.evidence = IF LatestEvidence = None THEN @ ELSE LatestEvidence,
            !.status = IF @ = "active" /\ InStatus("completed") > 0
                       THEN "partially_completed" ELSE @]

\* Mutant: the goal is brought up to date when the event is out already, which is
\* written once more.
WriteProgressAndEvent ==
  /\ goalHandler.next = "progress"
  /\ goal' = UpdateGoalProgress(goal)
  /\ wrote' = [wrote EXCEPT ![goalHandler.task].log = @ + 1]
  /\ goalHandler' = [goalHandler EXCEPT !.next = "trail"]
  /\ UNCHANGED <<status, evidence, updated, requests, goalCrashes>>

WriteProgress ==
  /\ goalHandler.next = "progress"
  /\ goal' = UpdateGoalProgress(goal)
  /\ goalHandler' = [goalHandler EXCEPT !.next = "trail"]
  /\ UNCHANGED <<status, evidence, updated, requests, goalCrashes, wrote>>

\* recordTaskEvent, its first half: the task_events row.
WriteTaskEvent ==
  /\ goalHandler.next = "trail"
  /\ wrote' = [wrote EXCEPT ![goalHandler.task].trail = @ + 1]
  /\ goalHandler' = [goalHandler EXCEPT !.next = "log"]
  /\ UNCHANGED <<status, evidence, updated, goal, requests, goalCrashes>>

\* Its second half: addStoredEvent.
WriteStoredEvent ==
  /\ goalHandler.next = "log"
  /\ wrote' = [wrote EXCEPT ![goalHandler.task].log = @ + 1]
  /\ goalHandler' = [goalHandler EXCEPT !.next = "idle"]
  /\ UNCHANGED <<status, evidence, updated, goal, requests, goalCrashes>>

\* The process dies (or the store throws) in the middle of a request.
Interrupt ==
  /\ ~NothingPending
  /\ goalCrashes < MaxCrashes
  /\ goalCrashes' = goalCrashes + 1
  /\ goalHandler' = [goalHandler EXCEPT !.next = "idle"]
  /\ UNCHANGED <<status, evidence, updated, goal, requests, wrote>>

-----------------------------------------------------------------------------
(* Requests about the goal *)

\* PATCH /v1/goals/:goalId: a field left out keeps its value, null clears it.
PatchGoalRecord(s, note, e) ==
  /\ NothingPending
  /\ s = "completed" => MayBeCompleted(note, e)
  /\ goal' = [goal EXCEPT !.status = s, !.note = note, !.evidence = e]
  /\ UNCHANGED <<status, evidence, updated, goalHandler, requests, goalCrashes, wrote>>

\* POST /v1/projects/:projectId/goals with the same goal_id: the record starts over.
ReplaceGoal(s, note, e) ==
  /\ NothingPending
  /\ s = "completed" => MayBeCompleted(note, e)
  /\ goal' = [status |-> s, note |-> note, evidence |-> e, progress |-> None]
  /\ UNCHANGED <<status, evidence, updated, goalHandler, requests, goalCrashes, wrote>>

-----------------------------------------------------------------------------
GoalInit ==
  /\ status = [t \in LinkedTask |-> "absent"]
  /\ evidence = [t \in LinkedTask |-> None]
  /\ updated = [t \in LinkedTask |-> 0]
  /\ goal \in [status: {"draft", "active"}, note: {FALSE}, evidence: {None}, progress: {None}]
  /\ goalHandler = [task |-> None, next |-> "idle"]
  /\ requests = 0
  /\ goalCrashes = 0
  /\ wrote = [t \in LinkedTask |-> [task |-> 0, trail |-> 0, log |-> 0]]

TaskRequest ==
  \E t \in LinkedTask :
    \/ CreateLinkedTask(t) \/ PostTaskElsewhere(t)
    \/ RunTask(t) \/ RequeueTask(t) \/ TouchTask(t)
    \/ \E e \in OptionalEvidence :
         \/ RepairTaskEvidence(t, e)
         \/ \E outcome \in {"completed", "failed", "blocked"} : FinishTask(t, outcome, e)

GoalRequest ==
  \E s \in GoalStatus, note \in BOOLEAN, e \in OptionalEvidence :
    PatchGoalRecord(s, note, e) \/ ReplaceGoal(s, note, e)

GoalNext ==
  TaskRequest \/ GoalRequest \/ WriteProgress \/ WriteTaskEvent \/ WriteStoredEvent \/ Interrupt

GoalSpec == GoalInit /\ [][GoalNext]_goalVars

-----------------------------------------------------------------------------
(* Properties *)

Count == 0..Cardinality(LinkedTask)

Counts == [total: Count, queued: Count, running: Count, completed: Count,
           failed: Count, blocked: Count, evidence: Count]

Progress == [counts: Counts, at: 0..MaxRequests]

\* The state has the shape the handlers give it.
GoalTypeOK ==
  /\ status \in [LinkedTask -> LinkedStatus]
  /\ evidence \in [LinkedTask -> OptionalEvidence]
  /\ updated \in [LinkedTask -> 0..MaxRequests]
  /\ goal \in [status: GoalStatus, note: BOOLEAN, evidence: OptionalEvidence,
               progress: Progress \cup {None}]
  /\ goalHandler \in [task: LinkedTask \cup {None}, next: {"idle", "progress", "trail", "log"}]
  /\ goalHandler.task = None => NothingPending
  /\ requests \in 0..MaxRequests
  /\ goalCrashes \in 0..MaxCrashes
  /\ wrote \in [LinkedTask -> [task: Nat, trail: Nat, log: Nat]]

\* A progress summary as new as the last change of every task that is or was the goal's
\* counts exactly the tasks there are: an update lost in a crash, or never made, as when a
\* task is posted away to another goal and stays counted, is made good by the next one,
\* because updateGoalProgress counts again instead of adding.
ProgressIsCurrent ==
  (goal.progress # None /\ \A t \in LinkedTask : updated[t] <= goal.progress.at)
    => goal.progress.counts = SummarizeGoalTasks

\* parseGoalMetadata demands a note or evidence of a completed goal; finishing or
\* repairing tasks of that goal afterwards never takes the last of them away.
CompletedGoalHasReason ==
  goal.status = "completed" => MayBeCompleted(goal.note, goal.evidence)

\* What is told of a task has happened: every event in the log is in the task's trail,
\* every record of the trail is of a stored change, and of these changes only those
\* that a crash cut short, or the one being served, are missing.
TrailFollowsTask ==
  \A t \in LinkedTask :
    /\ wrote[t].log <= wrote[t].trail
    /\ wrote[t].trail <= wrote[t].task
    /\ wrote[t].task <= wrote[t].log + goalCrashes + (IF NothingPending THEN 0 ELSE 1)

\* GOAL_REGISTRY_RUNBOOK.md: a goal's detail includes "the latest `evidence_summary` when
\* task evidence exists", so the update that follows a finish or a repair with evidence puts
\* that evidence into the goal.
EvidenceIsLatest ==
  [][(goalHandler.next = "progress" /\ goalHandler'.next = "trail"
       /\ evidence[goalHandler.task] # None)
     => goal'.evidence = evidence[goalHandler.task]]_goalVars
=============================================================================
