------------------------- MODULE GoalProgressProofs -------------------------
(***************************************************************************)
(* Theorems about a goal and the records made of its tasks, for any finite *)
(* set of tasks, any evidence and any number of requests and crashes.  The *)
(* trail needs to know, per task, which write the request under way has    *)
(* reached (Underway); the progress that its number is not ahead of time.  *)
(* That the counts of a summary add up is a fact about cardinalities.      *)
(***************************************************************************)
EXTENDS GoalProgress, FiniteSetTheorems, WellFoundedInduction, TLAPS

\* The request under way is about t.
Serving(t) == goalHandler.task = t /\ ~NothingPending

\* How far the records of each task have got.
Underway ==
  \A t \in LinkedTask :
    /\ wrote[t].log <= wrote[t].trail
    /\ wrote[t].trail <= wrote[t].task
    /\ wrote[t].task <= wrote[t].log + goalCrashes + (IF Serving(t) THEN 1 ELSE 0)
    /\ Serving(t) /\ goalHandler.next \in {"progress", "trail"} => wrote[t].trail < wrote[t].task
    /\ Serving(t) /\ goalHandler.next = "log" => wrote[t].log < wrote[t].trail

\* A progress summary is of a request there was, and counts its tasks while none of them
\* has changed.
ProgressInv ==
  /\ goal.progress # None => goal.progress.at <= requests
  /\ ProgressIsCurrent

\* The inductive invariant.
GoalInv == GoalTypeOK /\ Underway /\ ProgressInv /\ CompletedGoalHasReason

-----------------------------------------------------------------------------
(* Operators *)

\* Any set of tasks is counted.
LEMMA CountType ==
  ASSUME NEW S \in SUBSET LinkedTask
  PROVE  Cardinality(S) \in Count
<1>1. /\ IsFiniteSet(S) /\ Cardinality(S) \in Nat
      /\ Cardinality(LinkedTask) \in Nat /\ Cardinality(S) <= Cardinality(LinkedTask)
  BY GoalParameters, FS_Subset, FS_CardinalityType
<1> QED
  BY <1>1 DEF Count

\* The summary of a goal's tasks consists of counts.
LEMMA SummaryType == SummarizeGoalTasks \in Counts
<1>1. \A s : InStatus(s) \in Count
  BY CountType DEF InStatus
<1>2. /\ Cardinality({t \in LinkedTask : status[t] # "absent"}) \in Count
      /\ Cardinality({t \in LinkedTask : evidence[t] # None}) \in Count
  BY CountType
<1> HIDE DEF Count
<1> QED
  BY <1>1, <1>2 DEF SummarizeGoalTasks, Counts

\* The tasks in two different statuses are counted apart.
LEMMA CountsDisjoint ==
  ASSUME NEW S \in SUBSET LinkedTask, NEW T \in SUBSET LinkedTask, S \cap T = {}
  PROVE  Cardinality(S \cup T) = Cardinality(S) + Cardinality(T)
<1>1. IsFiniteSet(S) /\ IsFiniteSet(T)
  BY GoalParameters, FS_Subset
<1>2. Cardinality(S \cup T) = Cardinality(S) + Cardinality(T) - Cardinality(S \cap T)
  BY <1>1, FS_Union
<1>3. Cardinality(S \cap T) = 0
  BY FS_EmptySet
<1>4. Cardinality(S) \in Nat /\ Cardinality(T) \in Nat
  BY <1>1, FS_CardinalityType
<1> QED BY <1>2, <1>3, <1>4

\* The statuses of a summary share the tasks out among them.
AddsUp(c) == c.total = c.queued + c.running + c.completed + c.failed + c.blocked

LEMMA SummaryAddsUp ==
  ASSUME status \in [LinkedTask -> LinkedStatus]
  PROVE  AddsUp(SummarizeGoalTasks)
<1> DEFINE In(s) == {t \in LinkedTask : status[t] = s}
           All == {t \in LinkedTask : status[t] # "absent"}
<1>1. All = (((In("queued") \cup In("running")) \cup In("completed")) \cup In("failed"))
              \cup In("blocked")
  BY DEF LinkedStatus
<1>2. Cardinality(In("queued") \cup In("running"))
        = Cardinality(In("queued")) + Cardinality(In("running"))
  BY CountsDisjoint
<1>3. Cardinality((In("queued") \cup In("running")) \cup In("completed"))
        = Cardinality(In("queued") \cup In("running")) + Cardinality(In("completed"))
  BY CountsDisjoint
<1>4. Cardinality(((In("queued") \cup In("running")) \cup In("completed")) \cup In("failed"))
        = Cardinality((In("queued") \cup In("running")) \cup In("completed"))
            + Cardinality(In("failed"))
  BY CountsDisjoint
<1>5. Cardinality(All)
        = Cardinality(((In("queued") \cup In("running")) \cup In("completed")) \cup In("failed"))
            + Cardinality(In("blocked"))
  BY <1>1, CountsDisjoint
<1>6. /\ SummarizeGoalTasks.total = Cardinality(All)
      /\ SummarizeGoalTasks.queued = Cardinality(In("queued"))
      /\ SummarizeGoalTasks.running = Cardinality(In("running"))
      /\ SummarizeGoalTasks.completed = Cardinality(In("completed"))
      /\ SummarizeGoalTasks.failed = Cardinality(In("failed"))
      /\ SummarizeGoalTasks.blocked = Cardinality(In("blocked"))
  BY DEF SummarizeGoalTasks, InStatus
<1> QED BY <1>2, <1>3, <1>4, <1>5, <1>6 DEF AddsUp

\* The evidence chosen for the goal is that of a task, or none: among numbers there is a
\* smallest one.
LEMMA LatestType ==
  ASSUME evidence \in [LinkedTask -> OptionalEvidence],
         updated \in [LinkedTask -> 0..MaxRequests]
  PROVE  LatestEvidence \in OptionalEvidence
<1>1. CASE WithEvidence = {}
  BY <1>1 DEF LatestEvidence, OptionalEvidence
<1>2. CASE WithEvidence # {}
  <2> DEFINE times == {updated[t] : t \in WithEvidence}
  <2>1. times \subseteq Nat /\ times # {}
    BY <1>2, GoalParameters DEF WithEvidence
  <2>2. PICK n \in times : \A m \in times : <<m, n>> \notin OpToRel(<, Nat)
    <3> HIDE DEF times
    <3> QED
      BY <2>1, NatLessThanWellFounded, WFMin
  <2>3. \A m \in times : n <= m
    <3> SUFFICES ASSUME NEW m \in times
                 PROVE  n <= m
      OBVIOUS
    <3>1. m \in Nat /\ n \in Nat
      BY <2>1
    <3>2. ~(m < n)
      BY <2>2, <3>1 DEF OpToRel
    <3> QED
      BY <3>1, <3>2
  <2>4. \E t \in WithEvidence : \A u \in WithEvidence : updated[t] <= updated[u]
    BY <2>3
  <2>5. LatestEvidence \in {evidence[t] : t \in WithEvidence}
    BY <1>2, <2>4 DEF LatestEvidence
  <2> QED
    BY <2>5 DEF WithEvidence
<1> QED
  BY <1>1, <1>2

\* What updateGoalProgress makes of a goal.
LEMMA UpdatedGoal ==
  ASSUME GoalTypeOK
  PROVE  LET g == UpdateGoalProgress(goal)
         IN  /\ g \in [status: GoalStatus, note: BOOLEAN, evidence: OptionalEvidence,
                       progress: Progress \cup {None}]
             /\ g.note = goal.note
             /\ goal.evidence # None => g.evidence # None
             /\ g.status = "completed" => goal.status = "completed"
             /\ g.progress = [counts |-> SummarizeGoalTasks, at |-> requests]
<1> DEFINE S == IF goal.status = "active" /\ InStatus("completed") > 0
                THEN "partially_completed" ELSE goal.status
           E == IF LatestEvidence = None THEN goal.evidence ELSE LatestEvidence
           P == [counts |-> SummarizeGoalTasks, at |-> requests]
<1>1. S \in GoalStatus /\ (S = "completed" => goal.status = "completed")
  BY DEF GoalTypeOK, GoalStatus
<1>2. E \in OptionalEvidence /\ (goal.evidence # None => E # None)
  BY LatestType DEF GoalTypeOK
<1>3. P \in Progress \cup {None}
  BY SummaryType DEF GoalTypeOK, Progress
<1>4. UpdateGoalProgress(goal)
        = [goal EXCEPT !.progress = P, !.evidence = E, !.status = S]
  BY DEF GoalTypeOK, UpdateGoalProgress
<1> HIDE DEF S, E, P
<1>5. goal \in [status: GoalStatus, note: BOOLEAN, evidence: OptionalEvidence,
                progress: Progress \cup {None}]
  BY DEF GoalTypeOK
<1>6. [goal EXCEPT !.progress = P, !.evidence = E, !.status = S]
        \in [status: GoalStatus, note: BOOLEAN, evidence: OptionalEvidence,
             progress: Progress \cup {None}]
  BY <1>1, <1>2, <1>3, <1>5
<1> QED
  BY <1>1, <1>2, <1>4, <1>5, <1>6 DEF P

-----------------------------------------------------------------------------
(* Steps *)

LEMMA InitGoalInv == GoalInit => GoalInv
<1> SUFFICES ASSUME GoalInit
             PROVE  GoalInv
  OBVIOUS
<1>1. GoalTypeOK
  <2>1. goal \in [status: GoalStatus, note: BOOLEAN, evidence: OptionalEvidence,
                  progress: Progress \cup {None}]
    BY DEF GoalInit, GoalStatus, OptionalEvidence
  <2> QED
    BY <2>1, GoalParameters, RecordsParameters
       DEF GoalInit, GoalTypeOK, LinkedStatus, OptionalEvidence, NothingPending
<1>2. Underway
  BY DEF GoalInit, Underway, Serving, NothingPending
<1>3. ProgressInv /\ CompletedGoalHasReason
  BY DEF GoalInit, ProgressInv, ProgressIsCurrent, CompletedGoalHasReason
<1> QED
  BY <1>1, <1>2, <1>3 DEF GoalInv

\* Storing a task makes it newer than the progress there is, and the request about it
\* the one under way.
LEMMA StoreKeeps ==
  ASSUME GoalInv, NEW t \in LinkedTask, NEW s \in LinkedStatus, NEW e \in OptionalEvidence,
         NEW next \in {"progress", "trail"}, StoreTask(t, s, e, next)
  PROVE  GoalInv'
<1>1. requests \in Nat /\ requests' = requests + 1 /\ requests' \in 0..MaxRequests
  BY GoalParameters DEF GoalInv, GoalTypeOK, StoreTask
<1>2. /\ wrote' \in [LinkedTask -> [task: Nat, trail: Nat, log: Nat]]
      /\ wrote'[t].task = wrote[t].task + 1
      /\ wrote'[t].trail = wrote[t].trail /\ wrote'[t].log = wrote[t].log
      /\ \A u \in LinkedTask \ {t} : wrote'[u] = wrote[u]
  BY DEF GoalInv, GoalTypeOK, StoreTask
<1>3. /\ status' \in [LinkedTask -> LinkedStatus] /\ evidence' \in [LinkedTask -> OptionalEvidence]
      /\ updated' \in [LinkedTask -> 0..MaxRequests] /\ updated'[t] = requests + 1
  BY <1>1 DEF GoalInv, GoalTypeOK, StoreTask
<1>4. /\ goalHandler' = [task |-> t, next |-> next] /\ NothingPending
      /\ UNCHANGED <<goal, goalCrashes>>
  BY DEF StoreTask
<1>5. GoalTypeOK'
  BY <1>1, <1>2, <1>3, <1>4, GoalParameters DEF GoalInv, GoalTypeOK
<1>6. Underway'
  BY <1>2, <1>4 DEF GoalInv, GoalTypeOK, Underway, Serving, NothingPending
<1>7. ProgressInv'
  <2>1. goal.progress # None => goal.progress.at \in Nat /\ goal.progress.at <= requests
    BY GoalParameters DEF GoalInv, GoalTypeOK, Progress, ProgressInv
  <2> QED
    BY <1>1, <1>3, <1>4, <2>1 DEF ProgressInv, ProgressIsCurrent
<1>8. CompletedGoalHasReason'
  BY <1>4 DEF GoalInv, CompletedGoalHasReason
<1> QED
  BY <1>5, <1>6, <1>7, <1>8 DEF GoalInv

LEMMA TaskRequestKeeps ==
  ASSUME GoalInv, TaskRequest
  PROVE  GoalInv'
<1>1. PICK t \in LinkedTask :
        \/ CreateLinkedTask(t) \/ PostTaskElsewhere(t)
        \/ RunTask(t) \/ RequeueTask(t) \/ TouchTask(t)
        \/ \E e \in OptionalEvidence :
             \/ RepairTaskEvidence(t, e)
             \/ \E outcome \in {"completed", "failed", "blocked"} : FinishTask(t, outcome, e)
  BY DEF TaskRequest
<1>2. /\ status[t] \in LinkedStatus /\ evidence[t] \in OptionalEvidence
      /\ {"absent", "queued", "running", "completed", "failed", "blocked"} \subseteq LinkedStatus
      /\ None \in OptionalEvidence
  BY DEF GoalInv, GoalTypeOK, LinkedStatus, OptionalEvidence
<1>3. \E s \in LinkedStatus, e \in OptionalEvidence, next \in {"progress", "trail"} :
        StoreTask(t, s, e, next)
  <2>1. CASE CreateLinkedTask(t)
    BY <1>2, <2>1 DEF CreateLinkedTask
  <2>a. CASE PostTaskElsewhere(t)
    BY <1>2, <2>a DEF PostTaskElsewhere
  <2>2. CASE RunTask(t)
    BY <1>2, <2>2 DEF RunTask
  <2>3. CASE RequeueTask(t)
    BY <1>2, <2>3 DEF RequeueTask
  <2>4. CASE TouchTask(t)
    BY <1>2, <2>4 DEF TouchTask
  <2>5. ASSUME NEW e \in OptionalEvidence, RepairTaskEvidence(t, e)
        PROVE  <1>3
    BY <1>2, <2>5 DEF RepairTaskEvidence
  <2>6. ASSUME NEW e \in OptionalEvidence, NEW outcome \in {"completed", "failed", "blocked"},
               FinishTask(t, outcome, e)
        PROVE  <1>3
    BY <1>2, <2>6 DEF FinishTask
  <2> QED
    BY <1>1, <2>1, <2>a, <2>2, <2>3, <2>4, <2>5, <2>6
<1> QED
  BY <1>3, StoreKeeps

\* Counting again makes the progress current.
LEMMA ProgressKeeps ==
  ASSUME GoalInv, WriteProgress
  PROVE  GoalInv'
<1> DEFINE g == UpdateGoalProgress(goal)
<1>1. /\ goal' = g /\ goalHandler.next = "progress" /\ goalHandler'.next = "trail"
      /\ goalHandler'.task = goalHandler.task
      /\ goalHandler' \in [task: LinkedTask \cup {None}, next: {"idle", "progress", "trail", "log"}]
      /\ UNCHANGED <<status, evidence, updated, requests, goalCrashes, wrote>>
  BY DEF WriteProgress, GoalInv, GoalTypeOK
<1>2. /\ g \in [status: GoalStatus, note: BOOLEAN, evidence: OptionalEvidence,
                progress: Progress \cup {None}]
      /\ g.note = goal.note
      /\ goal.evidence # None => g.evidence # None
      /\ g.status = "completed" => goal.status = "completed"
      /\ g.progress = [counts |-> SummarizeGoalTasks, at |-> requests]
  BY UpdatedGoal DEF GoalInv
<1> HIDE DEF g
<1>3. GoalTypeOK'
  BY <1>1, <1>2 DEF GoalInv, GoalTypeOK, NothingPending
<1>4. Underway'
  BY <1>1 DEF GoalInv, Underway, Serving, NothingPending
<1>5. ProgressInv'
  <2>1. SummarizeGoalTasks' = SummarizeGoalTasks
    BY <1>1 DEF SummarizeGoalTasks, InStatus
  <2>2. goal'.progress.at = requests' /\ goal'.progress.counts = SummarizeGoalTasks
    BY <1>1, <1>2
  <2>3. requests' <= requests'
    BY <1>1, GoalParameters DEF GoalInv, GoalTypeOK
  <2> QED
    BY <2>1, <2>2, <2>3 DEF ProgressInv, ProgressIsCurrent
<1>6. CompletedGoalHasReason'
  BY <1>1, <1>2 DEF GoalInv, CompletedGoalHasReason, MayBeCompleted
<1> QED
  BY <1>3, <1>4, <1>5, <1>6 DEF GoalInv

\* What does not touch tasks or goal leaves the progress as it is.
LEMMA ProgressUnchanged ==
  ASSUME GoalInv, UNCHANGED <<status, evidence, updated, goal, requests>>
  PROVE  ProgressInv' /\ CompletedGoalHasReason'
<1>1. SummarizeGoalTasks' = SummarizeGoalTasks
  BY DEF SummarizeGoalTasks, InStatus
<1> QED
  BY <1>1 DEF GoalInv, ProgressInv, ProgressIsCurrent, CompletedGoalHasReason

\* The two halves of recordTaskEvent.
LEMMA RecordKeeps ==
  ASSUME GoalInv, WriteTaskEvent \/ WriteStoredEvent
  PROVE  GoalInv'
<1> DEFINE u == goalHandler.task
<1>1. /\ u \in LinkedTask /\ ~NothingPending /\ goalHandler'.task = u
      /\ goalHandler' \in [task: LinkedTask \cup {None}, next: {"idle", "progress", "trail", "log"}]
      /\ UNCHANGED <<status, evidence, updated, goal, requests, goalCrashes>>
  BY DEF WriteTaskEvent, WriteStoredEvent, GoalInv, GoalTypeOK, NothingPending
<1> HIDE DEF u
<1>2. CASE WriteTaskEvent
  <2>1. /\ goalHandler.next = "trail" /\ goalHandler'.next = "log"
        /\ wrote' = [wrote EXCEPT ![u].trail = @ + 1]
    BY <1>2 DEF WriteTaskEvent, GoalInv, GoalTypeOK, u
  <2>2. /\ wrote' \in [LinkedTask -> [task: Nat, trail: Nat, log: Nat]]
        /\ wrote'[u].trail = wrote[u].trail + 1
        /\ wrote'[u].task = wrote[u].task /\ wrote'[u].log = wrote[u].log
        /\ \A t \in LinkedTask \ {u} : wrote'[t] = wrote[t]
    BY <1>1, <2>1 DEF GoalInv, GoalTypeOK
  <2>3. GoalTypeOK'
    BY <1>1, <2>1, <2>2, GoalParameters DEF GoalInv, GoalTypeOK, NothingPending, u
  <2>4. Underway'
    BY <1>1, <2>1, <2>2 DEF GoalInv, GoalTypeOK, Underway, Serving, NothingPending, u
  <2> QED
    BY <1>1, <2>3, <2>4, ProgressUnchanged DEF GoalInv
<1>3. CASE WriteStoredEvent
  <2>1. /\ goalHandler.next = "log" /\ goalHandler'.next = "idle"
        /\ wrote' = [wrote EXCEPT ![u].log = @ + 1]
    BY <1>3 DEF WriteStoredEvent, GoalInv, GoalTypeOK, u
  <2>2. /\ wrote' \in [LinkedTask -> [task: Nat, trail: Nat, log: Nat]]
        /\ wrote'[u].log = wrote[u].log + 1
        /\ wrote'[u].task = wrote[u].task /\ wrote'[u].trail = wrote[u].trail
        /\ \A t \in LinkedTask \ {u} : wrote'[t] = wrote[t]
    BY <1>1, <2>1 DEF GoalInv, GoalTypeOK
  <2>3. GoalTypeOK'
    BY <1>1, <2>1, <2>2 DEF GoalInv, GoalTypeOK, NothingPending
  <2>4. Underway'
    BY <1>1, <2>1, <2>2 DEF GoalInv, GoalTypeOK, Underway, Serving, NothingPending, u
  <2> QED
    BY <1>1, <2>3, <2>4, ProgressUnchanged DEF GoalInv
<1> QED
  BY <1>2, <1>3

\* A crash leaves one more change without its event.
LEMMA InterruptKeeps ==
  ASSUME GoalInv, Interrupt
  PROVE  GoalInv'
<1>1. /\ goalHandler'.next = "idle" /\ goalCrashes' = goalCrashes + 1
      /\ goalHandler' \in [task: LinkedTask \cup {None}, next: {"idle", "progress", "trail", "log"}]
      /\ goalCrashes \in Nat /\ goalCrashes' \in 0..MaxCrashes
      /\ UNCHANGED <<status, evidence, updated, goal, requests, wrote>>
  BY RecordsParameters DEF Interrupt, GoalInv, GoalTypeOK
<1>2. GoalTypeOK'
  BY <1>1 DEF GoalInv, GoalTypeOK, NothingPending
<1>3. Underway'
  BY <1>1 DEF GoalInv, GoalTypeOK, Underway, Serving, NothingPending
<1> QED
  BY <1>1, <1>2, <1>3, ProgressUnchanged DEF GoalInv

\* A goal is completed by a request only with a reason, and a replaced one has no progress.
LEMMA GoalRequestKeeps ==
  ASSUME GoalInv, GoalRequest
  PROVE  GoalInv'
<1>1. PICK s \in GoalStatus, note \in BOOLEAN, e \in OptionalEvidence :
        PatchGoalRecord(s, note, e) \/ ReplaceGoal(s, note, e)
  BY DEF GoalRequest
<1>2. /\ goal' \in [status: GoalStatus, note: BOOLEAN, evidence: OptionalEvidence,
                    progress: Progress \cup {None}]
      /\ goal'.status = s /\ goal'.note = note /\ goal'.evidence = e
      /\ goal'.progress \in {goal.progress, None}
      /\ s = "completed" => MayBeCompleted(note, e)
      /\ UNCHANGED <<status, evidence, updated, goalHandler, requests, goalCrashes, wrote>>
  <2>1. CASE PatchGoalRecord(s, note, e)
    BY <2>1 DEF PatchGoalRecord, GoalInv, GoalTypeOK
  <2>2. CASE ReplaceGoal(s, note, e)
    BY <2>2 DEF ReplaceGoal
  <2> QED
    BY <1>1, <2>1, <2>2
<1>3. GoalTypeOK' /\ Underway'
  BY <1>2 DEF GoalInv, GoalTypeOK, Underway, Serving, NothingPending
<1>4. ProgressInv'
  <2>1. SummarizeGoalTasks' = SummarizeGoalTasks
    BY <1>2 DEF SummarizeGoalTasks, InStatus
  <2> QED
    BY <1>2, <2>1 DEF GoalInv, ProgressInv, ProgressIsCurrent
<1>5. CompletedGoalHasReason'
  BY <1>2 DEF CompletedGoalHasReason, MayBeCompleted
<1> QED
  BY <1>3, <1>4, <1>5 DEF GoalInv

LEMMA StepGoalInv == GoalInv /\ [GoalNext]_goalVars => GoalInv'
<1> SUFFICES ASSUME GoalInv, [GoalNext]_goalVars
             PROVE  GoalInv'
  OBVIOUS
<1>1. CASE UNCHANGED goalVars
  <2>1. GoalTypeOK' /\ Underway'
    BY <1>1 DEF goalVars, GoalInv, GoalTypeOK, Underway, Serving, NothingPending
  <2> QED
    BY <1>1, <2>1, ProgressUnchanged DEF goalVars, GoalInv
<1>2. CASE GoalNext
  BY <1>2, TaskRequestKeeps, GoalRequestKeeps, ProgressKeeps, RecordKeeps, InterruptKeeps
     DEF GoalNext
<1> QED
  BY <1>1, <1>2

-----------------------------------------------------------------------------
(* Theorems *)

\* Goal, tasks and the request under way keep their shape; the evidence of the goal is
\* that of a task or what a request gave it.
THEOREM GoalTypes == GoalSpec => []GoalTypeOK
<1>1. GoalInv => GoalTypeOK
  BY DEF GoalInv
<1> QED
  BY InitGoalInv, StepGoalInv, <1>1, PTL DEF GoalSpec

\* A progress summary as new as the last change of every task that is or was the goal's counts
\* its tasks exactly, whatever updates were lost in crashes, or never made, before.
THEOREM ProgressCurrent == GoalSpec => []ProgressIsCurrent
<1>1. GoalInv => ProgressIsCurrent
  BY DEF GoalInv, ProgressInv
<1> QED
  BY InitGoalInv, StepGoalInv, <1>1, PTL DEF GoalSpec

\* Nothing that happens to the tasks of a completed goal takes away its reason.
THEOREM CompletedReason == GoalSpec => []CompletedGoalHasReason
<1>1. GoalInv => CompletedGoalHasReason
  BY DEF GoalInv
<1> QED
  BY InitGoalInv, StepGoalInv, <1>1, PTL DEF GoalSpec

\* Log and trail only tell of stored changes, and miss no more than crashes cut off.
THEOREM TrailFollows == GoalSpec => []TrailFollowsTask
<1>1. GoalInv => TrailFollowsTask
  BY RecordsParameters
     DEF GoalInv, GoalTypeOK, Underway, Serving, NothingPending, TrailFollowsTask
<1> QED
  BY InitGoalInv, StepGoalInv, <1>1, PTL DEF GoalSpec

\* The counts a goal shows share its tasks out among the statuses: no task is counted twice
\* or left out, whatever requests came between, and crashes only make them old.
THEOREM ProgressAddsUp == GoalSpec => [](goal.progress # None => AddsUp(goal.progress.counts))
<1> DEFINE Sum == goal.progress # None => AddsUp(goal.progress.counts)
<1>1. GoalInit => Sum
  BY DEF GoalInit
<1>2. GoalInv /\ Sum /\ [GoalNext]_goalVars => Sum'
  <2> SUFFICES ASSUME GoalInv, Sum, [GoalNext]_goalVars
               PROVE  Sum'
    OBVIOUS
  <2>1. CASE WriteProgress
    <3>1. AddsUp(SummarizeGoalTasks)
      BY SummaryAddsUp DEF GoalInv, GoalTypeOK
    <3>2. goal'.progress = [counts |-> SummarizeGoalTasks, at |-> requests]
      BY <2>1, UpdatedGoal DEF WriteProgress, GoalInv
    <3> QED BY <3>1, <3>2
  <2>2. CASE GoalRequest
    <3>1. PICK s \in GoalStatus, note \in BOOLEAN, e \in OptionalEvidence :
            PatchGoalRecord(s, note, e) \/ ReplaceGoal(s, note, e)
      BY <2>2 DEF GoalRequest
    <3>2. CASE PatchGoalRecord(s, note, e)
      BY <3>2 DEF PatchGoalRecord, GoalInv, GoalTypeOK
    <3>3. CASE ReplaceGoal(s, note, e)
      BY <3>3 DEF ReplaceGoal
    <3> QED BY <3>1, <3>2, <3>3
  <2>3. CASE TaskRequest \/ WriteTaskEvent \/ WriteStoredEvent \/ Interrupt \/ UNCHANGED goalVars
    BY <2>3 DEF TaskRequest, CreateLinkedTask, PostTaskElsewhere, RunTask, RequeueTask, FinishTask,
                RepairTaskEvidence, TouchTask, StoreTask, WriteTaskEvent, WriteStoredEvent,
                Interrupt, goalVars
  <2> QED BY <2>1, <2>2, <2>3 DEF GoalNext
<1> QED
  BY InitGoalInv, StepGoalInv, <1>1, <1>2, PTL DEF GoalSpec

\* "The latest `evidence_summary` when task evidence exists": as long as one task of the
\* goal alone has evidence, it is that task's evidence that the update after its finish or
\* repair puts into the goal.
THEOREM SoleEvidenceIsLatest ==
  GoalSpec => [][(goalHandler.next = "progress" /\ goalHandler'.next = "trail"
                    /\ WithEvidence = {goalHandler.task})
                  => goal'.evidence = evidence[goalHandler.task]]_goalVars
<1> DEFINE Sole == (goalHandler.next = "progress" /\ goalHandler'.next = "trail"
                      /\ WithEvidence = {goalHandler.task})
                    => goal'.evidence = evidence[goalHandler.task]
<1>1. GoalInv /\ [GoalNext]_goalVars => [Sole]_goalVars
  <2> SUFFICES ASSUME GoalInv, GoalNext, goalHandler.next = "progress",
                      goalHandler'.next = "trail", WithEvidence = {goalHandler.task}
               PROVE  goal'.evidence = evidence[goalHandler.task]
    OBVIOUS
  <2>1. WriteProgress
    <3>1. ~NothingPending
      BY DEF NothingPending
    <3>2. ~TaskRequest
      BY <3>1 DEF TaskRequest, CreateLinkedTask, PostTaskElsewhere, RunTask, RequeueTask, FinishTask,
                  RepairTaskEvidence, TouchTask, StoreTask
    <3>3. ~GoalRequest
      BY <3>1 DEF GoalRequest, PatchGoalRecord, ReplaceGoal
    <3>4. ~WriteTaskEvent /\ ~WriteStoredEvent
      BY DEF WriteTaskEvent, WriteStoredEvent
    <3>5. ~Interrupt
      BY DEF Interrupt, GoalInv, GoalTypeOK
    <3> QED BY <3>2, <3>3, <3>4, <3>5 DEF GoalNext
  <2> DEFINE t == goalHandler.task
  <2>2. t \in LinkedTask /\ evidence[t] # None /\ updated[t] \in Nat
    BY GoalParameters DEF WithEvidence, GoalInv, GoalTypeOK
  <2>3. LatestEvidence = evidence[t]
    <3>1. updated[t] <= updated[t]
      BY <2>2
    <3> HIDE DEF t
    <3>2. WithEvidence = {t}
      BY DEF t
    <3>3. (CHOOSE x \in {t} : \A u \in {t} : updated[x] <= updated[u]) = t
      BY <3>1
    <3> QED BY <3>2, <3>3 DEF LatestEvidence
  <2>4. goal'.evidence = (IF LatestEvidence = None THEN goal.evidence ELSE LatestEvidence)
    BY <2>1 DEF WriteProgress, UpdateGoalProgress, GoalInv, GoalTypeOK
  <2> QED BY <2>2, <2>3, <2>4
<1> QED
  BY InitGoalInv, StepGoalInv, <1>1, PTL DEF GoalSpec
=============================================================================
