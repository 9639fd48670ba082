---------------------------- MODULE CampaignQueue ----------------------------
(***************************************************************************)
(* One campaign: an ordered pack of goals, one step each, of which the     *)
(* current one is executed as a task, finished, and then advanced past.    *)
(*                                                                         *)
(* The server writes step, campaign and task one after the other.          *)
(* skybridge-campaign.ps1 execute-step works from outside:                 *)
(* it reads the campaign, posts a task and links it in three requests, and *)
(* others' requests fall between them.                                     *)
(*                                                                         *)
(* Left out: conditions that are the caller's word alone (human approval,  *)
(* clean worktree, merged parent PR, advisory gate) or the project's       *)
(* (control state, see LoopControl; tasks that have nothing to do with the *)
(* campaign), all taken as given, so that more requests are accepted here; *)
(* goal texts and task types; linked PR urls, kept like linked tasks.      *)
(***************************************************************************)
EXTENDS Records, FiniteSets, FiniteSetsExt

CONSTANTS
  Steps,        \* the number of steps: a step is its order
  Task, Executor,
  GoalPack,     \* the packs imported: what each of its goals depends on
  MaxImports    \* model bound: imports of the campaign

Step == 1..Steps

Pack == UNION {[D -> SUBSET Step] : D \in SUBSET Step}

\* Goals that depend on each other, or on a later one, are accepted.
ASSUME CampaignParameters ==
  /\ Steps \in Nat \ {0}
  /\ IsFiniteSet(Task)
  /\ \A pack \in GoalPack : /\ pack \in Pack /\ DOMAIN pack # {}
                            /\ \A s \in DOMAIN pack : pack[s] \subseteq DOMAIN pack
  /\ None \notin Task
  /\ MaxImports \in Nat

VARIABLES
  campaign,        \* its record
  step,            \* step[s]: its record
  stepTask,        \* stepTask[t]: its record
  stepHandler,     \* what the request being served still has to write
  executor,        \* executor[x]: how far an execute-step has come
  shown,           \* history: what became of what the operator's control preview showed
  campaignCrashes, \* history: how often the server died
  imports,         \* how many imports there were
  everDone         \* history: s was completed once

campaignVars ==
  <<campaign, step, stepTask, stepHandler, executor, shown, campaignCrashes, imports, everDone>>

-----------------------------------------------------------------------------
(* Data *)

\* "draft" stands for ready too, "held" for completed, which nothing looks at either, and
\* "aborted" for failed.
CampaignStatus == {"absent", "draft", "running", "paused", "held", "aborted"}

\* The other statuses of a step are read in places but set by nobody.
StepStatus == {"absent", "pending", "ready", "completed", "failed"}

\* "active": queued, claimed or running; "unresolved": failed with a pull request.
TaskStatus == {"absent", "active", "closed", "unresolved"}

\* Of updated_at only matters whether it is newer than what the operator has seen.
NoCampaign == [status |-> "absent", current |-> 0, source |-> None, newer |-> FALSE]

NoStep == [status |-> "absent", deps |-> {}, linked |-> {}, evidence |-> FALSE]

NoRequest == [next |-> "idle", todo |-> <<>>, status |-> "absent", step |-> 0,
                task |-> None]

\* The operator has seen a status of some step that is no longer so.
Outdated == IF shown = "nothing" THEN "nothing" ELSE "outdated"

NoExecution == [pc |-> "idle", step |-> 0, task |-> None]

BetweenRequests == stepHandler.next = "idle"

Exists == campaign.status # "absent"

Stored == {s \in Step : step[s].status # "absent"}

Done(s) == step[s].status = "completed"

ActiveTasks == {t \in Task : stepTask[t].status = "active"}

DependenciesDone(s) == \A d \in step[s].deps : d \in Stored /\ Done(d)

-----------------------------------------------------------------------------
(* Import and draft submission: the campaign first, then its steps in order *)

StartImport(pack, s, source) ==
  /\ BetweenRequests
  /\ imports < MaxImports
  /\ imports' = imports + 1
  /\ campaign' = [status |-> s, current |-> Min(DOMAIN pack), source |-> source, newer |-> TRUE]
  /\ stepHandler' = [NoRequest EXCEPT !.next = "steps", !.todo = pack,
                                    !.step = Min(DOMAIN pack)]
  /\ UNCHANGED <<step, stepTask, executor, shown, campaignCrashes, everDone>>

\* POST /v1/campaigns and import-goal-pack: whatever is stored already starts over.
ImportCampaign(pack, s) == StartImport(pack, s, "goal-pack")

\* submitCampaignDraft: once only, each step after the one before.
SubmitDraft ==
  /\ ~Exists
  /\ StartImport([s \in Step |-> IF s = 1 THEN {} ELSE {s - 1}], "draft", "draft_review")

\* A pack may name the tasks a goal is linked to; a draft's steps have none.
ImportedLinks == IF campaign.source = "draft_review" THEN {{}} ELSE SUBSET Task

\* upsertCampaignStep of the next one; the first is ready.
StoreStep ==
  /\ stepHandler.next = "steps" /\ DOMAIN stepHandler.todo # {}
  /\ LET s == Min(DOMAIN stepHandler.todo)
     IN /\ \E links \in ImportedLinks :
             step' = [step EXCEPT ![s] =
                        [status |-> IF s = stepHandler.step THEN "ready" ELSE "pending",
                         deps |-> stepHandler.todo[s], linked |-> links,
                         evidence |-> campaign.source = "draft_review"]]
        /\ stepHandler' = [stepHandler EXCEPT !.todo = [i \in DOMAIN @ \ {s} |-> @[i]]]
  /\ UNCHANGED <<campaign, stepTask, executor, shown, campaignCrashes, imports, everDone>>

ImportDone ==
  /\ stepHandler.next = "steps" /\ DOMAIN stepHandler.todo = {}
  /\ stepHandler' = NoRequest
  /\ UNCHANGED <<campaign, step, stepTask, executor, shown, campaignCrashes, imports, everDone>>

-----------------------------------------------------------------------------
(* Advancing *)

\* Mutant: the lowest step that is not done, whatever the current one is.
CandidateByOrder == {s \in Stored : ~Done(s) /\ step[s].status # "failed"
                       /\ \A r \in Stored : ~Done(r) /\ step[r].status # "failed" => s <= r}

\* Mutant: the current step, done or not.
CandidateIsCurrent == {campaign.current} \cap Stored

\* chooseCampaignCandidateStep: the current step until it is done, then the lowest that
\* is neither done nor failed.
Candidate ==
  IF campaign.current \in Stored /\ ~Done(campaign.current) THEN {campaign.current}
  ELSE {s \in Stored : ~Done(s) /\ step[s].status # "failed"
          /\ \A r \in Stored : ~Done(r) /\ step[r].status # "failed" => s <= r}

\* evaluateCampaignAdvanceGate.  The caller may waive its condition on active tasks, so it
\* says nothing here.
GateOpen(s) ==
  /\ DependenciesDone(s)
  /\ step[s].status # "failed"
  /\ campaign.status # "aborted"

\* POST /v1/campaigns/:campaignId/advance, its first write: the step.
Advance ==
  /\ BetweenRequests /\ Exists
  /\ \E s \in Candidate :
       /\ GateOpen(s)
       /\ step' = [step EXCEPT ![s].status = "ready"]
       /\ stepHandler' = [NoRequest EXCEPT !.next = "campaign", !.status = "paused", !.step = s]
  /\ shown' = Outdated
  /\ UNCHANGED <<campaign, stepTask, executor, campaignCrashes, imports, everDone>>

\* Mutant: a campaign whose fields stay the same is not written.
CampaignIfChanged ==
  [campaign EXCEPT !.status = stepHandler.status, !.current = stepHandler.step,
     !.newer = @ \/ stepHandler.status # campaign.status \/ stepHandler.step # campaign.current]

UpdatedCampaign ==
  [campaign EXCEPT !.status = stepHandler.status, !.current = stepHandler.step, !.newer = TRUE]

\* The campaign, written after the step of an advance or a finish.
WriteCampaign ==
  /\ stepHandler.next = "campaign"
  /\ campaign' = UpdatedCampaign
  /\ stepHandler' = NoRequest
  /\ UNCHANGED <<step, stepTask, executor, shown, campaignCrashes, imports, everDone>>

-----------------------------------------------------------------------------
(* Finishing a step and attaching evidence *)

\* linked_task_ids of the body replace those of the step.
Links == {None} \cup (SUBSET Task \ {{}})

LinkedAfter(s, links) == IF links = None THEN step[s].linked ELSE links

\* Mutant: nobody asks for a reason.
WithoutReason(s, evidence, links) == TRUE

\* Needed by a completion and by an attachment.
WithReason(s, evidence, links) == evidence \/ LinkedAfter(s, links) # {}

\* finishCampaignStep, its first write: from any status, of any step.
FinishStep(s, outcome, evidence, links) ==
  /\ BetweenRequests
  /\ s \in Stored
  /\ outcome = "completed" => WithReason(s, evidence, links)
  /\ step' = [step EXCEPT ![s].status = outcome, ![s].linked = LinkedAfter(s, links),
                          ![s].evidence = @ \/ evidence]
  /\ everDone' = [everDone EXCEPT ![s] = @ \/ outcome = "completed"]
  /\ stepHandler' = [NoRequest EXCEPT !.next = "campaign",
                      !.status = IF outcome = "failed" THEN "held" ELSE campaign.status,
                      !.step = campaign.current]
  /\ shown' = Outdated
  /\ UNCHANGED <<campaign, stepTask, executor, campaignCrashes, imports>>

\* attachCampaignEvidence, link-task and attach-execution-evidence.
AttachEvidence(s, evidence, links) ==
  /\ BetweenRequests
  /\ s \in Stored
  /\ WithReason(s, evidence, links)
  /\ step' = [step EXCEPT ![s].linked = LinkedAfter(s, links), ![s].evidence = @ \/ evidence]
  /\ UNCHANGED <<campaign, stepTask, stepHandler, executor, shown, campaignCrashes,
                 imports, everDone>>

-----------------------------------------------------------------------------
(* The campaign's status and the queue controls *)

WriteStatus(s) == campaign' = [campaign EXCEPT !.status = s, !.newer = TRUE]

\* updateCampaignState: start, resume, pause, hold and complete ask for nothing.
UpdateCampaignState(s) ==
  /\ BetweenRequests /\ Exists
  /\ WriteStatus(s)
  /\ UNCHANGED <<step, stepTask, stepHandler, executor, shown, campaignCrashes, imports, everDone>>

\* POST control/preview: the operator looks at the campaign and its steps.
PreviewControl ==
  /\ BetweenRequests /\ Exists
  /\ campaign' = [campaign EXCEPT !.newer = FALSE]
  /\ shown' = "current"
  /\ UNCHANGED <<step, stepTask, stepHandler, executor, campaignCrashes, imports, everDone>>

\* POST control/apply: safe_pause pauses; stop_queue and emergency_stop hold.  The state
\* hash is of current_step_id, status and updated_at; each write renews the last.
ApplyControl(s) ==
  /\ BetweenRequests /\ Exists
  /\ shown # "nothing"
  /\ ~campaign.newer
  /\ WriteStatus(s)
  /\ UNCHANGED <<step, stepTask, stepHandler, executor, shown, campaignCrashes, imports, everDone>>

-----------------------------------------------------------------------------
(* Executing a step *)

\* Mutant: dependencies are left to the advance gate.
ExecutableInAnyOrder(s, retry) ==
  /\ campaign.current = s
  /\ campaign.status \notin {"running", "aborted"}
  /\ step[s].status = "ready"
  /\ ActiveTasks = {}
  /\ step[s].linked = {} \/ retry
  /\ \A t \in step[s].linked : stepTask[t].status # "unresolved"

\* buildCampaignExecutionPreview and Get-CampaignExecutionBlockers have no blocker.
Executable(s, retry) ==
  /\ campaign.current = s
  /\ campaign.status \notin {"running", "aborted"}
  /\ step[s].status = "ready"
  /\ DependenciesDone(s)
  /\ ActiveTasks = {}
  /\ step[s].linked = {} \/ retry
  /\ \A t \in step[s].linked : stepTask[t].status # "unresolved"

\* upsertTask: whatever task has that id already is replaced.
MakeTask(s, t) == stepTask' = [stepTask EXCEPT ![t] = [status |-> "active", of |-> s]]

LinkTask(s, t) == [step EXCEPT ![s].linked = {t}, ![s].evidence = TRUE]

\* POST execute, its first write: the task, under any id the caller names.
ExecuteStep(s, t, retry) ==
  /\ BetweenRequests
  /\ Executable(s, retry)
  /\ MakeTask(s, t)
  /\ stepHandler' = [NoRequest EXCEPT !.next = "link", !.step = s, !.task = t]
  /\ UNCHANGED <<campaign, step, executor, shown, campaignCrashes, imports, everDone>>

\* Its second write: attachCampaignEvidence.
LinkExecution ==
  /\ stepHandler.next = "link"
  /\ step' = LinkTask(stepHandler.step, stepHandler.task)
  /\ stepHandler' = NoRequest
  /\ UNCHANGED <<campaign, stepTask, executor, shown, campaignCrashes, imports, everDone>>

\* execute-step reads the campaign and finds no blocker.
ReadContext(x, s, retry) ==
  /\ BetweenRequests
  /\ executor[x].pc = "idle"
  /\ Executable(s, retry)
  /\ executor' = [executor EXCEPT ![x] = [pc |-> "create", step |-> s, task |-> None]]
  /\ UNCHANGED <<campaign, step, stepTask, stepHandler, shown, campaignCrashes, imports, everDone>>

\* It posts the task, by then perhaps for nothing.  The id is made of the goal and the
\* second, so that two made at once may be one.
PostTask(x, t) ==
  /\ BetweenRequests
  /\ executor[x].pc = "create"
  /\ stepTask[t].status = "absent" \/ stepTask[t].of = executor[x].step
  /\ MakeTask(executor[x].step, t)
  /\ executor' = [executor EXCEPT ![x].pc = "link", ![x].task = t]
  /\ UNCHANGED <<campaign, step, stepHandler, shown, campaignCrashes, imports, everDone>>

\* And links it.
LinkPosted(x) ==
  /\ BetweenRequests
  /\ executor[x].pc = "link"
  /\ step' = LinkTask(executor[x].step, executor[x].task)
  /\ executor' = [executor EXCEPT ![x] = NoExecution]
  /\ UNCHANGED <<campaign, stepTask, stepHandler, shown, campaignCrashes, imports, everDone>>

ExecutorDies(x) ==
  /\ executor[x].pc # "idle"
  /\ executor' = [executor EXCEPT ![x] = NoExecution]
  /\ UNCHANGED <<campaign, step, stepTask, stepHandler, shown, campaignCrashes, imports, everDone>>

-----------------------------------------------------------------------------
(* Tasks, and a crash of the server *)

\* A worker finishes the task, or an operator puts it back.
TaskBecomes(t, s) ==
  /\ BetweenRequests
  /\ stepTask[t].status # "absent"
  /\ s # stepTask[t].status
  /\ stepTask' = [stepTask EXCEPT ![t].status = s]
  /\ UNCHANGED <<campaign, step, stepHandler, executor, shown, campaignCrashes, imports, everDone>>

\* The server dies in the middle of a request.
ServerDies ==
  /\ ~BetweenRequests
  /\ campaignCrashes < MaxCrashes
  /\ campaignCrashes' = campaignCrashes + 1
  /\ stepHandler' = NoRequest
  /\ shown' = IF stepHandler.next = "campaign" /\ shown = "outdated" THEN "cut" ELSE shown
  /\ UNCHANGED <<campaign, step, stepTask, executor, imports, everDone>>

-----------------------------------------------------------------------------
CampaignInit ==
  /\ campaign = NoCampaign
  /\ step = [s \in Step |-> NoStep]
  /\ stepTask = [t \in Task |-> [status |-> "absent", of |-> 0]]
  /\ stepHandler = NoRequest
  /\ executor = [x \in Executor |-> NoExecution]
  /\ shown = "nothing"
  /\ campaignCrashes = 0
  /\ imports = 0
  /\ everDone = [s \in Step |-> FALSE]

Importing ==
  \/ \E pack \in GoalPack, s \in {"draft", "aborted"} : ImportCampaign(pack, s)
  \/ SubmitDraft \/ StoreStep \/ ImportDone

StepRequest ==
  \E s \in Step, evidence \in BOOLEAN, links \in Links :
    \/ \E outcome \in {"completed", "failed"} : FinishStep(s, outcome, evidence, links)
    \/ AttachEvidence(s, evidence, links)

ControlRequest ==
  \/ \E s \in {"running", "paused", "held"} : UpdateCampaignState(s)
  \/ PreviewControl
  \/ \E s \in {"paused", "held"} : ApplyControl(s)

Execution ==
  \/ \E s \in Step, t \in Task, retry \in BOOLEAN : ExecuteStep(s, t, retry)
  \/ LinkExecution
  \/ \E x \in Executor :
       \/ \E s \in Step, retry \in BOOLEAN : ReadContext(x, s, retry)
       \/ \E t \in Task : PostTask(x, t)
       \/ LinkPosted(x)
       \/ ExecutorDies(x)

CampaignNext ==
  \/ Importing
  \/ Advance \/ WriteCampaign
  \/ StepRequest
  \/ ControlRequest
  \/ Execution
  \/ \E t \in Task, s \in TaskStatus \ {"absent"} : TaskBecomes(t, s)
  \/ ServerDies

CampaignSpec == CampaignInit /\ [][CampaignNext]_campaignVars

-----------------------------------------------------------------------------
(* Properties *)

CampaignRecord == [status: CampaignStatus, current: Step \cup {0},
                   source: {"goal-pack", "draft_review", None}, newer: BOOLEAN]

StepRecord == [status: StepStatus, deps: SUBSET Step, linked: SUBSET Task, evidence: BOOLEAN]

HandlerRecord == [next: {"idle", "steps", "campaign", "link"}, todo: Pack,
                  status: CampaignStatus, step: Step \cup {0}, task: Task \cup {None}]

\* The state has the shape the handlers give it.
CampaignTypeOK ==
  /\ campaign \in CampaignRecord
  /\ step \in [Step -> StepRecord]
  /\ stepTask \in [Task -> [status: TaskStatus, of: Step \cup {0}]]
  /\ stepHandler \in HandlerRecord
  /\ stepHandler.next = "link" => stepHandler.step \in Step /\ stepHandler.task \in Task
  /\ executor \in [Executor -> [pc: {"idle", "create", "link"}, step: Step \cup {0},
                                task: Task \cup {None}]]
  /\ \A x \in Executor : executor[x].pc # "idle" => executor[x].step \in Step
  /\ \A x \in Executor : executor[x].pc = "link" => executor[x].task \in Task
  /\ shown \in {"nothing", "current", "outdated", "cut"}
  /\ imports \in 0..MaxImports
  /\ campaignCrashes \in 0..MaxCrashes
  /\ everDone \in [Step -> BOOLEAN]

\* A completed step says why: it has evidence or a linked task, whatever was attached to
\* it, or taken from it, since it was completed.
CompletedStepHasReason ==
  \A s \in Step : Done(s) => step[s].evidence \/ step[s].linked # {}

\* Done is done: no advance, no execution and no crash in the middle of one puts a
\* finished step back into the queue.  Only an import starts a step over.
FinishedStaysFinished ==
  [][\A s \in Step : step[s].status \in {"completed", "failed"}
       => step'[s].status \in {"completed", "failed"} \/ stepHandler.next = "steps"]_campaignVars

\* The queue stops at a step that failed: the campaign does not go on to another one
\* until somebody completes it or imports the campaign anew, even if the crash that hit
\* the report of the failure left the campaign itself unaware of it.
FailedStepStopsQueue ==
  [][campaign.current \in Step /\ step[campaign.current].status = "failed"
       /\ campaign'.current # campaign.current
     => stepHandler'.next = "steps"]_campaignVars

\* A task for a step exists only when each step it depends on has been completed at some
\* time: a first step whose dependencies come later in the pack waits, although the
\* import made it ready, and so does one that execute-step looked at long before.  (A
\* second import may change the dependencies of a step that has a task.)
ExecutedAfterDependencies ==
  imports = 1 =>
    \A t \in Task : stepTask[t].of \in Step => \A d \in step[stepTask[t].of].deps : everDone[d]

\* QUEUE_CONTROL_CONTRACT.md, revision guard: a control is applied to the queue the
\* operator saw.  The hash has no step in it; that finishing or advancing one writes the
\* campaign too makes up for it, unless the server died between the two writes.
ControlSeesSteps ==
  [][(\E s \in {"paused", "held"} : ApplyControl(s))
     => shown \in {"current", "cut"}]_campaignVars
=============================================================================
