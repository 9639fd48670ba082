------------------------- MODULE CampaignQueueProofs -------------------------
(***************************************************************************)
(* Theorems about a campaign, for any number of steps, tasks, packs,       *)
(* imports, executors and crashes.  What the properties need beyond        *)
(* themselves is what is true between the writes of a request              *)
(* (CurrentStays, OutdatedIsNewer) and between the requests of             *)
(* execute-step (FirstImport).                                             *)
(***************************************************************************)
EXTENDS CampaignQueue, WellFoundedInduction, TLAPS

\* Whatever is completed now was completed once.
DoneWasDone == \A s \in Step : Done(s) => everDone[s]

\* The campaign is about to be moved only away from a step that is done, or not there.
CurrentStays ==
  stepHandler.next = "campaign" /\ campaign.current \in Stored =>
    stepHandler.step = campaign.current \/ Done(campaign.current)

\* What the operator saw of the steps is outdated only if the campaign has been written
\* since, or is about to be.
OutdatedIsNewer == shown = "outdated" => campaign.newer \/ stepHandler.next = "campaign"

\* s is stored, and what it depends on has been done.
WasExecutable(s) == s \in Stored /\ \A d \in step[s].deps : everDone[d]

\* Until a second import each step is stored once, before anybody executes it.
FirstImport ==
  /\ imports = 0 => Stored = {} /\ stepHandler.next # "steps"
  /\ imports <= 1 =>
       /\ stepHandler.next = "steps" => \A s \in DOMAIN stepHandler.todo : s \notin Stored
       /\ \A t \in Task : stepTask[t].of \in Step => WasExecutable(stepTask[t].of)
       /\ \A x \in Executor : executor[x].pc = "create" =>
            executor[x].step \in Step /\ WasExecutable(executor[x].step)

\* The inductive invariant.
CampaignInv ==
  /\ CampaignTypeOK
  /\ CompletedStepHasReason
  /\ DoneWasDone
  /\ CurrentStays
  /\ OutdatedIsNewer
  /\ FirstImport

-----------------------------------------------------------------------------
(* Packs and requests *)

\* Among the steps of a pack there is a lowest.
LEMMA LowestStep ==
  ASSUME NEW D \in SUBSET Step, D # {}
  PROVE  Min(D) \in D
<1>1. D \subseteq Nat
  BY CampaignParameters DEF Step
<1>2. PICK n \in D : \A m \in D : <<m, n>> \notin OpToRel(<, Nat)
  BY <1>1, NatLessThanWellFounded, WFMin
<1>3. \A m \in D : n <= m
  <2> SUFFICES ASSUME NEW m \in D
               PROVE  n <= m
    OBVIOUS
  <2>1. m \in Nat /\ n \in Nat
    BY <1>1
  <2>2. ~(m < n)
    BY <1>2, <2>1 DEF OpToRel
  <2> QED
    BY <2>1, <2>2
<1> QED
  BY <1>3 DEF Min

LEMMA PackTypes ==
  /\ <<>> \in Pack
  /\ \A pack \in Pack :
       /\ DOMAIN pack \in SUBSET Step
       /\ \A s \in DOMAIN pack : pack[s] \in SUBSET Step
       /\ \A s \in Step : [i \in DOMAIN pack \ {s} |-> pack[i]] \in Pack
<1>1. <<>> \in Pack
  <2>1. <<>> \in [{} -> SUBSET Step] /\ {} \in SUBSET Step
    OBVIOUS
  <2> QED
    BY <2>1 DEF Pack
<1>2. ASSUME NEW pack \in Pack
      PROVE  /\ DOMAIN pack \in SUBSET Step
             /\ \A s \in DOMAIN pack : pack[s] \in SUBSET Step
             /\ \A s \in Step : [i \in DOMAIN pack \ {s} |-> pack[i]] \in Pack
  <2>1. PICK D \in SUBSET Step : pack \in [D -> SUBSET Step]
    BY DEF Pack
  <2>2. DOMAIN pack = D /\ \A s \in D : pack[s] \in SUBSET Step
    BY <2>1
  <2>3. ASSUME NEW s \in Step
        PROVE  [i \in DOMAIN pack \ {s} |-> pack[i]] \in Pack
    <3>1. D \ {s} \in SUBSET Step
      OBVIOUS
    <3>2. [i \in DOMAIN pack \ {s} |-> pack[i]] \in [D \ {s} -> SUBSET Step]
      BY <2>2
    <3> QED
      BY <3>1, <3>2 DEF Pack
  <2> QED
    BY <2>2, <2>3
<1> QED
  BY <1>1, <1>2

\* The pack of a draft: each step after the one before.
LEMMA DraftPack ==
  LET pack == [s \in Step |-> IF s = 1 THEN {} ELSE {s - 1}]
  IN  pack \in Pack /\ DOMAIN pack # {}
<1> DEFINE pack == [s \in Step |-> IF s = 1 THEN {} ELSE {s - 1}]
<1>1. pack \in [Step -> SUBSET Step]
  BY CampaignParameters DEF Step
<1>2. 1 \in Step /\ Step \in SUBSET Step
  BY CampaignParameters DEF Step
<1>3. pack \in Pack
  <2> HIDE DEF pack
  <2> QED
    BY <1>1, <1>2 DEF Pack
<1> QED
  BY <1>2, <1>3

LEMMA RequestShapes ==
  /\ NoRequest \in HandlerRecord
  /\ NoRequest.next = "idle"
  /\ \A next \in {"steps", "campaign", "link"}, pack \in Pack, st \in CampaignStatus,
       s \in Step \cup {0}, t \in Task \cup {None} :
       [next |-> next, todo |-> pack, status |-> st, step |-> s, task |-> t] \in HandlerRecord
<1>1. <<>> \in Pack
  BY PackTypes
<1> QED
  BY <1>1 DEF NoRequest, HandlerRecord, CampaignStatus

-----------------------------------------------------------------------------
(* What a step of the system writes *)

LEMMA StepUpdates ==
  ASSUME CampaignTypeOK, NEW s \in Step, NEW st \in StepStatus,
         NEW l \in SUBSET Task, NEW e \in BOOLEAN
  PROVE  /\ [step EXCEPT ![s].status = st] \in [Step -> StepRecord]
         /\ [step EXCEPT ![s].linked = l, ![s].evidence = e] \in [Step -> StepRecord]
         /\ [step EXCEPT ![s].status = st, ![s].linked = l, ![s].evidence = e]
              \in [Step -> StepRecord]
<1>1. \A r \in StepRecord :
        /\ [r EXCEPT !.status = st] \in StepRecord
        /\ [r EXCEPT !.linked = l] \in StepRecord
        /\ [r EXCEPT !.evidence = e] \in StepRecord
  BY DEF StepRecord
<1>2. step \in [Step -> StepRecord]
  BY DEF CampaignTypeOK
<1>3. \A f \in [Step -> StepRecord] :
        /\ [f EXCEPT ![s].status = st] \in [Step -> StepRecord]
        /\ [f EXCEPT ![s].linked = l] \in [Step -> StepRecord]
        /\ [f EXCEPT ![s].evidence = e] \in [Step -> StepRecord]
  BY <1>1
<1> QED
  BY <1>2, <1>3

\* The steps change in six ways.
LEMMA StepWrites ==
  ASSUME CampaignTypeOK, CampaignNext
  PROVE  \/ UNCHANGED <<step, everDone>>
         \/ StoreStep
         \/ Advance
         \/ \E s \in Step, evidence \in BOOLEAN, links \in Links, outcome \in {"completed", "failed"} :
              FinishStep(s, outcome, evidence, links)
         \/ \E s \in Step, evidence \in BOOLEAN, links \in Links : AttachEvidence(s, evidence, links)
         \/ \E s \in Step, t \in Task : step' = LinkTask(s, t) /\ UNCHANGED everDone
<1>1. LinkExecution => \E s \in Step, t \in Task : step' = LinkTask(s, t) /\ UNCHANGED everDone
  BY DEF LinkExecution, CampaignTypeOK
<1>2. \A x \in Executor : LinkPosted(x) =>
        \E s \in Step, t \in Task : step' = LinkTask(s, t) /\ UNCHANGED everDone
  BY DEF LinkPosted, CampaignTypeOK
<1>3. Importing => StoreStep \/ UNCHANGED <<step, everDone>>
  BY DEF Importing, ImportCampaign, SubmitDraft, StartImport, ImportDone
<1>4. ControlRequest => UNCHANGED <<step, everDone>>
  BY DEF ControlRequest, UpdateCampaignState, PreviewControl, ApplyControl
<1>5. Execution => \/ LinkExecution \/ \E x \in Executor : LinkPosted(x)
                   \/ UNCHANGED <<step, everDone>>
  BY DEF Execution, ExecuteStep, ReadContext, PostTask, ExecutorDies
<1>6. (\E t \in Task, s \in TaskStatus \ {"absent"} : TaskBecomes(t, s)) \/ ServerDies \/ WriteCampaign
        => UNCHANGED <<step, everDone>>
  BY DEF TaskBecomes, ServerDies, WriteCampaign
<1> QED
  BY <1>1, <1>2, <1>3, <1>4, <1>5, <1>6 DEF CampaignNext, StepRequest

-----------------------------------------------------------------------------
(* Types *)

LEMMA InitCampaignInv == CampaignInit => CampaignInv
<1> SUFFICES ASSUME CampaignInit
             PROVE  CampaignInv
  OBVIOUS
<1>1. campaign \in CampaignRecord /\ campaign.current = 0
  BY DEF CampaignInit, NoCampaign, CampaignRecord, CampaignStatus
<1>2. step \in [Step -> StepRecord] /\ Stored = {} /\ \A s \in Step : ~Done(s)
  BY DEF CampaignInit, NoStep, StepRecord, StepStatus, Stored, Done
<1>3. stepTask \in [Task -> [status: TaskStatus, of: Step \cup {0}]]
  BY DEF CampaignInit, TaskStatus
<1>4. stepHandler \in HandlerRecord /\ stepHandler.next = "idle"
  BY RequestShapes DEF CampaignInit
<1>5. /\ executor \in [Executor -> [pc: {"idle", "create", "link"}, step: Step \cup {0},
                                    task: Task \cup {None}]]
      /\ \A x \in Executor : executor[x].pc = "idle"
  BY DEF CampaignInit, NoExecution
<1>6. CampaignTypeOK
  BY <1>1, <1>2, <1>3, <1>4, <1>5, CampaignParameters, RecordsParameters
     DEF CampaignInit, CampaignTypeOK
<1>7. \A t \in Task : stepTask[t].of \notin Step
  BY CampaignParameters DEF CampaignInit, Step
<1>8. CompletedStepHasReason /\ DoneWasDone /\ CurrentStays /\ OutdatedIsNewer /\ FirstImport
  BY <1>2, <1>4, <1>5, <1>7 DEF CampaignInit, CompletedStepHasReason, DoneWasDone, CurrentStays,
     OutdatedIsNewer, FirstImport
<1> QED
  BY <1>6, <1>8 DEF CampaignInv

LEMMA ImportingTypes ==
  ASSUME CampaignTypeOK, Importing
  PROVE  CampaignTypeOK'
<1>1. ASSUME NEW pack \in Pack, DOMAIN pack # {}, NEW st \in {"draft", "aborted"},
             NEW source \in {"goal-pack", "draft_review"}, StartImport(pack, st, source)
      PROVE  CampaignTypeOK'
  <2>1. Min(DOMAIN pack) \in Step
    BY <1>1, LowestStep, PackTypes
  <2>2. campaign' \in CampaignRecord
    BY <1>1, <2>1 DEF StartImport, CampaignRecord, CampaignStatus
  <2>3. stepHandler' = [next |-> "steps", todo |-> pack, status |-> "absent",
                        step |-> Min(DOMAIN pack), task |-> None]
    BY <1>1 DEF StartImport, NoRequest
  <2>4. stepHandler' \in HandlerRecord /\ stepHandler'.next = "steps"
    BY <2>1, <2>3, RequestShapes DEF CampaignStatus
  <2> QED
    BY <1>1, <2>2, <2>4, CampaignParameters DEF CampaignTypeOK, StartImport
<1>2. ASSUME NEW pack \in GoalPack, NEW st \in {"draft", "aborted"}, ImportCampaign(pack, st)
      PROVE  CampaignTypeOK'
  BY <1>1, <1>2, CampaignParameters DEF ImportCampaign
<1>3. CASE SubmitDraft
  BY <1>1, <1>3, DraftPack DEF SubmitDraft
<1>4. CASE StoreStep
  <2> DEFINE s == Min(DOMAIN stepHandler.todo)
  <2>1. stepHandler.todo \in Pack /\ s \in DOMAIN stepHandler.todo
    BY <1>4, PackTypes, LowestStep DEF StoreStep, CampaignTypeOK, HandlerRecord
  <2>2. s \in Step /\ stepHandler.todo[s] \in SUBSET Step
    BY <2>1, PackTypes
  <2>3. step' \in [Step -> StepRecord]
    <3>1. PICK links \in ImportedLinks :
            step' = [step EXCEPT ![s] =
                       [status |-> IF s = stepHandler.step THEN "ready" ELSE "pending",
                        deps |-> stepHandler.todo[s], linked |-> links,
                        evidence |-> campaign.source = "draft_review"]]
      BY <1>4 DEF StoreStep
    <3>2. links \subseteq Task
      BY <3>1 DEF ImportedLinks
    <3> HIDE DEF s
    <3> QED
      BY <2>2, <3>1, <3>2 DEF CampaignTypeOK, StepRecord, StepStatus
  <2>4. /\ [i \in DOMAIN stepHandler.todo \ {s} |-> stepHandler.todo[i]] \in Pack
        /\ stepHandler' = [stepHandler EXCEPT
             !.todo = [i \in DOMAIN stepHandler.todo \ {s} |-> stepHandler.todo[i]]]
    BY <1>4, <2>1, <2>2, PackTypes DEF StoreStep
  <2> HIDE DEF s
  <2>5. stepHandler' \in HandlerRecord /\ stepHandler'.next = "steps"
    BY <1>4, <2>4 DEF StoreStep, CampaignTypeOK, HandlerRecord
  <2> QED
    BY <1>4, <2>3, <2>5 DEF StoreStep, CampaignTypeOK
<1>5. CASE ImportDone
  BY <1>5, RequestShapes DEF ImportDone, CampaignTypeOK
<1> QED
  BY <1>2, <1>3, <1>4, <1>5 DEF Importing

LEMMA StepRequestTypes ==
  ASSUME CampaignTypeOK, Advance \/ StepRequest
  PROVE  CampaignTypeOK'
<1>1. ASSUME NEW st \in CampaignStatus, NEW s \in Step \cup {0}
      PROVE  LET r == [NoRequest EXCEPT !.next = "campaign", !.status = st, !.step = s]
             IN  r \in HandlerRecord /\ r.next = "campaign"
  <2>1. NoRequest \in HandlerRecord
    BY RequestShapes
  <2>2. \A r \in HandlerRecord :
          [r EXCEPT !.next = "campaign", !.status = st, !.step = s] \in HandlerRecord
    BY DEF HandlerRecord
  <2>3. \A r \in HandlerRecord :
          [r EXCEPT !.next = "campaign", !.status = st, !.step = s].next = "campaign"
    BY DEF HandlerRecord
  <2> QED
    BY <2>1, <2>2, <2>3
<1>2. CASE Advance
  <2>1. PICK s \in Candidate :
          /\ step' = [step EXCEPT ![s].status = "ready"]
          /\ stepHandler' = [NoRequest EXCEPT !.next = "campaign", !.status = "paused", !.step = s]
    BY <1>2 DEF Advance
  <2>2. s \in Step
    BY DEF Candidate, Stored
  <2>3. step' \in [Step -> StepRecord]
    BY <2>1, <2>2, StepUpdates DEF StepStatus
  <2>4. stepHandler' \in HandlerRecord /\ stepHandler'.next = "campaign"
    BY <1>1, <2>1, <2>2 DEF CampaignStatus
  <2> QED
    BY <1>2, <2>2, <2>3, <2>4 DEF Advance, CampaignTypeOK, Outdated
<1>3. \A s \in Step, links \in Links : LinkedAfter(s, links) \in SUBSET Task
  BY DEF LinkedAfter, Links, CampaignTypeOK, StepRecord
<1>4. ASSUME NEW s \in Step, NEW evidence \in BOOLEAN, NEW links \in Links,
             NEW outcome \in {"completed", "failed"}, FinishStep(s, outcome, evidence, links)
      PROVE  CampaignTypeOK'
  <2>1. /\ step[s].evidence \/ evidence \in BOOLEAN
        /\ outcome \in StepStatus
    BY DEF StepStatus
  <2>2. step' \in [Step -> StepRecord]
    <3> DEFINE l == LinkedAfter(s, links)
               e == step[s].evidence \/ evidence
    <3>1. l \in SUBSET Task /\ e \in BOOLEAN
      BY <1>3
    <3>2. step' = [step EXCEPT ![s].status = outcome, ![s].linked = l, ![s].evidence = e]
      BY <1>4 DEF FinishStep, CampaignTypeOK
    <3> HIDE DEF l, e
    <3> QED
      BY <2>1, <3>1, <3>2, StepUpdates
  <2>3. /\ campaign.current \in Step \cup {0}
        /\ (IF outcome = "failed" THEN "held" ELSE campaign.status) \in CampaignStatus
    BY DEF CampaignTypeOK, CampaignRecord, CampaignStatus
  <2>4. /\ stepHandler' \in HandlerRecord /\ stepHandler'.next = "campaign"
    <3> DEFINE st == IF outcome = "failed" THEN "held" ELSE campaign.status
    <3>1. stepHandler' = [NoRequest EXCEPT !.next = "campaign", !.status = st,
                                           !.step = campaign.current]
      BY <1>4 DEF FinishStep
    <3>2. st \in CampaignStatus
      BY <2>3
    <3> HIDE DEF st
    <3> QED
      BY <1>1, <2>3, <3>1, <3>2
  <2>5. everDone' \in [Step -> BOOLEAN]
    BY <1>4 DEF FinishStep, CampaignTypeOK
  <2> QED
    BY <1>4, <2>2, <2>4, <2>5 DEF FinishStep, CampaignTypeOK, Outdated
<1>5. ASSUME NEW s \in Step, NEW evidence \in BOOLEAN, NEW links \in Links,
             AttachEvidence(s, evidence, links)
      PROVE  CampaignTypeOK'
  <2> DEFINE l == LinkedAfter(s, links)
             e == step[s].evidence \/ evidence
  <2>1. l \in SUBSET Task /\ e \in BOOLEAN
    BY <1>3
  <2>2. step' = [step EXCEPT ![s].linked = l, ![s].evidence = e]
    BY <1>5 DEF AttachEvidence, CampaignTypeOK
  <2> HIDE DEF l, e
  <2>3. "ready" \in StepStatus
    BY DEF StepStatus
  <2>4. step' \in [Step -> StepRecord]
    BY <2>1, <2>2, <2>3, StepUpdates
  <2> QED
    BY <1>5, <2>4 DEF AttachEvidence, CampaignTypeOK
<1> QED
  BY <1>2, <1>4, <1>5 DEF StepRequest

LEMMA ControlTypes ==
  ASSUME CampaignTypeOK, WriteCampaign \/ ControlRequest
  PROVE  CampaignTypeOK'
<1>1. \A st \in CampaignStatus, c \in Step \cup {0}, n \in BOOLEAN :
        /\ [campaign EXCEPT !.status = st, !.newer = n] \in CampaignRecord
        /\ [campaign EXCEPT !.status = st, !.current = c, !.newer = n] \in CampaignRecord
        /\ [campaign EXCEPT !.newer = n] \in CampaignRecord
  BY DEF CampaignTypeOK, CampaignRecord
<1>2. CASE WriteCampaign
  <2>1. campaign' \in CampaignRecord
    BY <1>1, <1>2 DEF WriteCampaign, UpdatedCampaign, CampaignTypeOK, HandlerRecord
  <2> QED
    BY <1>2, <2>1, RequestShapes DEF WriteCampaign, CampaignTypeOK
<1>3. CASE ControlRequest
  <2>1. campaign' \in CampaignRecord
    BY <1>1, <1>3 DEF ControlRequest, UpdateCampaignState, PreviewControl, ApplyControl,
       WriteStatus, CampaignStatus
  <2>2. UNCHANGED <<step, stepTask, stepHandler, executor, campaignCrashes, imports, everDone>>
    BY <1>3 DEF ControlRequest, UpdateCampaignState, PreviewControl, ApplyControl
  <2>3. shown' \in {"nothing", "current", "outdated", "cut"}
    BY <1>3 DEF ControlRequest, UpdateCampaignState, PreviewControl, ApplyControl, CampaignTypeOK
  <2> QED
    BY <2>1, <2>2, <2>3 DEF CampaignTypeOK
<1> QED
  BY <1>2, <1>3

LEMMA ExecutionTypes ==
  ASSUME CampaignTypeOK, Execution
  PROVE  CampaignTypeOK'
<1>1. ASSUME NEW s \in Step, NEW t \in Task
      PROVE  /\ LinkTask(s, t) \in [Step -> StepRecord]
             /\ MakeTask(s, t) => stepTask' \in [Task -> [status: TaskStatus, of: Step \cup {0}]]
  <2>1. {t} \in SUBSET Task /\ TRUE \in BOOLEAN /\ "ready" \in StepStatus
    BY DEF StepStatus
  <2>2. LinkTask(s, t) \in [Step -> StepRecord]
    BY <2>1, StepUpdates DEF LinkTask
  <2> QED
    BY <2>2 DEF MakeTask, TaskStatus, CampaignTypeOK
<1>2. ASSUME NEW s \in Step, NEW t \in Task, NEW retry \in BOOLEAN, ExecuteStep(s, t, retry)
      PROVE  CampaignTypeOK'
  <2>1. \A r \in HandlerRecord :
          LET q == [r EXCEPT !.next = "link", !.step = s, !.task = t]
          IN  q \in HandlerRecord /\ q.next = "link" /\ q.step = s /\ q.task = t
    BY DEF HandlerRecord
  <2>2. stepHandler' \in HandlerRecord /\ stepHandler'.step = s /\ stepHandler'.task = t
    BY <1>2, <2>1, RequestShapes DEF ExecuteStep
  <2> QED
    BY <1>1, <1>2, <2>2 DEF ExecuteStep, CampaignTypeOK
<1>3. CASE LinkExecution
  BY <1>1, <1>3, RequestShapes DEF LinkExecution, CampaignTypeOK
<1>4. ASSUME NEW x \in Executor, NEW s \in Step, NEW retry \in BOOLEAN, ReadContext(x, s, retry)
      PROVE  CampaignTypeOK'
  BY <1>4 DEF ReadContext, CampaignTypeOK
<1>5. ASSUME NEW x \in Executor, NEW t \in Task, PostTask(x, t)
      PROVE  CampaignTypeOK'
  <2>1. executor[x].step \in Step
    BY <1>5 DEF PostTask, CampaignTypeOK
  <2>2. stepTask' \in [Task -> [status: TaskStatus, of: Step \cup {0}]]
    BY <1>1, <1>5, <2>1 DEF PostTask
  <2> QED
    BY <1>5, <2>1, <2>2 DEF PostTask, CampaignTypeOK
<1>6. ASSUME NEW x \in Executor, LinkPosted(x)
      PROVE  CampaignTypeOK'
  <2>1. executor[x].step \in Step /\ executor[x].task \in Task
    BY <1>6 DEF LinkPosted, CampaignTypeOK
  <2>2. step' \in [Step -> StepRecord]
    BY <1>1, <1>6, <2>1 DEF LinkPosted
  <2> QED
    BY <1>6, <2>2 DEF LinkPosted, CampaignTypeOK, NoExecution
<1>7. ASSUME NEW x \in Executor, ExecutorDies(x)
      PROVE  CampaignTypeOK'
  BY <1>7 DEF ExecutorDies, CampaignTypeOK, NoExecution
<1> QED
  BY <1>2, <1>3, <1>4, <1>5, <1>6, <1>7 DEF Execution

LEMMA TypeStep ==
  ASSUME CampaignTypeOK, [CampaignNext]_campaignVars
  PROVE  CampaignTypeOK'
<1>1. ASSUME NEW t \in Task, NEW s \in TaskStatus \ {"absent"}, TaskBecomes(t, s)
      PROVE  CampaignTypeOK'
  BY <1>1 DEF TaskBecomes, CampaignTypeOK
<1>2. CASE ServerDies
  BY <1>2, RequestShapes, RecordsParameters DEF ServerDies, CampaignTypeOK
<1>3. CASE UNCHANGED campaignVars
  BY <1>3 DEF campaignVars, CampaignTypeOK
<1> QED
  BY <1>1, <1>2, <1>3, ImportingTypes, StepRequestTypes, ControlTypes, ExecutionTypes
     DEF CampaignNext

-----------------------------------------------------------------------------
(* Steps: why they are done, and that they were *)

LEMMA StepFactsKept ==
  ASSUME CampaignTypeOK, CompletedStepHasReason, DoneWasDone, [CampaignNext]_campaignVars
  PROVE  CompletedStepHasReason' /\ DoneWasDone'
<1>1. CASE UNCHANGED <<step, everDone>>
  BY <1>1 DEF CompletedStepHasReason, DoneWasDone, Done
<1>2. CASE StoreStep
  BY <1>2 DEF StoreStep, CampaignTypeOK, StepRecord, CompletedStepHasReason, DoneWasDone, Done
<1>3. CASE Advance
  BY <1>3 DEF Advance, CampaignTypeOK, StepRecord, CompletedStepHasReason, DoneWasDone, Done
<1>4. ASSUME NEW s \in Step, NEW evidence \in BOOLEAN, NEW links \in Links,
             NEW outcome \in {"completed", "failed"}, FinishStep(s, outcome, evidence, links)
      PROVE  CompletedStepHasReason' /\ DoneWasDone'
  <2>1. \A r \in Step \ {s} : step'[r] = step[r] /\ everDone'[r] = everDone[r]
    BY <1>4 DEF FinishStep, CampaignTypeOK
  <2>2. /\ step'[s].status = outcome
        /\ step'[s].linked = LinkedAfter(s, links)
        /\ step'[s].evidence = (step[s].evidence \/ evidence)
    BY <1>4 DEF FinishStep, CampaignTypeOK, StepRecord
  <2>3. everDone'[s] = (everDone[s] \/ outcome = "completed")
    BY <1>4 DEF FinishStep, CampaignTypeOK
  <2>4. outcome = "completed" => evidence \/ LinkedAfter(s, links) # {}
    BY <1>4 DEF FinishStep, WithReason
  <2> QED
    BY <2>1, <2>2, <2>3, <2>4 DEF CompletedStepHasReason, DoneWasDone, Done
<1>5. ASSUME NEW s \in Step, NEW evidence \in BOOLEAN, NEW links \in Links,
             AttachEvidence(s, evidence, links)
      PROVE  CompletedStepHasReason' /\ DoneWasDone'
  BY <1>5 DEF AttachEvidence, WithReason, LinkedAfter, CampaignTypeOK, StepRecord,
     CompletedStepHasReason, DoneWasDone, Done
<1>6. ASSUME NEW s \in Step, NEW t \in Task, step' = LinkTask(s, t), UNCHANGED everDone
      PROVE  CompletedStepHasReason' /\ DoneWasDone'
  BY <1>6 DEF LinkTask, CampaignTypeOK, StepRecord, CompletedStepHasReason, DoneWasDone, Done
<1> QED
  BY <1>1, <1>2, <1>3, <1>4, <1>5, <1>6, StepWrites DEF campaignVars

\* Whatever does not store a step keeps its dependencies, and those stored.
LEMMA StoredStays ==
  ASSUME CampaignTypeOK, [CampaignNext]_campaignVars, ~StoreStep
  PROVE  /\ Stored' = Stored
         /\ \A s \in Step : step'[s].deps = step[s].deps
         /\ \A s \in Step : everDone[s] => everDone'[s]
<1>1. CASE UNCHANGED <<step, everDone>>
  BY <1>1 DEF Stored
<1>2. CASE Advance
  BY <1>2 DEF Advance, Candidate, CampaignTypeOK, StepRecord, Stored
<1>3. ASSUME NEW s \in Step, NEW evidence \in BOOLEAN, NEW links \in Links,
             NEW outcome \in {"completed", "failed"}, FinishStep(s, outcome, evidence, links)
      PROVE  /\ Stored' = Stored
             /\ \A r \in Step : step'[r].deps = step[r].deps
             /\ \A r \in Step : everDone[r] => everDone'[r]
  BY <1>3 DEF FinishStep, CampaignTypeOK, StepRecord, Stored
<1>4. ASSUME NEW s \in Step, NEW evidence \in BOOLEAN, NEW links \in Links,
             AttachEvidence(s, evidence, links)
      PROVE  /\ Stored' = Stored /\ UNCHANGED everDone
             /\ \A r \in Step : step'[r].deps = step[r].deps
  BY <1>4 DEF AttachEvidence, CampaignTypeOK, StepRecord, Stored
<1>5. ASSUME NEW s \in Step, NEW t \in Task, step' = LinkTask(s, t), UNCHANGED everDone
      PROVE  /\ Stored' = Stored /\ UNCHANGED everDone
             /\ \A r \in Step : step'[r].deps = step[r].deps
  BY <1>5 DEF LinkTask, CampaignTypeOK, StepRecord, Stored
<1> QED
  BY <1>1, <1>2, <1>3, <1>4, <1>5, StepWrites DEF campaignVars

-----------------------------------------------------------------------------
(* Between the writes of a request *)

\* A step that is not done is passed by no advance.
LEMMA AdvanceFromDone ==
  ASSUME CampaignTypeOK, Advance
  PROVE  /\ stepHandler'.next = "campaign"
         /\ \E s \in Step : /\ step' = [step EXCEPT ![s].status = "ready"]
                            /\ stepHandler'.step = s
                            /\ step[s].status \notin {"completed", "failed"}
                            /\ campaign.current \in Stored /\ campaign.current # s =>
                                 Done(campaign.current)
<1>1. PICK s \in Candidate :
        /\ GateOpen(s)
        /\ step' = [step EXCEPT ![s].status = "ready"]
        /\ stepHandler' = [NoRequest EXCEPT !.next = "campaign", !.status = "paused", !.step = s]
  BY DEF Advance
<1>2. /\ s \in Step /\ step[s].status \notin {"completed", "failed"}
      /\ campaign.current \in Stored /\ campaign.current # s => Done(campaign.current)
  BY <1>1 DEF Candidate, GateOpen, Stored, Done
<1>3. stepHandler'.next = "campaign" /\ stepHandler'.step = s
  BY <1>1 DEF NoRequest
<1> QED
  BY <1>1, <1>2, <1>3

\* Nothing else is served while the campaign has to be written.
LEMMA WhileCampaign ==
  ASSUME CampaignTypeOK, CampaignNext, stepHandler.next = "campaign"
  PROVE  \/ WriteCampaign \/ ServerDies
         \/ \E x \in Executor : ExecutorDies(x)
BY DEF CampaignNext, Importing, ImportCampaign, SubmitDraft, StartImport, StoreStep, ImportDone,
   Advance, StepRequest, FinishStep, AttachEvidence, ControlRequest, UpdateCampaignState,
   PreviewControl, ApplyControl, Execution, ExecuteStep, LinkExecution, ReadContext, PostTask,
   LinkPosted, TaskBecomes, BetweenRequests

\* What else ends with the campaign still to be written.
LEMMA BecomesCampaign ==
  ASSUME CampaignTypeOK, CampaignNext, stepHandler.next # "campaign",
         stepHandler'.next = "campaign"
  PROVE  \/ Advance
         \/ \E s \in Step, evidence \in BOOLEAN, links \in Links, outcome \in {"completed", "failed"} :
              FinishStep(s, outcome, evidence, links)
<1>1. ~Importing
  <2>1. Importing => stepHandler'.next \in {"idle", "steps"}
    BY RequestShapes DEF Importing, ImportCampaign, SubmitDraft, StartImport, StoreStep, ImportDone,
       CampaignTypeOK, HandlerRecord, NoRequest
  <2> QED
    BY <2>1
<1>2. ~ControlRequest /\ ~ServerDies /\ ~WriteCampaign
  BY RequestShapes DEF ControlRequest, UpdateCampaignState, PreviewControl, ApplyControl,
     ServerDies, WriteCampaign
<1>3. ~Execution
  BY RequestShapes DEF Execution, ExecuteStep, LinkExecution, ReadContext, PostTask,
     LinkPosted, ExecutorDies, NoRequest
<1>4. ~(\E t \in Task, s \in TaskStatus \ {"absent"} : TaskBecomes(t, s))
  BY DEF TaskBecomes
<1>5. ~(\E s \in Step, evidence \in BOOLEAN, links \in Links : AttachEvidence(s, evidence, links))
  BY DEF AttachEvidence
<1> QED
  BY <1>1, <1>2, <1>3, <1>4, <1>5 DEF CampaignNext, StepRequest

LEMMA CurrentKept ==
  ASSUME CampaignTypeOK, CurrentStays, [CampaignNext]_campaignVars
  PROVE  CurrentStays'
<1>1. CASE UNCHANGED campaignVars
  BY <1>1 DEF campaignVars, CurrentStays, Stored, Done
<1>2. CASE CampaignNext /\ stepHandler.next = "campaign"
  <2>1. WriteCampaign \/ ServerDies => stepHandler'.next = "idle"
    BY RequestShapes DEF WriteCampaign, ServerDies
  <2>2. ASSUME NEW x \in Executor, ExecutorDies(x)
        PROVE  CurrentStays'
    BY <2>2 DEF ExecutorDies, CurrentStays, Stored, Done
  <2> QED
    BY <1>2, <2>1, <2>2, WhileCampaign DEF CurrentStays
<1>3. CASE CampaignNext /\ stepHandler.next # "campaign" /\ stepHandler'.next = "campaign"
  <2>1. CASE Advance
    <3>1. PICK s \in Step : /\ step' = [step EXCEPT ![s].status = "ready"]
                            /\ stepHandler'.step = s
                            /\ step[s].status \notin {"completed", "failed"}
                            /\ campaign.current \in Stored /\ campaign.current # s =>
                                 Done(campaign.current)
      BY <2>1, AdvanceFromDone
    <3>2. UNCHANGED campaign
      BY <2>1 DEF Advance
    <3>3. \A r \in Step \ {s} : step'[r] = step[r]
      BY <3>1 DEF CampaignTypeOK
    <3> QED
      BY <3>1, <3>2, <3>3 DEF CurrentStays, Stored, Done
  <2>2. ASSUME NEW s \in Step, NEW evidence \in BOOLEAN, NEW links \in Links,
               NEW outcome \in {"completed", "failed"}, FinishStep(s, outcome, evidence, links)
        PROVE  CurrentStays'
    <3>1. stepHandler'.step = campaign.current /\ UNCHANGED campaign
      BY <2>2 DEF FinishStep, NoRequest
    <3> QED
      BY <3>1 DEF CurrentStays
  <2> QED
    BY <1>3, <2>1, <2>2, BecomesCampaign
<1> QED
  BY <1>1, <1>2, <1>3 DEF CurrentStays

LEMMA OutdatedKept ==
  ASSUME CampaignTypeOK, OutdatedIsNewer, [CampaignNext]_campaignVars
  PROVE  OutdatedIsNewer'
<1>1. CASE UNCHANGED campaignVars
  BY <1>1 DEF campaignVars, OutdatedIsNewer
<1>2. CASE CampaignNext /\ stepHandler.next = "campaign"
  <2>1. CASE WriteCampaign
    BY <2>1 DEF WriteCampaign, UpdatedCampaign, CampaignTypeOK, CampaignRecord, OutdatedIsNewer
  <2>2. CASE ServerDies
    BY <1>2, <2>2 DEF ServerDies, OutdatedIsNewer, CampaignTypeOK
  <2>3. ASSUME NEW x \in Executor, ExecutorDies(x)
        PROVE  OutdatedIsNewer'
    BY <2>3 DEF ExecutorDies, OutdatedIsNewer
  <2> QED
    BY <1>2, <2>1, <2>2, <2>3, WhileCampaign
<1>3. CASE CampaignNext /\ stepHandler.next # "campaign"
  <2>1. CASE Importing
    <3>1. Importing => \/ campaign'.newer = TRUE
                       \/ UNCHANGED <<campaign, shown>>
      <4>1. ASSUME NEW pack, NEW st, NEW source, StartImport(pack, st, source)
            PROVE  campaign'.newer = TRUE
        BY <4>1 DEF StartImport
      <4>2. StoreStep \/ ImportDone => UNCHANGED <<campaign, shown>>
        BY DEF StoreStep, ImportDone
      <4>3. Importing => \/ StoreStep \/ ImportDone
                         \/ \E pack, st, source : StartImport(pack, st, source)
        BY Zenon DEF Importing, ImportCampaign, SubmitDraft
      <4> QED
        BY <4>1, <4>2, <4>3
    <3> QED
      BY <1>3, <2>1, <3>1 DEF OutdatedIsNewer
  <2>2. CASE ControlRequest
    BY <1>3, <2>2 DEF ControlRequest, UpdateCampaignState, PreviewControl, ApplyControl, WriteStatus,
       OutdatedIsNewer, CampaignTypeOK, CampaignRecord
  <2>3. CASE Execution \/ WriteCampaign
    BY <1>3, <2>3 DEF Execution, ExecuteStep, LinkExecution, ReadContext, PostTask, LinkPosted,
       ExecutorDies, WriteCampaign, OutdatedIsNewer
  <2>4. CASE Advance
    BY <2>4, AdvanceFromDone DEF OutdatedIsNewer
  <2>5. ASSUME NEW s \in Step, NEW evidence \in BOOLEAN, NEW links \in Links,
               NEW outcome \in {"completed", "failed"}, FinishStep(s, outcome, evidence, links)
        PROVE  OutdatedIsNewer'
    BY <2>5 DEF FinishStep, NoRequest, OutdatedIsNewer
  <2>6. ASSUME NEW s \in Step, NEW evidence \in BOOLEAN, NEW links \in Links,
               AttachEvidence(s, evidence, links)
        PROVE  OutdatedIsNewer'
    BY <1>3, <2>6 DEF AttachEvidence, OutdatedIsNewer
  <2>7. ASSUME NEW t \in Task, NEW s \in TaskStatus \ {"absent"}, TaskBecomes(t, s)
        PROVE  OutdatedIsNewer'
    BY <1>3, <2>7 DEF TaskBecomes, OutdatedIsNewer
  <2>8. CASE ServerDies
    BY <1>3, <2>8 DEF ServerDies, OutdatedIsNewer
  <2> QED
    BY <1>3, <2>1, <2>2, <2>3, <2>4, <2>5, <2>6, <2>7, <2>8 DEF CampaignNext, StepRequest
<1> QED
  BY <1>1, <1>2, <1>3

-----------------------------------------------------------------------------
(* The first import *)

\* What a step may change about the tasks and executions of steps.
LEMMA ExecutionWrites ==
  ASSUME CampaignTypeOK, [CampaignNext]_campaignVars
  PROVE  \/ UNCHANGED stepTask /\ \A x \in Executor : executor'[x].pc = "create" =>
              executor'[x] = executor[x]
         \/ /\ ~StoreStep /\ UNCHANGED stepTask
            /\ \E x \in Executor, s \in Step : /\ s \in Stored /\ DependenciesDone(s)
                                               /\ executor'[x].step = s
                                               /\ \A y \in Executor \ {x} : executor'[y] = executor[y]
         \/ /\ ~StoreStep
            /\ \A x \in Executor : executor'[x].pc = "create" => executor'[x] = executor[x]
            /\ \E s \in Step, t \in Task :
                 /\ \/ s \in Stored /\ DependenciesDone(s)
                    \/ \E x \in Executor : executor[x].pc = "create" /\ executor[x].step = s
                 /\ stepTask'[t].of = s
                 /\ \A u \in Task \ {t} : stepTask'[u] = stepTask[u]
         \/ /\ ~StoreStep /\ UNCHANGED executor
            /\ \A t \in Task : stepTask'[t].of = stepTask[t].of
<1>1. ASSUME NEW s \in Step, NEW retry \in BOOLEAN, Executable(s, retry)
      PROVE  s \in Stored /\ DependenciesDone(s)
  BY <1>1 DEF Executable, Stored
<1>2. ASSUME NEW s \in Step, NEW t \in Task, MakeTask(s, t)
      PROVE  stepTask'[t].of = s /\ \A u \in Task \ {t} : stepTask'[u] = stepTask[u]
  BY <1>2 DEF MakeTask, CampaignTypeOK
<1>3. BetweenRequests => ~StoreStep
  BY DEF BetweenRequests, StoreStep
<1>4. ASSUME NEW s \in Step, NEW t \in Task, NEW retry \in BOOLEAN, ExecuteStep(s, t, retry)
      PROVE  /\ ~StoreStep /\ UNCHANGED executor
             /\ s \in Stored /\ DependenciesDone(s)
             /\ stepTask'[t].of = s /\ \A u \in Task \ {t} : stepTask'[u] = stepTask[u]
  BY <1>1, <1>2, <1>3, <1>4 DEF ExecuteStep
<1>5. ASSUME NEW x \in Executor, NEW s \in Step, NEW retry \in BOOLEAN, ReadContext(x, s, retry)
      PROVE  /\ ~StoreStep /\ UNCHANGED stepTask
             /\ s \in Stored /\ DependenciesDone(s)
             /\ executor'[x].step = s /\ \A y \in Executor \ {x} : executor'[y] = executor[y]
  BY <1>1, <1>3, <1>5 DEF ReadContext, CampaignTypeOK
<1>6. ASSUME NEW x \in Executor, NEW t \in Task, PostTask(x, t)
      PROVE  /\ ~StoreStep
             /\ \A y \in Executor : executor'[y].pc = "create" => executor'[y] = executor[y]
             /\ executor[x].step \in Step /\ executor[x].pc = "create"
             /\ stepTask'[t].of = executor[x].step
             /\ \A u \in Task \ {t} : stepTask'[u] = stepTask[u]
  BY <1>2, <1>3, <1>6 DEF PostTask, CampaignTypeOK
<1>7. ASSUME NEW x \in Executor, LinkPosted(x) \/ ExecutorDies(x)
      PROVE  /\ UNCHANGED stepTask
             /\ \A y \in Executor : executor'[y].pc = "create" => executor'[y] = executor[y]
  BY <1>7 DEF LinkPosted, ExecutorDies, NoExecution, CampaignTypeOK
<1>8. ASSUME NEW t \in Task, NEW s \in TaskStatus \ {"absent"}, TaskBecomes(t, s)
      PROVE  /\ ~StoreStep /\ UNCHANGED executor
             /\ \A u \in Task : stepTask'[u].of = stepTask[u].of
  BY <1>3, <1>8 DEF TaskBecomes, CampaignTypeOK
<1>9. Importing \/ Advance \/ WriteCampaign \/ StepRequest \/ ControlRequest \/ LinkExecution
        \/ ServerDies \/ UNCHANGED campaignVars
        => UNCHANGED <<stepTask, executor>>
  BY DEF Importing, ImportCampaign, SubmitDraft, StartImport, StoreStep, ImportDone, Advance,
     WriteCampaign, StepRequest, FinishStep, AttachEvidence, ControlRequest, UpdateCampaignState,
     PreviewControl, ApplyControl, LinkExecution, ServerDies, campaignVars
<1> QED
  <2>1. CASE \E s \in Step, t \in Task, retry \in BOOLEAN : ExecuteStep(s, t, retry)
    BY <1>4, <2>1
  <2>2. CASE \E x \in Executor, s \in Step, retry \in BOOLEAN : ReadContext(x, s, retry)
    BY <1>5, <2>2
  <2>3. CASE \E x \in Executor, t \in Task : PostTask(x, t)
    BY <1>6, <2>3
  <2>4. CASE \E x \in Executor : LinkPosted(x) \/ ExecutorDies(x)
    BY <1>7, <2>4
  <2>5. CASE \E t \in Task, s \in TaskStatus \ {"absent"} : TaskBecomes(t, s)
    BY <1>8, <2>5
  <2>6. CASE UNCHANGED <<stepTask, executor>>
    BY <2>6
  <2> QED
    BY <1>9, <2>1, <2>2, <2>3, <2>4, <2>5, <2>6 DEF CampaignNext, Execution

\* The number of imports, and the pack that is being stored.
LEMMA ImportWrites ==
  ASSUME CampaignTypeOK, [CampaignNext]_campaignVars, ~StoreStep
  PROVE  \/ imports' = imports + 1
         \/ imports' = imports /\ (stepHandler'.next = "steps" => UNCHANGED stepHandler)
<1>1. CASE Importing
  BY <1>1, RequestShapes DEF Importing, ImportCampaign, SubmitDraft, StartImport, ImportDone
<1>2. CASE Advance \/ StepRequest
  <2>1. Advance => stepHandler'.next = "campaign" /\ UNCHANGED imports
    BY AdvanceFromDone DEF Advance
  <2>2. ASSUME NEW s \in Step, NEW evidence \in BOOLEAN, NEW links \in Links,
               NEW outcome \in {"completed", "failed"}, FinishStep(s, outcome, evidence, links)
        PROVE  stepHandler'.next = "campaign" /\ UNCHANGED imports
    BY <2>2 DEF FinishStep, NoRequest
  <2>3. ASSUME NEW s \in Step, NEW evidence \in BOOLEAN, NEW links \in Links,
               AttachEvidence(s, evidence, links)
        PROVE  UNCHANGED <<stepHandler, imports>>
    BY <2>3 DEF AttachEvidence
  <2> QED
    BY <1>2, <2>1, <2>2, <2>3 DEF StepRequest
<1>3. CASE ControlRequest \/ WriteCampaign \/ ServerDies
  BY <1>3, RequestShapes DEF ControlRequest, UpdateCampaignState, PreviewControl, ApplyControl,
     WriteCampaign, ServerDies
<1>4. CASE Execution
  BY <1>4, RequestShapes DEF Execution, ExecuteStep, LinkExecution, ReadContext, PostTask,
     LinkPosted, ExecutorDies, NoRequest
<1>5. CASE \E t \in Task, s \in TaskStatus \ {"absent"} : TaskBecomes(t, s)
  BY <1>5 DEF TaskBecomes
<1>6. CASE UNCHANGED campaignVars
  BY <1>6 DEF campaignVars
<1> QED
  BY <1>1, <1>2, <1>3, <1>4, <1>5, <1>6 DEF CampaignNext

\* A step whose dependencies are done now may have been executed.
LEMMA ExecutableWas ==
  ASSUME CampaignTypeOK, DoneWasDone, NEW s \in Stored, DependenciesDone(s)
  PROVE  WasExecutable(s)
<1>1. step[s].deps \in SUBSET Step
  BY DEF Stored, CampaignTypeOK, StepRecord
<1> QED
  BY <1>1 DEF DependenciesDone, WasExecutable, DoneWasDone

LEMMA FirstImportKept ==
  ASSUME CampaignTypeOK, DoneWasDone, FirstImport, [CampaignNext]_campaignVars
  PROVE  FirstImport'
<1>1. CASE StoreStep
  <2> DEFINE s == Min(DOMAIN stepHandler.todo)
  <2>1. s \in DOMAIN stepHandler.todo /\ s \in Step
    BY <1>1, PackTypes, LowestStep DEF StoreStep, CampaignTypeOK, HandlerRecord
  <2>2. /\ stepHandler.next = "steps" /\ stepHandler'.next = "steps"
        /\ stepHandler'.todo = [i \in DOMAIN stepHandler.todo \ {s} |-> stepHandler.todo[i]]
        /\ UNCHANGED <<stepTask, executor, imports, everDone>>
    BY <1>1 DEF StoreStep, CampaignTypeOK, HandlerRecord
  <2>3. \A r \in Step \ {s} : step'[r] = step[r]
    BY <1>1 DEF StoreStep, CampaignTypeOK
  <2> HIDE DEF s
  <2>4. imports <= 1 => s \notin Stored
    BY <2>1, <2>2 DEF FirstImport
  <2>5. \A r \in Step : imports <= 1 /\ WasExecutable(r) => r # s /\ WasExecutable(r)'
    BY <2>2, <2>3, <2>4 DEF WasExecutable, Stored
  <2>6. \A r \in DOMAIN stepHandler'.todo : imports <= 1 => r \notin Stored'
    <3>1. \A r \in DOMAIN stepHandler'.todo : r \in DOMAIN stepHandler.todo /\ r # s
      BY <2>2
    <3> QED
      BY <2>2, <2>3, <3>1 DEF FirstImport, Stored
  <2> QED
    BY <2>2, <2>5, <2>6 DEF FirstImport
<1>2. CASE ~StoreStep
  <2>1. /\ Stored' = Stored
        /\ \A r \in Step : step'[r].deps = step[r].deps
        /\ \A r \in Step : everDone[r] => everDone'[r]
    BY <1>2, StoredStays
  <2>2. \A r \in Step : WasExecutable(r) => WasExecutable(r)'
    <3>1. \A r \in Step : step[r].deps \in SUBSET Step
      BY DEF CampaignTypeOK, StepRecord
    <3> QED
      BY <2>1, <3>1 DEF WasExecutable
  <2>3. imports \in Nat
    BY DEF CampaignTypeOK
  <2>4. imports' = imports + 1 \/ imports' = imports
    BY <1>2, ImportWrites
  <2>5. /\ imports' = 0 => Stored' = {} /\ stepHandler'.next # "steps"
        /\ imports' <= 1 /\ stepHandler'.next = "steps"
             => \A s \in DOMAIN stepHandler'.todo : s \notin Stored'
    BY <1>2, <2>1, <2>3, ImportWrites DEF FirstImport
  <2>6. ASSUME imports' <= 1
        PROVE  /\ \A t \in Task : stepTask'[t].of \in Step => WasExecutable(stepTask'[t].of)
               /\ \A x \in Executor : executor'[x].pc = "create" =>
                    executor'[x].step \in Step /\ WasExecutable(executor'[x].step)
    <3>1. /\ \A t \in Task : stepTask[t].of \in Step => WasExecutable(stepTask[t].of)
          /\ \A x \in Executor : executor[x].pc = "create" =>
               executor[x].step \in Step /\ WasExecutable(executor[x].step)
      BY <2>3, <2>4, <2>6 DEF FirstImport
    <3>2. \A s \in Step : s \in Stored /\ DependenciesDone(s) => WasExecutable(s)
      BY ExecutableWas
    <3> QED
      BY <3>1, <3>2, ExecutionWrites
  <2>7. ASSUME imports' <= 1
        PROVE  /\ \A t \in Task : stepTask'[t].of \in Step => WasExecutable(stepTask[t].of)'
               /\ \A x \in Executor : executor'[x].pc = "create" =>
                    executor'[x].step \in Step /\ WasExecutable(executor[x].step)'
    BY <2>2, <2>6, <2>7 DEF WasExecutable
  <2> QED
    BY <2>5, <2>7 DEF FirstImport
<1> QED
  BY <1>1, <1>2

-----------------------------------------------------------------------------
(* Theorems *)

LEMMA CampaignInvStep == CampaignInv /\ [CampaignNext]_campaignVars => CampaignInv'
BY TypeStep, StepFactsKept, CurrentKept, OutdatedKept, FirstImportKept DEF CampaignInv

\* The inductive invariant holds for every value of the constants.
THEOREM CampaignInvariance == CampaignSpec => []CampaignInv
<1>1. CampaignInit => CampaignInv
  BY InitCampaignInv
<1>2. CampaignInv /\ [CampaignNext]_campaignVars => CampaignInv'
  BY CampaignInvStep
<1> QED
  BY <1>1, <1>2, PTL DEF CampaignSpec

\* The records keep the shape the handlers give them.
THEOREM CampaignTypes == CampaignSpec => []CampaignTypeOK
<1>1. CampaignInv => CampaignTypeOK
  BY DEF CampaignInv
<1> QED
  BY <1>1, CampaignInvariance, PTL

\* A completed step has evidence or a linked task (finishCampaignStep and
\* attachCampaignEvidence), whatever is attached to it later.
THEOREM CompletedHasReason == CampaignSpec => []CompletedStepHasReason
<1>1. CampaignInv => CompletedStepHasReason
  BY DEF CampaignInv
<1> QED
  BY <1>1, CampaignInvariance, PTL

\* Until a second import, no step has a task before what it depends on was completed: the
\* server's execute route and execute-step look at all dependencies, and done is done.
THEOREM ExecutedInOrder == CampaignSpec => []ExecutedAfterDependencies
<1>1. CampaignInv => ExecutedAfterDependencies
  BY DEF CampaignInv, FirstImport, WasExecutable, ExecutedAfterDependencies
<1> QED
  BY <1>1, CampaignInvariance, PTL

\* No advance, execution or crash puts a finished step back.
THEOREM FinishedIsFinal == CampaignSpec => FinishedStaysFinished
<1> DEFINE A == \A s \in Step : step[s].status \in {"completed", "failed"}
                  => step'[s].status \in {"completed", "failed"} \/ stepHandler.next = "steps"
<1>1. CampaignInv /\ [CampaignNext]_campaignVars => [A]_campaignVars
  <2> SUFFICES ASSUME CampaignTypeOK, [CampaignNext]_campaignVars
               PROVE  A
    BY DEF CampaignInv
  <2>1. CASE UNCHANGED <<step, everDone>>
    BY <2>1
  <2>2. CASE StoreStep
    BY <2>2 DEF StoreStep
  <2>3. CASE Advance
    BY <2>3, AdvanceFromDone DEF CampaignTypeOK
  <2>4. ASSUME NEW s \in Step, NEW evidence \in BOOLEAN, NEW links \in Links,
               NEW outcome \in {"completed", "failed"}, FinishStep(s, outcome, evidence, links)
        PROVE  A
    BY <2>4 DEF FinishStep, CampaignTypeOK, StepRecord
  <2>5. ASSUME NEW s \in Step, NEW evidence \in BOOLEAN, NEW links \in Links,
               AttachEvidence(s, evidence, links)
        PROVE  A
    BY <2>5 DEF AttachEvidence, CampaignTypeOK, StepRecord
  <2>6. ASSUME NEW s \in Step, NEW t \in Task, step' = LinkTask(s, t)
        PROVE  A
    BY <2>6 DEF LinkTask, CampaignTypeOK, StepRecord
  <2> QED
    BY <2>1, <2>2, <2>3, <2>4, <2>5, <2>6, StepWrites DEF campaignVars
<1> QED
  BY <1>1, CampaignInvariance, PTL DEF CampaignSpec, FinishedStaysFinished

\* The queue stays at a failed step, also when the crash in the report of the failure left
\* the campaign unaware of it.
THEOREM FailureStopsQueue == CampaignSpec => FailedStepStopsQueue
<1> DEFINE A == (campaign.current \in Step /\ step[campaign.current].status = "failed"
                   /\ campaign'.current # campaign.current)
                  => stepHandler'.next = "steps"
<1>1. CampaignInv /\ [CampaignNext]_campaignVars => [A]_campaignVars
  <2> SUFFICES ASSUME CampaignTypeOK, CurrentStays, [CampaignNext]_campaignVars
               PROVE  A
    BY DEF CampaignInv
  <2>1. CASE WriteCampaign
    <3>1. campaign'.current = stepHandler.step /\ stepHandler.next = "campaign"
      BY <2>1 DEF WriteCampaign, UpdatedCampaign, CampaignTypeOK, CampaignRecord
    <3> QED
      BY <3>1 DEF CurrentStays, Stored, Done
  <2>2. CASE Importing
    <3>1. Importing => stepHandler'.next = "steps" \/ UNCHANGED campaign
      BY DEF Importing, ImportCampaign, SubmitDraft, StartImport, StoreStep, ImportDone, NoRequest
    <3> QED
      BY <2>2, <3>1
  <2>3. CASE ControlRequest
    BY <2>3 DEF ControlRequest, UpdateCampaignState, PreviewControl, ApplyControl, WriteStatus,
       CampaignTypeOK, CampaignRecord
  <2>4. CASE UNCHANGED campaign
    BY <2>4
  <2>5. Advance \/ StepRequest \/ Execution \/ ServerDies \/ UNCHANGED campaignVars
        => UNCHANGED campaign
    BY DEF Advance, StepRequest, FinishStep, AttachEvidence, Execution, ExecuteStep, LinkExecution,
       ReadContext, PostTask, LinkPosted, ExecutorDies, ServerDies, campaignVars
  <2>6. (\E t \in Task, s \in TaskStatus \ {"absent"} : TaskBecomes(t, s)) => UNCHANGED campaign
    BY DEF TaskBecomes
  <2> QED
    BY <2>1, <2>2, <2>3, <2>4, <2>5, <2>6 DEF CampaignNext
<1> QED
  BY <1>1, CampaignInvariance, PTL DEF CampaignSpec, FailedStepStopsQueue

\* A control is applied to the steps that its preview showed, unless the server died
\* between the writes of a finish or an advance.
THEOREM ControlSees == CampaignSpec => ControlSeesSteps
<1>1. CampaignInv => ((\E s \in {"paused", "held"} : ApplyControl(s)) => shown \in {"current", "cut"})
  <2> SUFFICES ASSUME CampaignTypeOK, OutdatedIsNewer, NEW s \in {"paused", "held"}, ApplyControl(s)
               PROVE  shown \in {"current", "cut"}
    BY DEF CampaignInv
  <2> QED
    BY DEF ApplyControl, BetweenRequests, OutdatedIsNewer, CampaignTypeOK
<1>2. CampaignInv /\ [CampaignNext]_campaignVars
        => [(\E s \in {"paused", "held"} : ApplyControl(s)) => shown \in {"current", "cut"}]_campaignVars
  BY <1>1
<1> QED
  BY <1>2, CampaignInvariance, PTL DEF CampaignSpec, ControlSeesSteps

=============================================================================
