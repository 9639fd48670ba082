---------------------------- MODULE PlanningProofs ----------------------------
(***************************************************************************)
(* Theorems about sessions, reviews and conversions, for any proposals,    *)
(* tasks, dedupe keys and number of crashes.  None of the properties is    *)
(* inductive: they need what is true between the two writes of a           *)
(* conversion (MarkHasTask), that a converted proposal was made into a     *)
(* task (ConvertedWasMade), and how many conversions an approval is still  *)
(* good for (ApprovalsCover).                                              *)
(***************************************************************************)
EXTENDS Planning, TLAPS

\* The conversion of p is between its two writes.
Marking(p) == planHandler.next = "mark" /\ planHandler.of = p

\* The task of the conversion under way is stored.
MarkHasTask ==
  planHandler.next = "mark" =>
    taskRecord[planHandler.into].exists /\ made[planHandler.of].tasks > 0

ConvertedWasMade ==
  \A p \in Proposal : proposal[p].status = "converted" => made[p].tasks > 0

\* Tasks made, and the one that the present approval allows.
ApprovalsCover ==
  \A p \in Proposal :
    IF proposal[p].status = "approved" /\ ~Marking(p)
    THEN made[p].tasks + 1 <= approvals[p] + made[p].cut
    ELSE made[p].tasks <= approvals[p] + made[p].cut

\* The inductive invariant.
PlanningInv ==
  /\ PlanningTypeOK
  /\ MarkHasTask
  /\ ConvertedWasMade
  /\ ApprovalsCover
  /\ ConvertedHasTask
  /\ DependenciesFirst

-----------------------------------------------------------------------------
LEMMA RequestTypes ==
  /\ NothingToWrite \in PlanRequest
  /\ NothingToWrite.next = "idle"
  /\ \A s \in Seq(Draft) :
       /\ [NothingToWrite EXCEPT !.next = "proposals", !.todo = s] \in PlanRequest
       /\ [NothingToWrite EXCEPT !.next = "proposals", !.todo = s].next = "proposals"
<1>1. NothingToWrite \in PlanRequest /\ NothingToWrite.next = "idle"
  <2>1. <<>> \in Seq(Draft)
    OBVIOUS
  <2> QED
    BY <2>1 DEF NothingToWrite, PlanRequest
<1>2. ASSUME NEW s \in Seq(Draft)
      PROVE  /\ [NothingToWrite EXCEPT !.next = "proposals", !.todo = s] \in PlanRequest
             /\ [NothingToWrite EXCEPT !.next = "proposals", !.todo = s].next = "proposals"
  BY <1>1 DEF PlanRequest
<1> QED
  BY <1>1, <1>2

\* A task that was posted.
LEMMA PostedTask ==
  LET posted == [NoTask EXCEPT !.exists = TRUE]
  IN  /\ posted \in [exists: BOOLEAN, source: Proposal \cup {None}, needs: SUBSET Proposal]
      /\ posted.exists /\ posted.source = None /\ posted.needs = {}
BY DEF NoTask

\* A review, and the mark of a conversion, keep the shape of a proposal.
LEMMA ProposalUpdates ==
  ASSUME NEW r \in ProposalRecord, NEW s \in ProposalStatus,
         NEW d \in SUBSET Proposal
  PROVE  /\ [r EXCEPT !.status = s, !.dependencies = d] \in ProposalRecord
         /\ \A t \in TaskId : [r EXCEPT !.status = s, !.convertedTask = t] \in ProposalRecord
<1>1. [r EXCEPT !.status = s] \in ProposalRecord
  BY DEF ProposalRecord
<1>2. [r EXCEPT !.status = s, !.dependencies = d] \in ProposalRecord
  BY <1>1 DEF ProposalRecord
<1>3. ASSUME NEW t \in TaskId
      PROVE  [r EXCEPT !.status = s, !.convertedTask = t] \in ProposalRecord
  <2>1. t \in TaskId \cup {None}
    OBVIOUS
  <2> QED
    BY <1>1, <2>1 DEF ProposalRecord
<1> QED
  BY <1>2, <1>3

LEMMA InitPlanningInv == PlanningInit => PlanningInv
<1> SUFFICES ASSUME PlanningInit
             PROVE  PlanningInv
  OBVIOUS
<1>1. PlanningTypeOK
  <2>1. /\ planHandler.next = "idle"
        /\ planHandler \in PlanRequest
    BY RequestTypes DEF PlanningInit
  <2>2. proposal \in [Proposal -> ProposalRecord]
    BY DEF PlanningInit, NoProposal, ProposalRecord, ProposalStatus
  <2>3. taskRecord \in [TaskId -> [exists: BOOLEAN, source: Proposal \cup {None},
                         needs: SUBSET Proposal]]
    BY DEF PlanningInit, NoTask
  <2>4. /\ sessions \in Nat /\ planCrashes \in Nat
        /\ approvals \in [Proposal -> Nat]
        /\ made \in [Proposal -> [tasks: Nat, cut: Nat]]
    BY DEF PlanningInit
  <2> QED
    BY <2>1, <2>2, <2>3, <2>4 DEF PlanningTypeOK
<1>2. MarkHasTask /\ ConvertedWasMade /\ ConvertedHasTask
  BY DEF PlanningInit, MarkHasTask, ConvertedWasMade, ConvertedHasTask, NothingToWrite,
         NoProposal
<1>3. ApprovalsCover /\ DependenciesFirst
  BY DEF PlanningInit, ApprovalsCover, DependenciesFirst, NoProposal, NoTask
<1> QED
  BY <1>1, <1>2, <1>3 DEF PlanningInv

\* Starting, refusing and ending a session touch no proposal and no task.
LEMMA SessionStepsKeep ==
  ASSUME PlanningInv,
         (\E s \in Session : SubmitSession(s)) \/ ProposalRefused \/ SessionDone
  PROVE  PlanningInv'
<1>1. /\ UNCHANGED <<proposal, taskRecord, planCrashes, approvals, made>>
      /\ sessions' \in Nat
      /\ planHandler.next # "mark" /\ planHandler'.next \in {"idle", "proposals"}
      /\ planHandler' \in PlanRequest
  <2>1. CASE ProposalRefused \/ SessionDone
    BY <2>1, RequestTypes DEF PlanningInv, PlanningTypeOK, ProposalRefused, SessionDone
  <2>2. CASE \E s \in Session : SubmitSession(s)
    <3>1. PICK s \in Session : SubmitSession(s)
      BY <2>2
    <3>2. s \in Seq(Draft)
      BY DEF Session
    <3>3. planHandler' \in PlanRequest /\ planHandler'.next = "proposals"
      BY <3>1, <3>2, RequestTypes DEF SubmitSession
    <3>4. /\ UNCHANGED <<proposal, taskRecord, planCrashes, approvals, made>>
          /\ sessions' = sessions + 1 /\ planHandler.next = "idle"
      BY <3>1 DEF SubmitSession, Resting
    <3> QED
      BY <3>3, <3>4 DEF PlanningInv, PlanningTypeOK
  <2> QED
    BY <2>1, <2>2
<1>2. PlanningTypeOK'
  BY <1>1 DEF PlanningInv, PlanningTypeOK
<1>3. MarkHasTask' /\ ConvertedWasMade' /\ ConvertedHasTask' /\ DependenciesFirst'
  BY <1>1 DEF PlanningInv, MarkHasTask, ConvertedWasMade, ConvertedHasTask, DependenciesFirst
<1>4. ApprovalsCover'
  BY <1>1 DEF PlanningInv, ApprovalsCover, Marking
<1> QED
  BY <1>2, <1>3, <1>4 DEF PlanningInv

\* A proposal that is submitted again loses its review and its link.
LEMMA StoreProposalKeeps ==
  ASSUME PlanningInv, StoreProposal
  PROVE  PlanningInv'
<1> DEFINE d == Head(planHandler.todo)
<1>1. d \in Draft /\ Tail(planHandler.todo) \in Seq(Draft)
  BY DEF PlanningInv, PlanningTypeOK, PlanRequest, StoreProposal
<1>2. /\ d.id \in Proposal /\ d.key \in Key /\ d.dependsOn \in SUBSET Proposal
      /\ proposal' = [proposal EXCEPT ![d.id] = ParsedProposal(d)]
      /\ ParsedProposal(d).status = "proposed"
  BY <1>1 DEF StoreProposal, Draft, ParsedProposal
<1>3. /\ planHandler.next = "proposals" /\ planHandler'.next = "proposals"
      /\ planHandler' \in PlanRequest
      /\ UNCHANGED <<taskRecord, sessions, planCrashes, approvals, made>>
  BY <1>1 DEF PlanningInv, PlanningTypeOK, PlanRequest, StoreProposal
<1>4. PlanningTypeOK'
  BY <1>2, <1>3 DEF PlanningInv, PlanningTypeOK, ParsedProposal, ProposalRecord, ProposalStatus
<1>5. MarkHasTask' /\ DependenciesFirst'
  BY <1>3 DEF PlanningInv, MarkHasTask, DependenciesFirst
<1>6. ConvertedWasMade' /\ ConvertedHasTask' /\ ApprovalsCover'
  BY <1>2, <1>3 DEF PlanningInv, PlanningTypeOK, ConvertedWasMade, ConvertedHasTask,
                    ApprovalsCover, Marking
<1> QED
  BY <1>4, <1>5, <1>6 DEF PlanningInv

\* A review gives the proposal an approval that is good for one conversion.
LEMMA ReviewKeeps ==
  ASSUME PlanningInv, NEW p \in Proposal, NEW s \in ReviewStatus,
         NEW added \in SUBSET (Proposal \ {p}), ReviewProposal(p, s, added)
  PROVE  PlanningInv'
<1>1. /\ proposal' = [proposal EXCEPT ![p].status = s, ![p].dependencies = added]
      /\ proposal[p].status # "absent" /\ planHandler.next = "idle"
      /\ UNCHANGED <<taskRecord, sessions, planHandler, planCrashes, made>>
  BY DEF ReviewProposal, StoredProposals, Resting
<1>2. approvals' = IF s = "approved" /\ proposal[p].status # "approved"
                   THEN [approvals EXCEPT ![p] = @ + 1] ELSE approvals
  BY DEF ReviewProposal
<1>3. s \in {"approved", "rejected"} /\ added \in SUBSET Proposal
  BY DEF ReviewStatus
<1>4. PlanningTypeOK'
  <2> DEFINE reviewed == [proposal[p] EXCEPT !.status = s, !.dependencies = added]
  <2>1. reviewed \in ProposalRecord
    <3>1. s \in ProposalStatus
      BY <1>3 DEF ProposalStatus, ReviewStatus
    <3>2. proposal[p] \in ProposalRecord
      BY DEF PlanningInv, PlanningTypeOK
    <3> QED
      BY <1>3, <3>1, <3>2, ProposalUpdates
  <2>2. proposal' = [proposal EXCEPT ![p] = reviewed]
    BY <1>1
  <2>3. approvals' \in [Proposal -> Nat]
    BY <1>2 DEF PlanningInv, PlanningTypeOK
  <2> HIDE DEF reviewed
  <2> QED
    BY <1>1, <2>1, <2>2, <2>3 DEF PlanningInv, PlanningTypeOK
<1>5. MarkHasTask' /\ DependenciesFirst'
  BY <1>1 DEF PlanningInv, MarkHasTask, DependenciesFirst
<1>6. ConvertedWasMade' /\ ConvertedHasTask'
  BY <1>1, <1>3 DEF PlanningInv, PlanningTypeOK, ConvertedWasMade, ConvertedHasTask
<1>7. ApprovalsCover'
  BY <1>1, <1>2, <1>3 DEF PlanningInv, PlanningTypeOK, ApprovalsCover, Marking
<1> QED
  BY <1>4, <1>5, <1>6, <1>7 DEF PlanningInv

\* The first write of a conversion uses the approval up.
LEMMA ConvertKeeps ==
  ASSUME PlanningInv, NEW p \in Proposal, NEW t \in TaskId, ConvertProposal(p, t)
  PROVE  PlanningInv'
<1>1. /\ planHandler.next = "idle" /\ proposal[p].status = "approved" /\ ~taskRecord[t].exists
      /\ \A d \in ProposalDependencies(p) : proposal[d].status = "converted"
      /\ UNCHANGED <<proposal, sessions, planCrashes, approvals>>
  BY DEF ConvertProposal, Resting, ValidConversion, TaskIdFree
<1>2. /\ taskRecord' = [taskRecord EXCEPT ![t] = [exists |-> TRUE, source |-> p,
                                              needs |-> ProposalDependencies(p)]]
      /\ made' = [made EXCEPT ![p].tasks = @ + 1]
      /\ planHandler' = [next |-> "mark", todo |-> <<>>, of |-> p, into |-> t]
  BY DEF ConvertProposal, NothingToWrite
<1>3. ProposalDependencies(p) \in SUBSET Proposal
  BY DEF PlanningInv, PlanningTypeOK, ProposalRecord, ProposalDependencies
<1>4. /\ made' \in [Proposal -> [tasks: Nat, cut: Nat]]
      /\ made'[p].tasks = made[p].tasks + 1 /\ made'[p].cut = made[p].cut
      /\ \A q \in Proposal \ {p} : made'[q] = made[q]
      /\ \A q \in Proposal : made[q].tasks \in Nat /\ made[q].cut \in Nat
  BY <1>2 DEF PlanningInv, PlanningTypeOK
<1>5. PlanningTypeOK'
  <2>1. taskRecord' \in [TaskId -> [exists: BOOLEAN, source: Proposal \cup {None},
                                   needs: SUBSET Proposal]]
    BY <1>2, <1>3 DEF PlanningInv, PlanningTypeOK
  <2>2. planHandler' \in PlanRequest
    BY <1>2 DEF PlanRequest
  <2> QED
    BY <1>1, <1>2, <1>4, <2>1, <2>2 DEF PlanningInv, PlanningTypeOK
<1>6. MarkHasTask' /\ ConvertedWasMade' /\ ConvertedHasTask'
  BY <1>1, <1>2, <1>4
     DEF PlanningInv, PlanningTypeOK, MarkHasTask, ConvertedWasMade, ConvertedHasTask
<1>7. DependenciesFirst'
  <2> SUFFICES ASSUME NEW u \in TaskId, NEW d \in taskRecord'[u].needs
               PROVE  made'[d].tasks > 0
    BY DEF DependenciesFirst
  <2>1. CASE u = t
    <3>1. d \in Proposal /\ proposal[d].status = "converted"
      BY <1>1, <1>2, <1>3, <2>1 DEF PlanningInv, PlanningTypeOK
    <3>2. made[d].tasks > 0
      BY <3>1 DEF PlanningInv, ConvertedWasMade
    <3> QED
      BY <1>4, <3>1, <3>2
  <2>2. CASE u # t
    <3>1. d \in taskRecord[u].needs /\ d \in Proposal
      BY <1>2, <2>2 DEF PlanningInv, PlanningTypeOK
    <3>2. made[d].tasks > 0
      BY <3>1 DEF PlanningInv, DependenciesFirst
    <3> QED
      BY <1>4, <3>1, <3>2
  <2> QED
    BY <2>1, <2>2
<1>8. ApprovalsCover'
  BY <1>1, <1>2, <1>4 DEF PlanningInv, PlanningTypeOK, ApprovalsCover, Marking
<1> QED
  BY <1>5, <1>6, <1>7, <1>8 DEF PlanningInv

\* The second write.
LEMMA MarkKeeps ==
  ASSUME PlanningInv, MarkConverted
  PROVE  PlanningInv'
<1> DEFINE p == planHandler.of
           t == planHandler.into
<1>1. planHandler.next = "mark" /\ p \in Proposal /\ t \in TaskId
  BY DEF PlanningInv, PlanningTypeOK, PlanRequest, MarkConverted
<1>2. /\ proposal' = [proposal EXCEPT ![p] = [@ EXCEPT !.status = "converted", !.convertedTask = t]]
      /\ planHandler' = [next |-> "idle", todo |-> <<>>, of |-> None, into |-> None]
      /\ UNCHANGED <<taskRecord, sessions, planCrashes, approvals, made>>
  BY DEF MarkConverted, MarkedConverted, NothingToWrite
<1>3. taskRecord[t].exists /\ made[p].tasks > 0
  BY <1>1 DEF PlanningInv, MarkHasTask
<1> HIDE DEF p, t
<1>4. PlanningTypeOK'
  <2> DEFINE marked == [proposal[p] EXCEPT !.status = "converted", !.convertedTask = t]
  <2>1. marked \in ProposalRecord
    <3>1. "converted" \in ProposalStatus
      BY <1>1 DEF ProposalStatus
    <3> QED
      BY <1>1, <3>1, ProposalUpdates DEF PlanningInv, PlanningTypeOK
  <2>2. planHandler' \in PlanRequest
    BY <1>2 DEF PlanRequest
  <2>3. proposal' = [proposal EXCEPT ![p] = marked]
    BY <1>2
  <2> HIDE DEF marked
  <2> QED
    BY <1>1, <1>2, <2>1, <2>2, <2>3 DEF PlanningInv, PlanningTypeOK
<1>5. MarkHasTask' /\ DependenciesFirst'
  BY <1>2 DEF PlanningInv, MarkHasTask, DependenciesFirst
<1>6. ConvertedWasMade' /\ ConvertedHasTask'
  BY <1>1, <1>2, <1>3, PlanningParameters
     DEF PlanningInv, PlanningTypeOK, ConvertedWasMade, ConvertedHasTask
<1>7. ApprovalsCover'
  BY <1>1, <1>2 DEF PlanningInv, PlanningTypeOK, ApprovalsCover, Marking, p
<1> QED
  BY <1>4, <1>5, <1>6, <1>7 DEF PlanningInv

\* A task that is posted over another one still exists, and needs nothing.
LEMMA PostTaskKeeps ==
  ASSUME PlanningInv, NEW t \in TaskId, PostTaskRecord(t)
  PROVE  PlanningInv'
<1> DEFINE posted == [NoTask EXCEPT !.exists = TRUE]
<1>1. /\ taskRecord' = [taskRecord EXCEPT ![t] = posted]
      /\ UNCHANGED <<proposal, sessions, planHandler, planCrashes, approvals, made>>
  BY DEF PostTaskRecord
<1>0. /\ posted \in [exists: BOOLEAN, source: Proposal \cup {None}, needs: SUBSET Proposal]
      /\ posted.exists /\ posted.source = None /\ posted.needs = {}
  BY PostedTask
<1> HIDE DEF posted
<1>2. PlanningTypeOK'
  BY <1>0, <1>1 DEF PlanningInv, PlanningTypeOK
<1>3. MarkHasTask' /\ ConvertedWasMade' /\ ConvertedHasTask' /\ DependenciesFirst'
  BY <1>0, <1>1 DEF PlanningInv, PlanningTypeOK, MarkHasTask, ConvertedWasMade,
              ConvertedHasTask, DependenciesFirst
<1>4. ApprovalsCover'
  BY <1>1 DEF PlanningInv, ApprovalsCover, Marking
<1> QED
  BY <1>2, <1>3, <1>4 DEF PlanningInv

\* A crash between the two writes gives the approval back, and is counted.
LEMMA CutShortKeeps ==
  ASSUME PlanningInv, CutShort
  PROVE  PlanningInv'
<1>1. /\ planHandler' = [next |-> "idle", todo |-> <<>>, of |-> None, into |-> None]
      /\ planCrashes' = planCrashes + 1
      /\ UNCHANGED <<proposal, taskRecord, sessions, approvals>>
  BY DEF CutShort, NothingToWrite
<1>2. /\ made' \in [Proposal -> [tasks: Nat, cut: Nat]]
      /\ \A q \in Proposal :
           /\ made'[q].tasks = made[q].tasks
           /\ made'[q].cut = made[q].cut + IF Marking(q) THEN 1 ELSE 0
           /\ made[q].tasks \in Nat /\ made[q].cut \in Nat
  BY DEF PlanningInv, PlanningTypeOK, CutShort, Marking
<1>3. PlanningTypeOK'
  <2>1. planHandler' \in PlanRequest /\ planHandler'.next = "idle"
    BY RequestTypes DEF CutShort
  <2> QED
    BY <1>1, <1>2, <2>1 DEF PlanningInv, PlanningTypeOK
<1>4. MarkHasTask' /\ ConvertedWasMade' /\ ConvertedHasTask'
  BY <1>1, <1>2 DEF PlanningInv, MarkHasTask, ConvertedWasMade, ConvertedHasTask
<1>5. DependenciesFirst'
  BY <1>1, <1>2 DEF PlanningInv, PlanningTypeOK, DependenciesFirst
<1>6. ApprovalsCover'
  BY <1>1, <1>2 DEF PlanningInv, PlanningTypeOK, ApprovalsCover, Marking
<1> QED
  BY <1>3, <1>4, <1>5, <1>6 DEF PlanningInv

LEMMA StepPlanningInv == PlanningInv /\ [PlanningNext]_planningVars => PlanningInv'
<1> SUFFICES ASSUME PlanningInv, [PlanningNext]_planningVars
             PROVE  PlanningInv'
  OBVIOUS
<1>1. CASE UNCHANGED planningVars
  BY <1>1 DEF planningVars, PlanningInv, PlanningTypeOK, MarkHasTask, ConvertedWasMade,
              ApprovalsCover, Marking, ConvertedHasTask, DependenciesFirst
<1>2. CASE PlanningNext
  BY <1>2, SessionStepsKeep, StoreProposalKeeps, ReviewKeeps, ConvertKeeps, MarkKeeps,
     PostTaskKeeps, CutShortKeeps DEF PlanningNext
<1> QED
  BY <1>1, <1>2

-----------------------------------------------------------------------------
(* Theorems *)

\* Records and the request under way keep their shape.
THEOREM PlanningTypes == PlanningSpec => []PlanningTypeOK
<1>1. PlanningInv => PlanningTypeOK
  BY DEF PlanningInv
<1> QED
  BY InitPlanningInv, StepPlanningInv, <1>1, PTL DEF PlanningSpec

\* No proposal is made into more tasks than operators approved, but for conversions
\* that a crash cut short.
THEOREM TasksApproved == PlanningSpec => []TaskPerApproval
<1>1. PlanningInv => TaskPerApproval
  BY DEF PlanningInv, PlanningTypeOK, ApprovalsCover, TaskPerApproval
<1> QED
  BY InitPlanningInv, StepPlanningInv, <1>1, PTL DEF PlanningSpec

\* The task of a converted proposal is stored.
THEOREM ConvertedStored == PlanningSpec => []ConvertedHasTask
<1>1. PlanningInv => ConvertedHasTask
  BY DEF PlanningInv
<1> QED
  BY InitPlanningInv, StepPlanningInv, <1>1, PTL DEF PlanningSpec

\* The dependencies of a task's proposal were made into tasks before it.
THEOREM DependenciesMade == PlanningSpec => []DependenciesFirst
<1>1. PlanningInv => DependenciesFirst
  BY DEF PlanningInv
<1> QED
  BY InitPlanningInv, StepPlanningInv, <1>1, PTL DEF PlanningSpec

\* A conversion never replaces a stored task.
THEOREM ConversionsKeepTasks == PlanningSpec => ConversionKeepsTasks
<1>1. PlanningInv /\ [PlanningNext]_planningVars =>
        [\A t \in TaskId : taskRecord[t].exists /\ taskRecord'[t].source # taskRecord[t].source
                            => taskRecord'[t].source = None]_planningVars
  <2> SUFFICES ASSUME PlanningInv, PlanningNext, NEW t \in TaskId, taskRecord[t].exists,
                      taskRecord'[t].source # taskRecord[t].source
               PROVE  taskRecord'[t].source = None
    OBVIOUS
  <2>1. ASSUME NEW p \in Proposal, NEW u \in TaskId, ConvertProposal(p, u)
        PROVE  FALSE
    BY <2>1 DEF PlanningInv, PlanningTypeOK, ConvertProposal, TaskIdFree
  <2>2. ASSUME NEW u \in TaskId, PostTaskRecord(u)
        PROVE  taskRecord'[t].source = None
    BY <2>2, PostedTask DEF PlanningInv, PlanningTypeOK, PostTaskRecord
  <2>3. CASE UNCHANGED taskRecord
    BY <2>3
  <2> QED
    BY <2>1, <2>2, <2>3
       DEF PlanningNext, SubmitSession, StoreProposal, ProposalRefused, SessionDone,
           ReviewProposal, MarkConverted, CutShort
<1> QED
  BY InitPlanningInv, StepPlanningInv, <1>1, PTL DEF PlanningSpec, ConversionKeepsTasks
=============================================================================
