------------------------------ MODULE Planning ------------------------------
(***************************************************************************)
(* Task proposals of a project, from a planner's session to the task an    *)
(* operator converts them into.                                            *)
(*                                                                         *)
(* Submitting a session and converting a proposal write several records,   *)
(* and the SQLite store throws in the middle of a session when a proposal  *)
(* has the dedupe key of another one.  Operators use                       *)
(* skybridge-proposal.ps1, planners skybridge-plan.ps1; anybody may post a *)
(* task under any id.                                                      *)
(***************************************************************************)
EXTENDS Records, Sequences

CONSTANTS
  Proposal, TaskId, Key,
  MaxSessions,    \* model bound: planning sessions submitted
  MaxApprovals    \* model bound: approvals of one proposal

ASSUME PlanningParameters ==
  /\ None \notin Proposal \cup TaskId \cup Key
  /\ MaxSessions \in Nat
  /\ MaxApprovals \in Nat

VARIABLES
  proposal,     \* proposal[p]: its record
  taskRecord,   \* taskRecord[t]: the record of a task, if there is one
  sessions,     \* how many planning sessions are stored
  planHandler,  \* what the request being served still has to write
  planCrashes,  \* history: how often the process died
  approvals,    \* history: how often p became approved
  made          \* history: the tasks made of p, and conversions of p cut short

planningVars == <<proposal, taskRecord, sessions, planHandler, planCrashes, approvals, made>>

-----------------------------------------------------------------------------
(* Data *)

\* What skybridge-proposal.ps1 sends, "rejected" standing for reviewed, deferred and
\* superseded too, which no handler tells apart.  The PATCH route would take any status;
\* no client sends it "converted", "executed" or "blocked_dependency".
ReviewStatus == {"approved", "rejected"}

ProposalStatus == {"absent", "proposed", "converted"} \cup ReviewStatus

ProposalRecord == [status: ProposalStatus, key: Key \cup {None}, dependsOn: SUBSET Proposal,
                   dependencies: SUBSET Proposal, convertedTask: TaskId \cup {None}]

NoProposal == [status |-> "absent", key |-> None, dependsOn |-> {},
               dependencies |-> {}, convertedTask |-> None]

NoTask == [exists |-> FALSE, source |-> None, needs |-> {}]

NothingToWrite == [next |-> "idle", todo |-> <<>>, of |-> None, into |-> None]

Resting == planHandler.next = "idle"

\* getProposalDependencies: both lists count, so a review can add but not remove.
ProposalDependencies(p) == proposal[p].dependsOn \cup proposal[p].dependencies

StoredProposals == {p \in Proposal : proposal[p].status # "absent"}

\* The unique index idx_task_proposals_dedupe.
KeyTaken(p, k) == \E q \in StoredProposals \ {p} : proposal[q].key = k

-----------------------------------------------------------------------------
(* Planning sessions *)

\* What a planner sends of one proposal.  The planners leave status out, and nobody
\* sends converted_task_id.
Draft == [id: Proposal, key: Key, dependsOn: SUBSET Proposal]

PlanRequest == [next: {"idle", "proposals", "mark"}, todo: Seq(Draft),
                of: Proposal \cup {None}, into: TaskId \cup {None}]

\* Mutant: a proposal that is stored already keeps its review.
KeepingReview(d) ==
  [status |-> IF proposal[d.id].status = "absent" THEN "proposed" ELSE proposal[d.id].status,
   key |-> d.key, dependsOn |-> d.dependsOn, dependencies |-> d.dependsOn,
   convertedTask |-> None]

\* parseTaskProposalInput: everything is taken from the body, whatever is stored under
\* that id.
ParsedProposal(d) ==
  [status |-> "proposed", key |-> d.key, dependsOn |-> d.dependsOn,
   dependencies |-> d.dependsOn, convertedTask |-> None]

\* POST /v1/planning-sessions: the session first, then its proposals.
SubmitSession(drafts) ==
  /\ Resting
  /\ sessions < MaxSessions
  /\ sessions' = sessions + 1
  /\ planHandler' = [NothingToWrite EXCEPT !.next = "proposals", !.todo = drafts]
  /\ UNCHANGED <<proposal, taskRecord, planCrashes, approvals, made>>

\* upsertTaskProposal of the next one.
StoreProposal ==
  /\ planHandler.next = "proposals" /\ planHandler.todo # <<>>
  /\ LET d == Head(planHandler.todo)
     IN /\ ~KeyTaken(d.id, d.key)
        /\ proposal' = [proposal EXCEPT ![d.id] = ParsedProposal(d)]
  /\ planHandler' = [planHandler EXCEPT !.todo = Tail(@)]
  /\ UNCHANGED <<taskRecord, sessions, planCrashes, approvals, made>>

\* The store throws: the request ends with what is stored so far.
ProposalRefused ==
  /\ planHandler.next = "proposals" /\ planHandler.todo # <<>>
  /\ KeyTaken(Head(planHandler.todo).id, Head(planHandler.todo).key)
  /\ planHandler' = NothingToWrite
  /\ UNCHANGED <<proposal, taskRecord, sessions, planCrashes, approvals, made>>

\* The event plan.updated, and the answer.
SessionDone ==
  /\ planHandler.next = "proposals" /\ planHandler.todo = <<>>
  /\ planHandler' = NothingToWrite
  /\ UNCHANGED <<proposal, taskRecord, sessions, planCrashes, approvals, made>>

-----------------------------------------------------------------------------
(* Reviews *)

\* PATCH /v1/task-proposals/:proposalId: any status may follow any other.
ReviewProposal(p, s, added) ==
  /\ Resting
  /\ p \in StoredProposals
  /\ s = "approved" => approvals[p] < MaxApprovals
  /\ proposal' = [proposal EXCEPT ![p].status = s, ![p].dependencies = added]
  /\ approvals' = IF s = "approved" /\ proposal[p].status # "approved"
                  THEN [approvals EXCEPT ![p] = @ + 1] ELSE approvals
  /\ UNCHANGED <<taskRecord, sessions, planHandler, planCrashes, made>>

-----------------------------------------------------------------------------
(* Conversion *)

\* Mutant: a dependency that is approved is good enough.
ConvertibleOnApprovedDependencies(p) ==
  /\ proposal[p].status = "approved"
  /\ \A d \in ProposalDependencies(p) : proposal[d].status \in {"converted", "approved"}

\* validateProposalConversion.  Its conditions on risk, task type, wording and files are
\* of the proposal's text alone and are left out: here every text is acceptable.
ValidConversion(p) ==
  /\ proposal[p].status = "approved"
  /\ \A d \in ProposalDependencies(p) : proposal[d].status = "converted"

\* Mutant: nobody looks whether the task is there already.
TaskIdAnyway(t) == TRUE

\* Otherwise 409 task_already_exists.
TaskIdFree(t) == ~taskRecord[t].exists

\* POST /v1/task-proposals/:proposalId/convert, its first write: the task.  The body
\* may name the task_id.
ConvertProposal(p, t) ==
  /\ Resting
  /\ ValidConversion(p)
  /\ TaskIdFree(t)
  /\ taskRecord' = [taskRecord EXCEPT ![t] = [exists |-> TRUE, source |-> p,
                                  needs |-> ProposalDependencies(p)]]
  /\ made' = [made EXCEPT ![p].tasks = @ + 1]
  /\ planHandler' = [NothingToWrite EXCEPT !.next = "mark", !.of = p, !.into = t]
  /\ UNCHANGED <<proposal, sessions, planCrashes, approvals>>

\* Mutant: the proposal stays approved.
MarkedInReview(r, t) == [r EXCEPT !.convertedTask = t]

MarkedConverted(r, t) == [r EXCEPT !.status = "converted", !.convertedTask = t]

\* Its second write: the proposal.
MarkConverted ==
  /\ planHandler.next = "mark"
  /\ proposal' = [proposal EXCEPT ![planHandler.of] = MarkedConverted(@, planHandler.into)]
  /\ planHandler' = NothingToWrite
  /\ UNCHANGED <<taskRecord, sessions, planCrashes, approvals, made>>

\* POST /v1/tasks under the same id: the record is replaced and forgets its proposal.
PostTaskRecord(t) ==
  /\ Resting
  /\ taskRecord' = [taskRecord EXCEPT ![t] = [NoTask EXCEPT !.exists = TRUE]]
  /\ UNCHANGED <<proposal, sessions, planHandler, planCrashes, approvals, made>>

\* The process dies between two writes.
CutShort ==
  /\ ~Resting
  /\ planCrashes < MaxCrashes
  /\ planCrashes' = planCrashes + 1
  /\ made' = IF planHandler.next = "mark" THEN [made EXCEPT ![planHandler.of].cut = @ + 1] ELSE made
  /\ planHandler' = NothingToWrite
  /\ UNCHANGED <<proposal, taskRecord, sessions, approvals>>

-----------------------------------------------------------------------------
PlanningInit ==
  /\ proposal = [p \in Proposal |-> NoProposal]
  /\ taskRecord = [t \in TaskId |-> NoTask]
  /\ sessions = 0
  /\ planHandler = NothingToWrite
  /\ planCrashes = 0
  /\ approvals = [p \in Proposal |-> 0]
  /\ made = [p \in Proposal |-> [tasks |-> 0, cut |-> 0]]

\* Sessions of one or two proposals with ids of their own; none depends on itself.
Session == {s \in UNION {[1..n -> Draft] : n \in 1..2} :
              \A i, j \in DOMAIN s : s[i].id \notin s[i].dependsOn /\ (s[i].id = s[j].id => i = j)}

PlanningNext ==
  \/ \E s \in Session : SubmitSession(s)
  \/ StoreProposal \/ ProposalRefused \/ SessionDone
  \/ \E p \in Proposal, s \in ReviewStatus :
       \E added \in SUBSET (Proposal \ {p}) : ReviewProposal(p, s, added)
  \/ \E p \in Proposal, t \in TaskId : ConvertProposal(p, t)
  \/ MarkConverted
  \/ \E t \in TaskId : PostTaskRecord(t)
  \/ CutShort

PlanningSpec == PlanningInit /\ [][PlanningNext]_planningVars

-----------------------------------------------------------------------------
(* Properties *)

\* The state has the shape the handlers give it.
PlanningTypeOK ==
  /\ proposal \in [Proposal -> ProposalRecord]
  /\ taskRecord \in [TaskId -> [exists: BOOLEAN, source: Proposal \cup {None},
                          needs: SUBSET Proposal]]
  /\ sessions \in Nat
  /\ planHandler \in PlanRequest
  /\ planHandler.next = "mark" => planHandler.of \in Proposal /\ planHandler.into \in TaskId
  /\ planCrashes \in Nat
  /\ approvals \in [Proposal -> Nat]
  /\ made \in [Proposal -> [tasks: Nat, cut: Nat]]

\* Every task made of a proposal is accounted for: one for each time an operator
\* approved it, and one more for each conversion that a crash cut short.  Neither
\* resubmitting the session nor asking again makes another.
TaskPerApproval ==
  \A p \in Proposal : made[p].tasks <= approvals[p] + made[p].cut

\* A proposal says converted only when its task is stored, whatever came in between.
ConvertedHasTask ==
  \A p \in Proposal : proposal[p].status = "converted" =>
    /\ proposal[p].convertedTask # None
    /\ taskRecord[proposal[p].convertedTask].exists

\* A task exists only when every proposal its own one depended on, by its planner's or
\* its reviewer's word, had been made into a task before: also when a crash hit the
\* conversion of a dependency half way, or a session reset it afterwards.
DependenciesFirst ==
  \A t \in TaskId : \A d \in taskRecord[t].needs : made[d].tasks > 0

\* A conversion never takes over a task that is there: work that was started under a
\* task id is not put back into the queue by it.
ConversionKeepsTasks ==
  [][\A t \in TaskId : taskRecord[t].exists /\ taskRecord'[t].source # taskRecord[t].source
                         => taskRecord'[t].source = None]_planningVars
=============================================================================
