# SkyBridge Agent Hub: TLA+ specifications

SkyBridge is a hub that hands tasks to coding agents. A server (`apps/server`) keeps projects,
goals, proposals, tasks, workers and campaigns; edge workers
(`scripts/powershell/skybridge-edge-worker.ps1`) poll it, claim a task, run Codex on it in a git
worktree and report; operators and planners steer with scripts, a desktop and a web application.
This directory models who may execute a task and when that authority ends, what a crash of the
server leaves behind between the writes of a request, and the clients whose asynchronous steps
overlap.

Run a model with `tlc -workers 2 -config edge_worker.cfg MCEdgeWorker`, a proof with
`tlapm EdgeWorkerProofs.tla`. `PROJECT.json` lists runs, hazards, findings, theorems and, for every
definition, the source lines it stands for.

## Inventory

| Component | State | Operations | What is hard | What makes it correct |
|---|---|---|---|---|
| Task queue and leases (server, `index.ts` 354-435, 1562-1868, 5972-6065) | task status, `assigned_worker_id`, `claim`, `lease`, `updated_at` order | create, claim, start, complete, fail, block, requeue, lease-recovery, evidence-repair, hygiene-metadata | races of workers, leases running out, late calls, finishing without holding | one holder at a time, no retry without an operator, ended leases stay ended, leftover leases run out |
| Worker registry (server, 1035-1107, 5503-5525) | enabled flag, heartbeats with the worker's clock | register, heartbeat, patch | clock skew; a heartbeat also renews a lease | a silent worker loses its lease in time |
| Edge worker iteration (`skybridge-edge-worker.ps1` 109-374) | chosen task, lock, keepalive job | register ... claim, guard, lock, start, run, report | every call can time out and be served later; Codex is retried after a transport failure; crash at any step; `catch` that throws | no execution without a claim, lock and keepalive end with the iteration |
| Worktree lock (`skybridge-worker-lock.ps1`) | lock file with pid | new, remove, stale check | read and write are separate; a live lock ages out after 240 minutes | one execution per worktree |
| Project control (server 1132-1165, `skybridge-control.ps1`, loop 411-556) | `state`, `stop_requested` | start, pause, stop; the loop's own PATCHes | several writers, failed reads | a hold ends the loops |
| Goals, progress, task events (server 937-1000, 6040-6160) | goal record, summaries, `task_events`, event log | create, patch; every task request recomputes | crash between the four writes of a request | summaries match the tasks, log and history agree |
| Planning and proposals (server 1210-1400, 6167 on) | sessions, proposals, SQLite's dedupe index | submit, review, convert | crash between two writes, re-submission, an insert that throws half way | one task for each approval, in the order of dependencies |
| Campaigns (server 5240-5480, 5700-5970, `skybridge-campaign.ps1`) | campaign, steps, tasks linked, evidence | import, draft submission, advance, finish, control preview and apply, execute | several writes and several requests, stale previews, second imports | steps in order, failures stop the queue, controls meet what was seen |
| Campaign runner (`skybridge-campaign.ps1` 990-1300) | lock file, state file | run, resume, heartbeat, hold, release, unlock | read and write are separate, expiry during a long step, kills | one runner at a time |
| Hooks and their spool (`codex-dashboard-hook.ps1`, `replay-codex-hook-spool.ps1`) | `queue.jsonl`, the event log | post, spool, limit, replay; resolve an approval | many writers without a lock, a rewrite in two steps, lost answers | no event lost, copies have a cause, decisions stand |
| Desktop (`apps/desktop/src/main.tsx` 1560-1750) | shown status, busy flag | refresh | answers out of order | late answers do no harm |
| Iterations, audit, notifications; approvals and pairing previews; scripts around CI and installation; TUI; web and client; sidecar (a spool in memory, counted but never replayed); deployment | none that another part reads, or files of one machine | | | |

Clients call the server over HTTP; the server never calls a worker. The parts share state only
through the server's store, and processes of one machine through lock and spool files. The server
is one Node process with synchronous stores, so no handler sees another half done (the one thing
it leaves running is the notification). Its process can still die between two writes of a handler,
and scripts that do one thing in several requests have others' requests in between.

## Modules

| Module | What it is |
|---|---|
| `LeaseAuthority` | abstract: at most one worker may execute a task, and it changes hands only through nobody |
| `TaskLease` | the server's task queue, leases and worker liveness, against arbitrary clients |
| `EdgeWorker` | extends `TaskLease`: the loops of the repository's worker, the lock file, timeouts, crashes and the operator |
| `LoopControl` | the project's control state and the `-Loop` mode around an iteration |
| `Records` | what the next three share: requests of several writes, and crashes between them |
| `GoalProgress` | a goal, its tasks, and the summaries, history and log the server derives from them |
| `Planning` | sessions, proposals, reviews and conversions |
| `CampaignQueue` | a campaign's records, its requests and `execute-step` |
| `CampaignRunner` | lock and state file of the campaign runner |
| `HookSpool` | hooks, their spool and the replay, and the approvals folded from the log |
| `DesktopClient` | the desktop's refreshes |
| `MCTaskLease`, `MCEdgeWorker` | values of constants and symmetry for TLC |
| `MCRecords`, `MCCampaign`, `MCClients` | put modules side by side in one state space, one of them moving in each behaviour |
| `TaskLeaseProofs`, `EdgeWorkerProofs`, `ClientProofs` (`LoopControl`, `DesktopClient`), `GoalProgressProofs`, `PlanningProofs`, `CampaignQueueProofs`, `CampaignRunnerProofs`, `HookSpoolProofs` | theorems |

`EdgeWorker` implements `TaskLease!Spec` (the property `ServerRefined`), which implements
`LeaseAuthority` under the mapping `holder[t] = ` the holder of a lease that is active and not run
out (`AuthorityRefined`). What is proved of the server for arbitrary clients therefore holds of the
shipped system. `CampaignRunner` implements the same abstract module, with the campaign for the task
and the run that executes steps for its holder, until a slip (`HandoverRefined`).

In `MCRecords`, `MCCampaign` and `MCClients` the parts share no state: they do not interact in the
code through what these modules keep, and interleaving them would only multiply states.

### TaskLease

One action per route. A task is `status`, `assigned`, `claim`, `lease`, and its place `order` in
`listTasks()` (`updated_at` descending, so each write moves the task to the front); a worker is its
enabled flag and the time for which its newest heartbeat counts as online. Time is relative: a lease
holds the ticks left until `lease_expires_at`, and `Tick` counts everything down. `ClaimGrant` and
`ClaimMarksExpired` are the two answers of the claim route that write; all other answers change
nothing. `requeues` and `silence` are history variables for the properties.

Kept although it may surprise: a start is accepted without a lease, or after the lease ended, and
from `queued`, `failed` and `blocked`; a finish is accepted from anybody and releases the lease only
for its holder; a plain requeue keeps the lease, `requeue-safe` does not ask whether it is stale;
`POST /v1/tasks` replaces a task with its lease; a heartbeat refreshes the first held task only, even
a lease that has run out; a call without `worker_id` acts as the assigned worker; registering sets
`enabled`.

Abstracted: results, evidence, events, goal progress; goals except "archived or superseded"; project
and goal existence; `lease_id` and its mismatch answer; the hard-coded historical task that
lease-recovery refuses; risk and task type, which `SafeToRequeue` stands for; `lease_expires_at` of a
lease that ended (nothing reads it); two writes in the same millisecond, whose list order the stores
decide by insertion. `stale` and `cancelled` are declared but no route sets them.

### EdgeWorker

`at[w]` is the next step of worker `w`'s process; each action is one stretch of the script between
two points at which somebody else can move. A call to the server is `Succeeds` (the handler ran and
the answer arrived) or `Throws`: refused, never arrived, served with the answer lost, or put into
`late` and served at any later moment, out of order. The script cannot tell these apart. `Crash` kills
process and keepalive job at any step; the lock file stays with a dead pid (`by = None`).
`StartLoop` restarts it.

The claim stands before the `try`, so an exception there reports nothing; the lease guard judges the
claim's reply, which always shows an active lease of the caller, so it never fails; the other guards
depend on the worktree and are a choice; `New-SkyBridgeRepoLock` is `ReadLock`, `MoveStaleLock`,
`WriteLock`; the `catch` block is `FailTask`, the `finally` block `Clean`, `ReadOwnLock`,
`RemoveLock`, which run whether `FailTask` throws or not. `BeginRun` is the first run of Codex and
`RetryRun` each further one after a transport failure, up to `codex_transport_max_retries`
(`MaxTransportRetries`, by default 1). A lock is stale when its process is dead or its age is over 240
minutes (`MayBeStale`); how long a process has been at work is not counted, so with `LocksAge` the lock
of a living process may be found stale at any time, and without it never.

Abstracted: the last run of Codex, validation, the pull request and CI are one interval with a
result, and any run may turn out to need a retry; capability matching (every task fits); dry-run,
claim-only and one-shot modes; register and heartbeat calls served late; pid reuse, malformed lock
files; notifications. The loops share one worktree and no task belongs to a goal. The operator creates
tasks under fresh ids, requeues, recovers leases and enables or disables workers.

### LoopControl

`control` is `state` and `stop_requested`. The loop is `FirstPatch`, then iterations of
`CheckReadiness`, the control read (`ObeyHold` or `PassControl`, the latter also when the read
fails), the claim and the task, then `AfterIteration` or `Catch`, and at last `Finally`. A PATCH that
throws was served or not. `word` and `begunOn` are history: the operator's last word and the word on
which an iteration began (or the go given since: `SayGo`). Nobody else writes these two fields in a way that differs
(`skybridge-hermes-cli.ps1` sends the same values as start and stop; `set-max-tasks` sends neither).

### GoalProgress

A request about a task is `StoreTask` (with one action for each kind of request), then
`WriteProgress` (`updateGoalProgress`, after a finish or an evidence repair only), `WriteTaskEvent`
and `WriteStoredEvent`. `Interrupt` is a crash between two of them:
the store keeps what was written. `updated[t]` is the number of the request that wrote `t`, and so
its place in `listTasks()`, which is sorted newest first. `SummarizeGoalTasks` counts the tasks
again, `LatestEvidence` is the code's `evidence.at(-1)` of that list. `PatchGoalRecord` and
`ReplaceGoal` are the goal routes with `parseGoalMetadata`. `PostTaskElsewhere` is `POST /v1/tasks`
with the id of a task of this goal and another `goal_id` or none: the task leaves the goal, whose
progress goes on counting it until the next update.

Leases are left out, so more requests are accepted than in `TaskLease`.

### Planning

`SubmitSession` takes drafts for any proposals; one that is stored
already is overwritten and starts over, converted ones included. `StoreProposal` writes
one; `ProposalRefused` is SQLite's unique index on `(project_id, dedupe_key)`, which throws in the
middle of the session and leaves the earlier proposals stored. `ConvertProposal` stores the task and
`MarkConverted` the proposal, with `CutShort` between them. `PostTaskRecord` is anybody's
`POST /v1/tasks` under any id.

Taken as passed: checks of a conversion that depend on the text of the proposal alone.

### CampaignQueue

A step is its order, `campaign.current` the step of `current_step_id`. An import or a draft
submission writes the steps one by one (`StoreStep`), then `ImportDone`; the goals of an imported
pack may name tasks as linked already. `FinishStep` and `Advance`
write steps and then, in `WriteCampaign`, the campaign; `ExecuteStep` stores the task, under any id the caller
names, another step's task's included, and `LinkExecution` links it. `ReadContext`, `PostTask` and `LinkPosted` are the three requests of
`skybridge-campaign.ps1 execute-step`, between which anything may happen. `PreviewControl` and
`ApplyControl` are the two requests of a control; the hash they compare covers the campaign's
`updated_at` and not the steps, so `shown` follows what became of what the operator saw. `ServerDies`
loses the rest of a request.

Taken as given: what the caller merely asserts (approval, clean worktree, merged pull request).

### CampaignRunner

Each run reads the lock file once and keeps a copy, and every later write is that copy. `StartRun`
takes a new id or, with resume, the saved one; `ReadLock`, `WriteLock`, `EnterLoop`, `HeartbeatLock`,
`LeaveLoop`, `SaveState`, `Release` follow the script; `LockExpires` is the age limit, `Unlock` the
operator's `runner-unlock`, `WriteRunnerState` its `runner-stop` and `runner-hold`. `slip` records
that a write put an old copy over a lock in use, that the operator released the lock of a run that
goes on, or that a state in use was resumed: what the script leaves to discipline.

### HookSpool

Each hook is a process: `PostHookEvent`, on failure `SpoolEvent`, then `Limit-JsonLines`: `ReadQueue`,
and if there are too many lines the rewriting of the file. The replay reads the file, posts line by
line and rewrites the file with what remains (`ReplayClears`, `ReplayWrites`) or deletes it
(`ReplayDeletes`); a post is served or not and answered or not, and an archiving that fails after it
counts as not answered. Nobody locks the file, and `Set-Content` empties it (`ClearQueue`,
`ReplayClears`) before it writes (`LimitQueue`, `ReplayWrites`): others append, read or rewrite in
between, and a process that ends there leaves a file with some of its lines or none
(`HookKilledWriting`, `ReplayDiesWriting`). Events carry no id, so the server stores a second delivery
as a second event. `Summarized` is one round of `summarizeApprovals`; `Resolve` is the operator's
decision, `Expire` an `approval.expired`, which the event route accepts from anybody and which
overrides a decision. Each hook sends one event, and one replay runs at a time.

`dropped`, `exposed` and `doubt` are history: lines cut off by the limit; lines that were appended, or
held by somebody who had emptied the file, while another was to write over them, and those of a process
that ended while writing; and reasons for one more copy of an event.

### DesktopClient

`refreshGeneration` orders the refreshes; a button, a failed report and an effect may begin one while
others are under way, and they are answered in any order. The draft an operator reviews and submits is
left out: the call may be repeated, but the route that answers it is one guarded insert.

## Runs

| Run | Asks | Instance |
|---|---|---|
| `lease_one_task` | the claim, lease and retry rules, the refinement, and that a lease left over on a task runs out, under arbitrary clients | 1 task with a goal, 2 workers, lease of 2 ticks, clocks off by one tick either way, 2 requeues; 232,580 states |
| `lease_finish` | violated: finishing releases the lease | the same |
| `edge_worker` | no run of Codex without a claim that pays for it, no leaked lock, the loops' inductive invariant | 1 task, 2 loops, 1 requeue, 1 transport retry, 1 late call, locks that age; 3.71 million states |
| `edge_start` | violated: an active lease before Codex | |
| `edge_worktree` | violated: one execution per worktree | 2 tasks, 2 loops, locks that do not age |
| `loop_hold` | violated: a hold prevents claims | 2 loops |
| `loop_skip` | violated: a lost claim is skipped | 2 loops |
| `records` | no proposal and no task lost or made twice; progress, history and log agree with the tasks; events kept and counted, decisions stand | 2 proposals, 2 keys, 2 sessions, 2 approvals each; 2 tasks, 2 evidences, 3 requests; 1 crash; 2 hooks, a limit of 1 line, 2 replays, a log of 3, 1 decision; 1.34 million states |
| `spool_kept` | violated: undelivered events remain in the spool | the same hooks |
| `goal_evidence` | violated: a goal shows the latest evidence | 2 tasks, 4 requests, no crash |
| `campaign` | order, failures, finished steps, controls; runs exclude each other and implement `LeaseAuthority` | 2 steps of which the first waits for the second, imported twice, 1 execute-step, 1 crash; 2 runs with 2 ids; 2.45 million states |
| `clients` | the loops beside the server refine `TaskLease`, a dead worker renews nothing and loses its lease; a hold ends every loop, no stop while running; late answers | 1 task, 2 workers, 1 late call; 2 loops; 4 refreshes; 152,849 states |

Deadlock is checked where the system never ends. `records`, `goal_evidence`, `spool_kept`, `campaign`
and `clients` end when their bounded number of requests, imports or replays is used up, and do not check it.

### Bounds

Two workers, loops, runs or hooks are the fewest that race. One task is enough for the rules about
a task, whose steps touch the other tasks only through list order. A lease of 2 ticks has the states
"full", "partly used" and "run out"; where only "run out or not" matters it is 1. `OnlineTicks = 1`
lets a worker be offline while its lease lives. `MaxAttempts = 1` is the code's constant. One requeue
separates "claimed once" from "claimed again"; two show that attempts add up. One late call is the
fewest that can arrive out of place.

One crash is enough to lose any suffix of a request; that a second one adds up is in the statements
(`goalCrashes`, `made[p].cut`, `doubt`) and in the proofs. Two sessions let a proposal be submitted
again; two proposals with two keys meet the unique index and depend on each other; three requests
about two tasks let a progress summary be lost, made good and go out of date. Two steps whose order
and dependencies disagree are the smallest pack in which "in order" means two things; a second
import meets the tasks of the first. A spool of one line is cut by every second hook; two replays
let a copy be delivered again after an operator's decision; one transport retry separates the first run of a
turn from a further one. Four refreshes let three overlap after one was answered.

`RequeueBound`, `LateBound` and the constants named `Max...`, except `MaxAttempts`,
`MaxTransportRetries` and `MaxQueueLines`, are bounds of the models, not of the code; the proofs hold
for every value of them.

### Fairness

Time passes: that is all `TaskLease!FairSpec` and `EdgeWorker!TimedSpec` state. No call is fair. A
worker is not said to come back for a task: one whose claim is refused takes the answer for an
exception, pauses the project and ends (`loop_skip`), so that a queued task is taken only if somebody
starts a loop again. Every call may fail and every
process may die. `LoopControl!LoopFairness`, in `ClientsSpec`: a running loop takes steps, and not
every read of the control state fails (strong fairness of `ObeyHold`). The other modules state no
fairness: a crash may end any request, and what must happen in the end is then up to a client.

## What the checks show

Under arbitrary clients the lease passes from one worker to the next only through nobody; attempts
are bounded by requeues, so that nothing is retried without an operator; with the shipped worker this
extends to executions of Codex, through lost answers, late calls, crashes and restarts
(`NoSilentRerun`): every turn at a task is preceded by an answered claim of its own, and in one turn
Codex runs once and, after failures in transport, at most `MaxTransportRetries` times more. A lease left
behind wears off: on a task that is neither claimed nor running no heartbeat prolongs it
(`QueuedComesFree`, `LeftoverRunsOut`), and that of a worker that is down can be prolonged only by a
call it had left under way, each of which is served once (`DeadWorkerRunsDown`).

A crash between two writes loses at most what was not written: progress is counted again and not
added to, so the next update repairs it, also when a task was posted away to another goal
(`ProgressIsCurrent`); a conversion cut short costs one
further task at most (`TaskPerApproval`); a failed step stops its campaign even if the campaign was
never told (`FailedStepStopsQueue`). The control preview is not outdated by a step that moved, since
moving one also writes the campaign, except where a crash came between (`ControlSeesSteps`).
The runner's lock holds without a slip of those listed under `CampaignRunner`; one of them is that two
runs read the lock file before either has written it, which the code does not prevent. The spool loses
an event to its limit, to a rewriting by somebody who read the file before the event was in it, and to
a process that ends between emptying the file and writing it, and to nothing else (`EventKept`); copies
of a request that arrive late leave a decision alone, an expiry does not (`DecisionStands`).

Seven statements of the documentation are contradicted by the code; each is a run that TLC ends with a
counterexample.

1. `docs/dev/TASK_LEASE_AND_WORKSPACE_SAFETY.md:23`: "Completing, failing or blocking a task releases
   the lease." A finish by another worker than the holder leaves it active (`lease_finish`).
2. Same file, line 74: "A claimed task must have an active lease before Codex starts." The guard
   looks at the claim's reply; a requeue before the start goes unnoticed (`edge_start`).
3. Same file, line 41: "A live non-stale lock blocks task execution." Reading and writing the file
   are two steps (`edge_worktree`).
4. `docs/orchestrator/CLI_CONTROL_RUNBOOK.md:101`: "`project pause` and `project stop` prevent the
   loop from starting new tasks." The loop's first PATCH overwrites a hold given after its launch, and
   a failed read counts as running (`loop_hold`).
5. `docs/orchestrator/EDGE_WORKER_EXECUTION.md:49`: "If another worker wins the race, the local worker
   treats the claim as skipped and continues later." The exception pauses the project (`loop_skip`).
6. `docs/orchestrator/GOAL_REGISTRY_RUNBOOK.md:85`: a goal's detail includes "the latest
   `evidence_summary` when task evidence exists". The server takes the last element of a list sorted
   newest first (`goal_evidence`).
7. `docs/codex/CODEX_LOCAL_INTEGRATION.md:45`: "Delivery failures never fail the Codex hook. Events
   remain in the local spool for replay." The replay and the hooks rewrite the file without a lock, over
   what others appended since they read it, and by emptying it first (`spool_kept`).

Also seen, without a document to contradict: a claim whose answer was lost leaves the task with a
worker that does not know, and the polling heartbeats of that worker keep the lease alive; a task of
an archived goal at the front of the list makes every claim of every loop fail; one loop that ends
pauses the loops of the whole project; a worker holding two tasks renews only one lease; the lock of a
live worker counts as stale after 240 minutes.

## Proofs

The proofs hold for every value of the constants. Each component has an inductive invariant, since
none of its properties but the types is inductive as it stands.

`TaskLeaseProofs`. `NoSilentRetry` needs `QueuedHasAttempt` (a queued task has an attempt in hand,
since the claim route does not apply the limit to queued tasks), `HolderAgrees` and
`LeaseTracksContact` need `LeaseShape`. `IInv` is their conjunction. It speaks of one task at a time,
so the proof goes through `TaskInv(t)`: a lemma reduces a step to the one task it changes, and one
lemma for each operator on leases says what it preserves. The action properties and the refinement
follow from a case split over what a step may do to one lease (`LeaseSteps`). `KeepaliveHoldsLease`
has an argument of its own (`KeepaliveStep`) that counts what is left of the lease with the worker's
silence. `QueuedComesFreeHolds` and `OnlyFrontIsKeptHolds` need only the types and a lemma that says
when a step prolongs a lease (`ProlongedBy`); the second is about a worker with several tasks, which
no run has, and says what becomes of them: its heartbeats keep the one written last.

`EdgeWorkerProofs`. Types and the place of each process first (`LoopInv`). Then every step of the
composed system is a step of `TaskLease` or leaves its variables alone (`ServerRefinedHolds`), which
brings in all of the above. `NoSilentRerun` needs counting: `RunsAreClaimed` says that the runs of a
task plus the runs still to come without another claim (`Pending`: for each process past an answered
claim, its first run and its retries) are at most `MaxTransportRetries + 1` for each attempt. Its proof
uses that attempts never shrink while a task exists, that a claim adds the pending runs of one process
and that a run takes one of them away. `QueuePromisesKept` draws the conclusion of the refinement: the invariant, the
action properties and the abstract authority of the queue hold of the shipped system. `DeadRunsDown`
needs `KeepaliveAtWork` (a keepalive job belongs to a process that is at work, so a dead one has none)
and then one lemma for each kind of step of the others. `WorktreeExclusion` says what of the refuted
statement of `edge_worktree` is true: when no live lock passes its age limit (`~LocksAge`), and under the
assumption `LockingAlone`, that no two loops are at once between reading the lock file and writing it,
two never execute in the worktree (invariant `Exclusive`). Behaviours that satisfy the assumption exist; loops that never overlap there do.
`OneHolderHolds` does the same for the refuted statement of `lease_finish`: with the one attempt the
code allows (`MaxAttempts = 1`), a task nobody requeued belongs to one worker from its claim to its end,
and its lease has then ended. `HolderInv` adds that whoever is at work on such a task, or has a call
about it under way, holds an attempt of it. A claim by anybody else would be a second attempt, which
`NoSilentRetry` forbids; so no step takes the task away (`HolderStays`), and a finish is the holder's
own (`Finishers`).

`ClientProofs`. `ControlInv`: every PATCH writes a state that satisfies `StopIsNotRunning`. For
`HoldPreventsClaimsOtherwise` it is `HoldInv` (a hold not revoked stays on record, and an iteration
begun under it does not get to the queue), which is inductive only under two assumptions about the
environment: `NoneIsStarting`, that no loop has its first PATCH to send while a hold stands, and
`HoldsAreRead`, that no read of a hold fails. They are exactly the two ways `loop_hold` names.
`RefreshInv`: the busy flag is up exactly while the newest generation is unanswered, from which the
action property follows since generations only grow.

`GoalProgressProofs`. `Underway` says for each task which of the four writes the request under way
has reached; the three inequalities of `TrailFollowsTask` and one crash each follow. `ProgressInv`
adds that a summary's number is not ahead of the clock. `ProgressAddsUp` is about cardinalities: the
statuses share the tasks out. `SoleEvidenceIsLatest` says what of the refuted statement of
`goal_evidence` is true: with one task that has evidence, first and last of the list are the same.

`PlanningProofs`. `MarkHasTask` (between the writes of a conversion its task is stored),
`ConvertedWasMade` and `ApprovalsCover` (an approved proposal not yet being marked has one approval
to spare).

`CampaignQueueProofs`. `DoneWasDone`, `CurrentStays` (a request moves the campaign only off the step
it is about, or one that is done), `OutdatedIsNewer` (what the operator saw is outdated only when the
campaign was written since or is about to be) and `FirstImport` (until a second import, whoever has a
task or is about to make one was executable).

`CampaignRunnerProofs`. Without a slip, runs have distinct ids (`OneIdEach`), a run's copy of the lock
fits the step it is at (`CopiesFit`), whoever owns the lock by its copy owns it by the file
(`OwnersHold`), and a lock in use has an owner that was killed or will release it (`OwnerKnown`).
`HandoverHolds` follows: at most one run executes (`RunsExclude`), a step moves at most one run
(`OneRunMoves`), and one that begins to execute found nobody executing.

`HookSpoolProofs`. No list has an event twice and each line of the replay is in one place (`Places`),
so that how often an event is stored, plus whether it is still to be spooled, posted or found in the
file, can be bounded (`Counted`); whoever has read the file and will write it has every event that is
neither cut off nor exposed (`KeptSafe`, which has to speak of the lines in the hands of processes that
have emptied the file, as the file itself is no place to find them then); a file too long has somebody
still to shorten it, unless he was killed (`Shortened`). `DecisionsStand` is about a fold over the log,
and so about data of any length. Its lemmas avoid an induction theorem: if
two logs that agree up to `n` had summaries that differ there, a least such index would exist
(`LeastNumber`), and one round of the recursive function refutes it. From this follow that the recursive
function exists (`SummaryExists`), that appending an event is one round (`SummaryOfAppend`), and, since a
step appends one event at most (`LogGrows`), the property.

Assumptions: `None` is no worker, goal, task, proposal, key or evidence, "operator" and "timekeeper"
are no events, the parameters have their types, the sets that are counted are finite, and clocks may agree
(`0 \in Skews`, so that the worker's heartbeat is one `TaskLease` has).

Proved and not run: the type invariants `PlanningTypeOK`, `GoalTypeOK`, `CampaignTypeOK`,
`RunnerTypeOK`, `HookTypeOK` and `DesktopTypeOK`, which are parts of the inductive invariants; and
`OnlyFrontIsKept`, which needs two tasks; `ProgressAddsUp`, a consequence of what a run checks; and
what is true of four refuted statements, each under a condition (`OneHolderHolds`, `WorktreeExclusion`,
`HoldPreventsClaimsOtherwise`, `SoleEvidenceIsLatest`).

Checked by TLC only: the liveness properties `LeftoverRunsOut`, `DeadLosesAuthority` and
`HoldEndsLoops`, since liveness under fairness is beyond the prover. Of the first two the part without
fairness is proved (of the first for queued tasks): `QueuedComesFree` and `DeadWorkerRunsDown` say that what is left of such a lease
grows only through a call that was under way before, of which there are finitely many, and that each
tick takes one from it; that time passes is left to TLC.

## Not modelled

Left out because there is nothing to interleave or to lose: user interfaces, clients and widgets
(views of the server's state, and most of the TypeScript by length), event-schema and report builders
(types and pure functions on records), installers, deployment and readiness scripts (sequential file
operations), outbound calls to Hermes, GitHub and notification services. The routes for worker
pairing, operator approvals and residents keep maps in memory that no other handler reads: an approval
there permits nothing. Iterations, audit records and the SSE broadcast are read for display only.

Still worth adding: late service of the loops' PATCHes in `LoopControl`; the branch
guard of `EdgeWorker`; the bounded-loop scripts and what a campaign runner does with a
step, composed with `CampaignQueue`; two replays of the spool at once.
