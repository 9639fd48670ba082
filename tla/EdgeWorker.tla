----------------------------- MODULE EdgeWorker -----------------------------
(***************************************************************************)
(* The worker loops of scripts/powershell/skybridge-edge-worker.ps1 beside *)
(* the server of TaskLease: each claims a task, passes the workspace       *)
(* guards, takes the lock file of the worktree (skybridge-worker-lock.ps1),*)
(* starts the task, executes Codex and reports.                            *)
(*                                                                         *)
(* All the loops here share one worktree.  Between two steps of a loop the *)
(* server, the operator and the other loops may move.  A call can be       *)
(* refused, can stay unserved, and can be served although the caller sees  *)
(* it time out, then or later.  A process can die at any step and be       *)
(* started again.  The project's control state, which can end a loop       *)
(* between two tasks, is LoopControl.                                      *)
(***************************************************************************)
EXTENDS TaskLease

CONSTANTS
  MaxTransportRetries,  \* codex_transport_max_retries: further runs after a transport failure
  LocksAge,             \* whether a living process may hold the lock past its age limit, 240 min
  LateBound             \* model bound: calls that are still under way at once

ASSUME LoopParameters ==
  /\ MaxTransportRetries \in Nat
  /\ LocksAge \in BOOLEAN
  /\ LateBound \in Nat
ASSUME ClocksMayAgree == 0 \in Skews
ASSUME FiniteWorkers == IsFiniteSet(Worker)

VARIABLES
  at,         \* at[w]: the next step of worker w's process
  doing,      \* doing[w]: the task it has chosen, or None
  outcome,    \* outcome[w]: what it reports of the task
  tries,      \* tries[w]: the retries of Codex in the run that w is at
  keepalive,  \* keepalive[w]: its background job sends heartbeats
  hasLock,    \* hasLock[w]: New-SkyBridgeRepoLock returned ok
  repoLock,   \* the lock file: task and worker; by = None when that process is gone
  late,       \* timed-out calls that the server has yet to serve
  runs        \* history: runs[t]: executions of Codex on t since it was created

loopVars == <<at, doing, outcome, tries, keepalive, hasLock>>
edgeVars == <<loopVars, repoLock, late, runs>>
allVars == <<vars, edgeVars>>

-----------------------------------------------------------------------------
(* Data *)

Outcome == {"completed", "failed", "blocked"}
Call == [kind : Outcome \cup {"claim", "start"}, by : Worker, task : Task]
Unlocked == [task |-> None, by |-> None]

Step == {"down", "idle", "registered", "polling", "claiming", "guarding", "locking",
         "moving", "writing", "starting", "started", "executing", "reporting",
         "failing", "cleaning", "unlocking", "removing"}

\* The steps on a chosen task, those between its claim and its run, and those under the lock.
OnTask == Step \ {"down", "idle", "registered", "polling"}
BeforeRun == {"guarding", "locking", "moving", "writing", "starting", "started"}
UnderLock == {"starting", "started", "executing", "reporting", "failing", "cleaning",
              "unlocking", "removing"}

Go(w, next) == at' = [at EXCEPT ![w] = next]

Keep == UNCHANGED <<doing, outcome, tries, keepalive, hasLock>>

\* The process goes on to report what, from step next on; the count of retries is only
\* reported after that.
Decide(w, what, next) ==
  /\ outcome' = [outcome EXCEPT ![w] = what]
  /\ tries' = [tries EXCEPT ![w] = 0]
  /\ Go(w, next)
  /\ UNCHANGED <<doing, keepalive, hasLock>>

\* The iteration is over, or the process is gone: nothing of it is left.
Leave(w, next) ==
  /\ Go(w, next)
  /\ doing' = [doing EXCEPT ![w] = None]
  /\ outcome' = [outcome EXCEPT ![w] = "none"]
  /\ tries' = [tries EXCEPT ![w] = 0]
  /\ keepalive' = [keepalive EXCEPT ![w] = FALSE]
  /\ hasLock' = [hasLock EXCEPT ![w] = FALSE]

-----------------------------------------------------------------------------
(* Calls *)

CallOf(w, kind) == [kind |-> kind, by |-> w, task |-> doing[w]]

\* The server grants the call: TaskLease's handlers.
Granted(c) ==
  \/ c.kind = "claim" /\ ClaimGrant(c.task, c.by)
  \/ c.kind = "start" /\ StartRun(c.task, c.by)
  \/ c.kind \in Outcome /\ Finish(c.task, c.by, c.kind)

\* The server answers 409: a claim or a start that meets an expired lease marks it.
Refused(c) ==
  \/ c.kind = "claim" /\ ClaimMarksExpired(c.task, c.by)
  \/ c.kind = "start" /\ StartMarksExpired(c.task, c.by)
  \/ /\ \/ /\ c.kind = "claim"
           /\ ~Claimable(c.task, c.by)
           /\ ~(ClaimAdmitted(c.task, c.by) /\ IsExpired(lease[c.task]))
        \/ /\ c.kind = "start"
           /\ ~MayStart(c.task, c.by)
           /\ ~(Startable(c.task) /\ IsExpired(lease[c.task]))
        \/ c.kind \in Outcome /\ ~Finishable(c.task)
     /\ UNCHANGED vars

Succeeds(c) == Granted(c) /\ UNCHANGED late

\* Invoke-SkyBridgeApi throws: an error status, a request that never arrived, or ten
\* seconds without an answer, after which the request may still be served.
Throws(c) ==
  \/ (Granted(c) \/ Refused(c) \/ UNCHANGED vars) /\ UNCHANGED late
  \/ /\ c \notin late
     /\ Cardinality(late) < LateBound
     /\ late' = late \cup {c}
     /\ UNCHANGED vars

ServeLate(c) ==
  /\ c \in late
  /\ Granted(c) \/ Refused(c)
  /\ late' = late \ {c}
  /\ UNCHANGED <<loopVars, repoLock, runs>>

-----------------------------------------------------------------------------
(* One iteration of the loop: Invoke-EdgeWorkerOnce *)

\* A loop starts, for the first time or after its process ended.
StartLoop(w) ==
  /\ at[w] = "down"
  /\ Go(w, "idle")
  /\ Keep
  /\ UNCHANGED <<vars, repoLock, late, runs>>

\* The loop ends between two tasks; LoopControl says when.
EndLoop(w) ==
  /\ at[w] \in {"idle", "polling"}
  /\ Go(w, "down")
  /\ Keep
  /\ UNCHANGED <<vars, repoLock, late, runs>>

\* Register-Worker; when its answer is lost the iteration ends.
RegisterSelf(w) ==
  /\ at[w] = "idle"
  /\ Register(w, TRUE)
  /\ Go(w, "registered") \/ Go(w, "idle")
  /\ Keep
  /\ UNCHANGED <<repoLock, late, runs>>

\* Send-WorkerHeartbeat; the same.
BeatBeforePoll(w) ==
  /\ at[w] = "registered"
  /\ Heartbeat(w, 0)
  /\ Go(w, "polling") \/ Go(w, "idle")
  /\ Keep
  /\ UNCHANGED <<repoLock, late, runs>>

\* A call before the claim does not reach the server: the loop begins another iteration.
PollThrows(w) ==
  /\ at[w] \in {"registered", "polling"}
  /\ Go(w, "idle")
  /\ Keep
  /\ UNCHANGED <<vars, repoLock, late, runs>>

FirstQueued(t) ==
  /\ status[t] = "queued"
  /\ \A u \in Task : status[u] = "queued" => order[t] <= order[u]

\* Get-NextTask: the first queued task of the list, if there is one.
Poll(w) ==
  /\ at[w] = "polling"
  /\ \/ \E t \in Task :
          /\ FirstQueued(t)
          /\ doing' = [doing EXCEPT ![w] = t]
          /\ Go(w, "claiming")
     \/ (\A t \in Task : status[t] # "queued") /\ Go(w, "idle") /\ UNCHANGED doing
  /\ UNCHANGED <<vars, outcome, tries, keepalive, hasLock, repoLock, late, runs>>

\* Mutant: a claim whose answer is lost counts as granted.
ClaimTaskOptimistic(w) ==
  /\ at[w] = "claiming"
  /\ Succeeds(CallOf(w, "claim")) \/ Throws(CallOf(w, "claim"))
  /\ Go(w, "guarding")
  /\ Keep
  /\ UNCHANGED <<repoLock, runs>>

\* Claim-Task stands before the try: when it throws nothing is cleaned up or reported.
ClaimTask(w) ==
  /\ at[w] = "claiming"
  /\ \/ Succeeds(CallOf(w, "claim")) /\ Go(w, "guarding") /\ Keep
     \/ Throws(CallOf(w, "claim")) /\ Leave(w, "idle")
  /\ UNCHANGED <<repoLock, runs>>

\* Test-SkyBridgeWorkerTaskSafety judges the lease by the claim's own reply, which
\* always shows an active lease of the caller; the worktree decides the rest, or git throws.
Guard(w) ==
  /\ at[w] = "guarding"
  /\ \/ Go(w, "locking") /\ Keep
     \/ Decide(w, "blocked", "reporting")
     \/ Decide(w, "failed", "failing")
  /\ UNCHANGED <<vars, repoLock, late, runs>>

\* Test-SkyBridgeRepoLockStale: the process is dead, or the lock is older than 240 minutes.
\* How long a living process has been at work is left open.
MayBeStale == repoLock # Unlocked /\ (repoLock.by = None \/ LocksAge)

\* New-SkyBridgeRepoLock reads the file: a lock that is not stale blocks the task ...
ReadLock(w) ==
  /\ at[w] = "locking"
  /\ \/ repoLock = Unlocked /\ Go(w, "writing") /\ Keep
     \/ MayBeStale /\ Go(w, "moving") /\ Keep
     \/ repoLock.by # None /\ Decide(w, "blocked", "reporting")
  /\ UNCHANGED <<vars, repoLock, late, runs>>

\* ... a stale file is archived, whatever has become of it by now ...
MoveStaleLock(w) ==
  /\ at[w] = "moving"
  /\ \/ repoLock # Unlocked /\ repoLock' = Unlocked /\ Go(w, "writing") /\ Keep
     \/ repoLock = Unlocked /\ UNCHANGED repoLock /\ Decide(w, "failed", "failing")
  /\ UNCHANGED <<vars, late, runs>>

\* ... and the new lock is written over whatever is there.
WriteLock(w) ==
  /\ at[w] = "writing"
  /\ repoLock' = [task |-> doing[w], by |-> w]
  /\ hasLock' = [hasLock EXCEPT ![w] = TRUE]
  /\ Go(w, "starting")
  /\ UNCHANGED <<vars, doing, outcome, tries, keepalive, late, runs>>

StartTask(w) ==
  /\ at[w] = "starting"
  /\ \/ Succeeds(CallOf(w, "start")) /\ Go(w, "started") /\ Keep
     \/ Throws(CallOf(w, "start")) /\ Decide(w, "failed", "failing")
  /\ UNCHANGED <<repoLock, runs>>

\* One heartbeat, then the background job that sends the later ones, then Codex for the
\* first time.
BeginRun(w) ==
  /\ at[w] = "started"
  /\ \/ /\ Heartbeat(w, 0)
        /\ keepalive' = [keepalive EXCEPT ![w] = TRUE]
        /\ tries' = [tries EXCEPT ![w] = 0]
        /\ runs' = [runs EXCEPT ![doing[w]] = @ + 1]
        /\ Go(w, "executing")
        /\ UNCHANGED <<doing, outcome, hasLock>>
     \/ /\ Heartbeat(w, 0) \/ UNCHANGED vars
        /\ Decide(w, "failed", "failing")
        /\ UNCHANGED runs
  /\ UNCHANGED <<repoLock, late>>

\* Mutant: the retries of this run are not counted.
RetryRunUncounted(w) ==
  /\ at[w] = "executing"
  /\ runs' = [runs EXCEPT ![doing[w]] = @ + 1]
  /\ UNCHANGED <<vars, loopVars, repoLock, late>>

\* Codex failed in transport and a retry is left: the worktree is reset, Codex runs again.
\* (When the reset throws, EndRun's last alternative is the way on.)
RetryRun(w) ==
  /\ at[w] = "executing"
  /\ tries[w] < MaxTransportRetries
  /\ tries' = [tries EXCEPT ![w] = @ + 1]
  /\ runs' = [runs EXCEPT ![doing[w]] = @ + 1]
  /\ UNCHANGED <<vars, at, doing, outcome, keepalive, hasLock, repoLock, late>>

\* Codex, the validation, the pull request and CI end well or badly, or something throws.
EndRun(w) ==
  /\ at[w] = "executing"
  /\ \/ \E what \in {"completed", "failed"} : Decide(w, what, "reporting")
     \/ Decide(w, "failed", "failing")
  /\ UNCHANGED <<vars, repoLock, late, runs>>

\* Complete-Task, Fail-Task or Block-Task; if that throws, the catch tries Fail-Task.
Report(w) ==
  /\ at[w] = "reporting"
  /\ \/ Succeeds(CallOf(w, outcome[w])) /\ Go(w, "cleaning") /\ Keep
     \/ Throws(CallOf(w, outcome[w])) /\ Decide(w, "failed", "failing")
  /\ UNCHANGED <<repoLock, runs>>

\* Mutant: an exception in the catch block skips the finally block.
FailTaskSkipsFinally(w) ==
  /\ at[w] = "failing"
  /\ \/ Succeeds(CallOf(w, "failed")) /\ Go(w, "cleaning") /\ Keep
     \/ Throws(CallOf(w, "failed")) /\ Leave(w, "idle")
  /\ UNCHANGED <<repoLock, runs>>

\* Fail-Task in the catch block: the finally block runs whether this throws or not.
FailTask(w) ==
  /\ at[w] = "failing"
  /\ Succeeds(CallOf(w, "failed")) \/ Throws(CallOf(w, "failed"))
  /\ Go(w, "cleaning")
  /\ Keep
  /\ UNCHANGED <<repoLock, runs>>

\* finally: the keepalive stops, after one more heartbeat, which need not arrive.
Clean(w) ==
  /\ at[w] = "cleaning"
  /\ \/ keepalive[w] /\ Heartbeat(w, 0)
     \/ UNCHANGED vars
  /\ IF hasLock[w] THEN /\ Go(w, "unlocking")
                        /\ keepalive' = [keepalive EXCEPT ![w] = FALSE]
                        /\ UNCHANGED <<doing, outcome, tries, hasLock>>
                   ELSE Leave(w, "idle")
  /\ UNCHANGED <<repoLock, late, runs>>

\* Remove-SkyBridgeRepoLock reads the file: it is another's by now ...
ReadOwnLock(w) ==
  /\ at[w] = "unlocking"
  /\ \/ repoLock = [task |-> doing[w], by |-> w] /\ Go(w, "removing") /\ Keep
     \/ repoLock # [task |-> doing[w], by |-> w] /\ Leave(w, "idle")
  /\ UNCHANGED <<vars, repoLock, late, runs>>

\* ... or its own, and then whatever is there is removed.
RemoveLock(w) ==
  /\ at[w] = "removing"
  /\ repoLock' = Unlocked
  /\ Leave(w, "idle")
  /\ UNCHANGED <<vars, late, runs>>

\* Mutant: the background job extends the lease of the task it knows.
KeepaliveOfTask(w) ==
  /\ keepalive[w]
  /\ lease' = [lease EXCEPT ![doing[w]].ttl = LeaseTicks]
  /\ UNCHANGED <<status, assigned, claim, order, requeues, workerVars, goalOpen, silence>>
  /\ UNCHANGED edgeVars

Keepalive(w) ==
  /\ keepalive[w]
  /\ Heartbeat(w, 0)
  /\ UNCHANGED edgeVars

\* Mutant: the background job outlives its process.
CrashLeavesKeepalive(w) ==
  /\ at[w] # "down"
  /\ Go(w, "down")
  /\ doing' = [doing EXCEPT ![w] = None]
  /\ outcome' = [outcome EXCEPT ![w] = "none"]
  /\ hasLock' = [hasLock EXCEPT ![w] = FALSE]
  /\ repoLock' = IF repoLock.by = w THEN [repoLock EXCEPT !.by = None] ELSE repoLock
  /\ UNCHANGED <<vars, tries, keepalive, late, runs>>

\* The process dies, and its background job with it; the lock file keeps its dead pid.
Crash(w) ==
  /\ at[w] # "down"
  /\ Leave(w, "down")
  /\ repoLock' = IF repoLock.by = w THEN [repoLock EXCEPT !.by = None] ELSE repoLock
  /\ UNCHANGED <<vars, late, runs>>

-----------------------------------------------------------------------------
(* The operator *)

\* The tools create a task under a fresh id; POST /v1/tasks itself would overwrite.
Operate ==
  /\ \/ \E t \in Task :
          \/ status[t] = "absent" /\ CreateTask(t)
          \/ Requeue(t)
          \/ RequeueSafe(t)
          \/ \E how \in {"released", "abandoned"} : RecoverLease(t, how)
     \/ \E w \in Worker, enabled \in BOOLEAN : PatchWorker(w, enabled)
  /\ UNCHANGED edgeVars

Pass == Tick /\ UNCHANGED edgeVars

-----------------------------------------------------------------------------

EdgeInit ==
  /\ Init
  /\ at = [w \in Worker |-> "down"]
  /\ doing = [w \in Worker |-> None]
  /\ outcome = [w \in Worker |-> "none"]
  /\ tries = [w \in Worker |-> 0]
  /\ keepalive = [w \in Worker |-> FALSE]
  /\ hasLock = [w \in Worker |-> FALSE]
  /\ repoLock = Unlocked
  /\ late = {}
  /\ runs = [t \in Task |-> 0]

Advance(w) ==
  \/ RegisterSelf(w) \/ BeatBeforePoll(w) \/ PollThrows(w) \/ Poll(w) \/ ClaimTask(w)
  \/ Guard(w) \/ ReadLock(w) \/ MoveStaleLock(w) \/ WriteLock(w) \/ StartTask(w)
  \/ BeginRun(w) \/ RetryRun(w) \/ EndRun(w) \/ Report(w) \/ FailTask(w) \/ Clean(w)
  \/ ReadOwnLock(w) \/ RemoveLock(w)

EdgeNext ==
  \/ \E w \in Worker :
       Advance(w) \/ StartLoop(w) \/ EndLoop(w) \/ Keepalive(w) \/ Crash(w)
  \/ \E c \in late : ServeLate(c)
  \/ Operate
  \/ Pass

EdgeSpec == EdgeInit /\ [][EdgeNext]_allVars

\* Time passes.  Nothing else is fair: every call may fail, every process may die.
TimedSpec == EdgeSpec /\ WF_allVars(Pass)

-----------------------------------------------------------------------------
(* Properties *)

\* Every variable of the loops ranges over the values the scripts give it.
EdgeTypeOK ==
  /\ at \in [Worker -> Step]
  /\ doing \in [Worker -> Task \cup {None}]
  /\ outcome \in [Worker -> Outcome \cup {"none"}]
  /\ tries \in [Worker -> 0..MaxTransportRetries]
  /\ keepalive \in [Worker -> BOOLEAN]
  /\ hasLock \in [Worker -> BOOLEAN]
  /\ repoLock \in [task : Task \cup {None}, by : Worker \cup {None}]
  /\ late \subseteq Call
  /\ runs \in [Task -> Nat]

\* Where a process is tells what it knows.
LoopShape ==
  \A w \in Worker :
    /\ at[w] \in OnTask => doing[w] \in Task
    /\ at[w] = "reporting" => outcome[w] \in Outcome
    /\ hasLock[w] => at[w] \in UnderLock

\* The executions of t that are still to come without another claim: of each process that
\* holds the answer to a claim of t, the first and its retries.
Tries == 0..MaxTransportRetries

Pending(t) ==
  {p \in Worker \X Tries :
     /\ doing[p[1]] = t
     /\ at[p[1]] \in BeforeRun \/ (at[p[1]] = "executing" /\ p[2] > tries[p[1]])}

\* Every execution, and every one to come, is paid for by an attempt.
RunsAreClaimed ==
  \A t \in Task :
    /\ runs[t] + Cardinality(Pending(t)) <= (MaxTransportRetries + 1) * lease[t].attempt
    /\ status[t] = "absent" => lease[t].attempt = 0

\* No execution is repeated on the program's own account, except after a transport failure:
\* there are at most MaxAttempts turns at a task plus one for each requeue, and in each turn
\* Codex runs once plus at most MaxTransportRetries times, whichever answers get lost,
\* whichever calls are served late and whenever the processes die and come back.
NoSilentRerun ==
  \A t \in Task : runs[t] <= (MaxTransportRetries + 1) * (requeues[t] + MaxAttempts)

\* "The lock is released in finally, including worker failures": a lock file with a live
\* pid is always the lock of a process that is going to remove it.
LockNotLeaked ==
  \A w \in Worker :
    repoLock.by = w => hasLock[w] /\ repoLock.task = doing[w]

\* The conjunction that every step preserves, beside TaskLease's TypeOK.
EdgeIInv == EdgeTypeOK /\ LoopShape /\ LockNotLeaked /\ RunsAreClaimed

\* The loops, the crashes and the operator do nothing that TaskLease does not allow,
\* so what is shown of TaskLease for arbitrary clients holds of this system.
ServerRefined == Spec

\* A worker that is gone for good loses its tasks for good: its heartbeats died with it,
\* and of the calls it left under way each can be served only once.
DeadLosesAuthority ==
  \A w \in Worker, t \in Task :
    <>[](at[w] = "down") => <>[]~(IsLive(lease[t]) /\ lease[t].holder = w)

\* The calls of w that the server has yet to serve, and the time left to it on a task.
LateOf(w) == {c \in late : c.by = w}
Term(w, t) == IF IsActive(lease[t]) /\ lease[t].holder = w THEN lease[t].ttl ELSE 0

\* What a dead worker left behind only runs down: nothing prolongs its leases except a call
\* that it sent before it died, of which there are never more, and time wears them off.
DeadWorkerRunsDown ==
  [][\A w \in Worker :
       at[w] = "down" /\ at'[w] = "down" =>
         /\ LateOf(w)' \subseteq LateOf(w)
         /\ LateOf(w)' = LateOf(w) => \A t \in Task : Term(w, t)' <= Term(w, t)
         /\ Pass => \A t \in Task : Term(w, t)' = Down(Term(w, t))]_allVars

\* Violated: "A claimed task must have an active lease before Codex starts."  The start
\* call is the last that asks the server before Codex runs.
ActiveLeaseBeforeCodex ==
  [][\A w \in Worker :
       at[w] = "starting" /\ at'[w] = "started"
       => IsActive(lease'[doing[w]]) /\ lease'[doing[w]].holder = w]_allVars

\* Violated: "A live non-stale lock blocks task execution."
OneExecutionPerWorktree ==
  \A v, w \in Worker : at[v] = "executing" /\ at[w] = "executing" => v = w

\* A task that nobody requeued belongs to one worker from its claim to its end: whoever is
\* at work on it, or has a call about it under way, is the holder of its lease, and when it
\* is over the lease has ended.  (That MaxAttempts is 1 is part of it.)
OneHolderUntilRequeued ==
  \A t \in Task : requeues[t] = 0 =>
    /\ \A w \in Worker : doing[w] = t /\ at[w] \in OnTask \ {"claiming"} => lease[t].holder = w
    /\ \A c \in late : c.task = t /\ c.kind # "claim" => lease[t].holder = c.by
    /\ status[t] \in Outcome => ~IsActive(lease[t])

\* No two processes are at once between reading a lock file that does not block them and
\* writing their own: what New-SkyBridgeRepoLock takes for granted.
LockingAlone ==
  \A v, w \in Worker :
    at[v] \in {"moving", "writing"} /\ at[w] \in {"moving", "writing"} => v = w

=============================================================================
