--------------------------- MODULE CampaignRunner ---------------------------
(***************************************************************************)
(* Who may run a campaign: the lock file and the runner state file of      *)
(* skybridge-campaign.ps1 run-next, run-until-hold, run-until-complete and *)
(* resume, and of runner-unlock, runner-stop and runner-hold.              *)
(*                                                                         *)
(* Each run is a process on the operator's machine.  It reads the lock     *)
(* file once and keeps a copy, and every later write of it is that copy.   *)
(* A lock expires when its runner takes longer for a step than             *)
(* MaxRuntimeMinutes, or is dead.                                          *)
(*                                                                         *)
(* What a step of the campaign does is CampaignQueue; here a run steps     *)
(* through its loop as often as it likes.                                  *)
(***************************************************************************)
EXTENDS Integers

CONSTANTS
  RunProcess,   \* runs that may go on at a time
  MaxRunnerIds  \* model bound: runner ids given out

ASSUME RunnerParameters == MaxRunnerIds \in Nat

\* 0 stands for no id: a state file that runner-stop made has none.
RunnerId == 0..MaxRunnerIds

VARIABLES
  lockFile,   \* the lock of this campaign
  savedId,    \* runner_id in the state file, -1 when there is no file
  run,        \* run[r]: a process, with its copy of the lock
  ids,        \* how many ids were given out
  killed,     \* history: ids of runs that were killed
  slip        \* history: a write put an old copy over a lock in use, an operator released
              \* the lock of a run that goes on, or somebody resumed its state

runnerVars == <<lockFile, savedId, run, ids, killed, slip>>

-----------------------------------------------------------------------------
(* Data *)

Lock == [status: {"none", "active", "stale", "released"}, owner: RunnerId]

NoLock == [status |-> "none", owner |-> 0]

NoRun == [pc |-> "idle", id |-> 0, dry |-> FALSE, copy |-> NoLock]

InUse(lock) == lock.status \in {"active", "stale"}

\* The runs that are past the lock and execute steps.
Executing == {r \in RunProcess : run[r].pc = "loop" /\ ~run[r].dry}

\* Writing copy would undo somebody else's write.
Slips(copy) == InUse(lockFile) /\ (lockFile.owner # copy.owner \/ ~InUse(copy))

Going(id) == \E r \in RunProcess : run[r].pc # "idle" /\ run[r].id = id

GoesTo(r, pc) == run' = [run EXCEPT ![r].pc = pc]

-----------------------------------------------------------------------------
(* A run *)

\* resume takes the id of the state file, if there is one; the others make one.
StartRun(r, resume, dry) ==
  /\ run[r].pc = "idle"
  /\ IF resume /\ savedId # -1
     THEN /\ run' = [run EXCEPT ![r] = [NoRun EXCEPT !.pc = "lock", !.id = savedId, !.dry = dry]]
          /\ slip' = (slip \/ Going(savedId))
          /\ UNCHANGED ids
     ELSE /\ ids < MaxRunnerIds
          /\ ids' = ids + 1
          /\ run' = [run EXCEPT ![r] = [NoRun EXCEPT !.pc = "lock", !.id = ids + 1, !.dry = dry]]
          /\ UNCHANGED slip
  /\ UNCHANGED <<lockFile, savedId, killed>>

\* Mutant: a lock that has expired may be taken.
TakenByActive(lock) == lock.status = "active"

\* Acquire-CampaignRunnerLock returns the lock that it finds.
Taken(lock) == InUse(lock)

\* The lock is read; without one in use a run that is not dry goes on to write its own.
ReadLock(r) ==
  /\ run[r].pc = "lock"
  /\ run' = [run EXCEPT ![r].copy = lockFile,
               ![r].pc = IF Taken(lockFile) \/ run[r].dry THEN "decide" ELSE "acquire"]
  /\ UNCHANGED <<lockFile, savedId, ids, killed, slip>>

\* The write goes over whatever is there by now.
WriteLock(r) ==
  /\ run[r].pc = "acquire"
  /\ lockFile' = [status |-> "active", owner |-> run[r].id]
  /\ run' = [run EXCEPT ![r].copy = lockFile', ![r].pc = "decide"]
  /\ slip' = (slip \/ Slips(run[r].copy))
  /\ UNCHANGED <<savedId, ids, killed>>

\* The hard blockers of the lock: somebody else's, or a stale one, its own too.
HardBlockers(r) ==
  \/ run[r].copy.status = "active" /\ run[r].copy.owner # run[r].id
  \/ run[r].copy.status = "stale"

\* Mutant: a run that is held saves its state and returns, past the finally block.
HoldReturns(r) ==
  /\ run[r].pc = "decide"
  /\ savedId' = run[r].id
  /\ run' = [run EXCEPT ![r] = NoRun]
  /\ UNCHANGED <<lockFile, ids, killed, slip>>

\* Also for other reasons: active tasks, stale leases, a stop, a dirty worktree.
Hold(r) ==
  /\ run[r].pc = "decide"
  /\ GoesTo(r, "end")
  /\ UNCHANGED <<lockFile, savedId, ids, killed, slip>>

EnterLoop(r) ==
  /\ run[r].pc = "decide"
  /\ ~HardBlockers(r)
  /\ GoesTo(r, "loop")
  /\ UNCHANGED <<lockFile, savedId, ids, killed, slip>>

\* After each step the owner writes its copy with a new heartbeat and expiry, a dry run too.
HeartbeatLock(r) ==
  /\ run[r].pc = "loop"
  /\ run[r].copy.status # "none"
  /\ run[r].copy.owner = run[r].id
  /\ lockFile' = run[r].copy
  /\ slip' = (slip \/ Slips(run[r].copy))
  /\ UNCHANGED <<savedId, run, ids, killed>>

\* A limit, a blocker, an exception or the last step.
LeaveLoop(r) ==
  /\ run[r].pc = "loop"
  /\ GoesTo(r, "end")
  /\ UNCHANGED <<lockFile, savedId, ids, killed, slip>>

\* The finally block: first the state file, of dry runs as well.
SaveState(r) ==
  /\ run[r].pc = "end"
  /\ savedId' = run[r].id
  /\ GoesTo(r, "release")
  /\ UNCHANGED <<lockFile, ids, killed, slip>>

\* Then the lock, if the copy is its own.
Release(r) ==
  /\ run[r].pc = "release"
  /\ IF ~run[r].dry /\ run[r].copy.status # "none" /\ run[r].copy.owner = run[r].id
     THEN /\ lockFile' = [run[r].copy EXCEPT !.status = "released"]
          /\ slip' = (slip \/ Slips(run[r].copy))
     ELSE UNCHANGED <<lockFile, slip>>
  /\ run' = [run EXCEPT ![r] = NoRun]
  /\ UNCHANGED <<savedId, ids, killed>>

\* Ctrl+C, a closed window, or an exception in the finally block.
KillRun(r) ==
  /\ run[r].pc # "idle"
  /\ killed' = killed \cup {run[r].id}
  /\ run' = [run EXCEPT ![r] = NoRun]
  /\ UNCHANGED <<lockFile, savedId, ids, slip>>

-----------------------------------------------------------------------------
(* Time and the operator *)

\* expires_at passes.
LockExpires ==
  /\ lockFile.status = "active"
  /\ lockFile' = [lockFile EXCEPT !.status = "stale"]
  /\ UNCHANGED <<savedId, run, ids, killed, slip>>

\* runner-unlock asks for a reason only; unlock-stale-runner refuses an active lock first.
Unlock ==
  /\ lockFile.status # "none"
  /\ lockFile' = [lockFile EXCEPT !.status = "released"]
  /\ slip' = (slip \/ Going(lockFile.owner))
  /\ UNCHANGED <<savedId, run, ids, killed>>

\* runner-stop and runner-hold: they write the state file, and the runs do not look.
WriteRunnerState ==
  /\ savedId' = IF savedId = -1 THEN 0 ELSE savedId
  /\ UNCHANGED <<lockFile, run, ids, killed, slip>>

-----------------------------------------------------------------------------
RunnerInit ==
  /\ lockFile = NoLock
  /\ savedId = -1
  /\ run = [r \in RunProcess |-> NoRun]
  /\ ids = 0
  /\ killed = {}
  /\ slip = FALSE

RunnerNext ==
  \/ \E r \in RunProcess :
       \/ \E resume \in BOOLEAN, dry \in BOOLEAN : StartRun(r, resume, dry)
       \/ ReadLock(r) \/ WriteLock(r) \/ Hold(r) \/ EnterLoop(r)
       \/ HeartbeatLock(r) \/ LeaveLoop(r) \/ SaveState(r) \/ Release(r) \/ KillRun(r)
  \/ LockExpires \/ Unlock \/ WriteRunnerState

RunnerSpec == RunnerInit /\ [][RunnerNext]_runnerVars

-----------------------------------------------------------------------------
(* Properties *)

\* The state has the shape the script gives it.
RunnerTypeOK ==
  /\ lockFile \in Lock
  /\ savedId \in RunnerId \cup {-1}
  /\ run \in [RunProcess -> [pc: {"idle", "lock", "acquire", "decide", "loop", "end", "release"},
                             id: RunnerId, dry: BOOLEAN, copy: Lock]]
  /\ ids \in RunnerId
  /\ killed \subseteq RunnerId
  /\ slip \in BOOLEAN

\* SELF_BOOTSTRAP_SUPERVISOR.md: "a campaign lock so only one active runner can control a
\* project campaign by default".
OneActiveRunner == \A r, s \in Executing : r = s

\* The lock works as long as it is not written over: two runs execute steps of the
\* campaign at a time only after a slip.  A lock that expires during a long step, runs
\* that are killed and started again, dry runs and the operator's runner-stop and
\* runner-hold are not enough.
RunsExcludeEachOther == ~slip => OneActiveRunner

\* A run that is not killed leaves no lock behind: a lock in use is that of a run which
\* goes on or was killed.
LockHasRun ==
  ~slip /\ InUse(lockFile) =>
    lockFile.owner \in killed \/ Going(lockFile.owner)

\* The run that controls the campaign, until the lock is written over.
Controller ==
  [c \in {"campaign"} |-> IF slip \/ Executing = {} THEN "nobody"
                          ELSE CHOOSE r \in RunProcess : r \in Executing]

Handover ==
  INSTANCE LeaseAuthority
  WITH Task <- {"campaign"}, Worker <- RunProcess, None <- "nobody", holder <- Controller

\* What the queue's leases promise of a task the runner's lock promises of a campaign: it
\* passes from one run to another only through a moment at which nobody controls it.
HandoverRefined == Handover!Spec

=============================================================================
