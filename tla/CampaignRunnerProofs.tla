------------------------ MODULE CampaignRunnerProofs ------------------------
(***************************************************************************)
(* Theorems about the campaign runner's lock, for any number of processes  *)
(* and runner ids.  The exclusion is not inductive: that a run in its loop *)
(* owns the lock file follows from what its copy of the lock says, and     *)
(* that nobody wrote over the file from the runs having distinct ids.      *)
(***************************************************************************)
EXTENDS CampaignRunner, TLAPS

\* r has read the lock file, or written it, and acts by its copy.
Past(r) == run[r].pc \in {"decide", "loop", "end", "release"}

\* r's copy says that it holds the lock.
OwnCopy(r) == InUse(run[r].copy) /\ run[r].copy.owner = run[r].id

\* Only ids that were given out are in use.
IdsGiven == savedId <= ids /\ \A r \in RunProcess : run[r].id <= ids

\* Two runs that go on have different ids.
OneIdEach ==
  \A r, s \in RunProcess :
    run[r].pc # "idle" /\ run[s].pc # "idle" /\ run[r].id = run[s].id => r = s

\* What a run has seen of the lock when it is at a step.
CopiesFit ==
  \A r \in RunProcess :
    /\ run[r].pc = "acquire" => ~InUse(run[r].copy) /\ ~run[r].dry
    /\ Past(r) /\ ~run[r].dry => InUse(run[r].copy)
    /\ run[r].pc = "loop" /\ ~run[r].dry => OwnCopy(r)

\* Whoever holds the lock by its copy holds it by the file.
OwnersHold ==
  \A r \in RunProcess :
    Past(r) /\ OwnCopy(r) => InUse(lockFile) /\ lockFile.owner = run[r].id

\* A lock in use is that of a run that was killed or will release it.
OwnerKnown ==
  InUse(lockFile) =>
    \/ lockFile.owner \in killed
    \/ \E r \in RunProcess :
         Past(r) /\ ~run[r].dry /\ OwnCopy(r) /\ run[r].id = lockFile.owner

Ordered == OneIdEach /\ CopiesFit /\ OwnersHold /\ OwnerKnown

\* The inductive invariant.
RunnerInv == RunnerTypeOK /\ IdsGiven /\ (~slip => Ordered)

-----------------------------------------------------------------------------
(* The invariant's parts: types and ids, then the order *)

\* A process that has begun, and one that has not.
LEMMA ProcessTypes ==
  ASSUME NEW id \in RunnerId, NEW dry \in BOOLEAN
  PROVE  /\ LET begun == [NoRun EXCEPT !.pc = "lock", !.id = id, !.dry = dry]
            IN  /\ begun.pc = "lock" /\ begun.id = id
                /\ begun.dry = dry /\ begun.copy = NoLock
                /\ begun \in [pc: {"idle", "lock", "acquire", "decide", "loop", "end", "release"},
                              id: RunnerId, dry: BOOLEAN, copy: Lock]
         /\ NoLock \in Lock
         /\ NoRun \in [pc: {"idle", "lock", "acquire", "decide", "loop", "end", "release"},
                       id: RunnerId, dry: BOOLEAN, copy: Lock]
         /\ NoRun.pc = "idle" /\ NoRun.id = 0
<1>1. 0 \in RunnerId
  BY RunnerParameters DEF RunnerId
<1>2. NoLock \in Lock
  BY <1>1 DEF NoLock, Lock
<1>3. NoRun.pc = "idle" /\ NoRun.id = 0 /\ NoRun.dry = FALSE /\ NoRun.copy = NoLock
  BY DEF NoRun
<1>5. NoRun \in [pc: {"idle", "lock", "acquire", "decide", "loop", "end", "release"},
                id: RunnerId, dry: BOOLEAN, copy: Lock]
  BY <1>1, <1>2 DEF NoRun
<1> DEFINE begun == [NoRun EXCEPT !.pc = "lock", !.id = id, !.dry = dry]
<1>6. begun.pc = "lock" /\ begun.id = id /\ begun.dry = dry /\ begun.copy = NoLock
  BY DEF NoRun
<1>7. begun \in [pc: {"idle", "lock", "acquire", "decide", "loop", "end", "release"},
                id: RunnerId, dry: BOOLEAN, copy: Lock]
  BY <1>5
<1> QED
  BY <1>2, <1>3, <1>5, <1>6, <1>7

LEMMA InitRunnerInv == RunnerInit => RunnerInv
<1> SUFFICES ASSUME RunnerInit
             PROVE  RunnerInv
  OBVIOUS
<1>1. RunnerTypeOK
  <2>1. 0 \in RunnerId /\ FALSE \in BOOLEAN
    BY RunnerParameters DEF RunnerId
  <2> QED
    BY <2>1, ProcessTypes DEF RunnerInit, RunnerTypeOK
<1>2. IdsGiven
  BY DEF RunnerInit, IdsGiven, NoRun
<1>3. Ordered
  BY DEF RunnerInit, Ordered, OneIdEach, CopiesFit, OwnersHold, OwnerKnown, Past,
         NoRun, NoLock, InUse
<1> QED
  BY <1>1, <1>2, <1>3 DEF RunnerInv

\* A run begins with an id that was given out and, without a slip, is nobody else's.
LEMMA StartRunKeeps ==
  ASSUME RunnerInv, NEW r \in RunProcess, NEW resume \in BOOLEAN, NEW dry \in BOOLEAN,
         StartRun(r, resume, dry)
  PROVE  RunnerInv'
<1> USE DEF RunnerInv
<1> DEFINE begun(id) == [NoRun EXCEPT !.pc = "lock", !.id = id, !.dry = dry]
<1>1. PICK id \in RunnerId :
        /\ run' = [run EXCEPT ![r] = begun(id)]
        /\ ids <= ids' /\ ids' \in RunnerId /\ id <= ids'
        /\ slip' \in BOOLEAN
        /\ ~slip' => ~slip /\ ~Going(id)
  <2>1. CASE resume /\ savedId # -1
    <3>1. savedId \in RunnerId /\ savedId <= ids /\ ids \in RunnerId
      BY <2>1 DEF RunnerTypeOK, IdsGiven
    <3>2. run' = [run EXCEPT ![r] = begun(savedId)]
      BY <2>1 DEF StartRun
    <3>3. ids' = ids /\ slip' = (slip \/ Going(savedId)) /\ slip \in BOOLEAN
      BY <2>1 DEF StartRun, RunnerTypeOK
    <3>4. slip' \in BOOLEAN /\ (~slip' => ~slip /\ ~Going(savedId))
      BY <3>3
    <3>5. ids <= ids
      BY <3>1 DEF RunnerId
    <3> QED
      BY <3>1, <3>2, <3>3, <3>4, <3>5
  <2>2. CASE ~(resume /\ savedId # -1)
    <3>1. ids' = ids + 1 /\ slip' = slip /\ ids < MaxRunnerIds
      BY <2>2 DEF StartRun
    <3>2. ids + 1 \in RunnerId /\ ids <= ids + 1
      BY <3>1, RunnerParameters DEF RunnerTypeOK, RunnerId
    <3>3. run' = [run EXCEPT ![r] = begun(ids + 1)]
      BY <2>2 DEF StartRun
    <3>4. ~Going(ids + 1)
      BY RunnerParameters DEF Going, IdsGiven, RunnerTypeOK, RunnerId
    <3>5. slip' \in BOOLEAN /\ (~slip' => ~slip /\ ~Going(ids + 1))
      BY <3>1, <3>4 DEF RunnerTypeOK
    <3>6. ids' \in RunnerId /\ ids <= ids' /\ ids + 1 <= ids'
      BY <3>1, <3>2, RunnerParameters DEF RunnerId, RunnerTypeOK
    <3> HIDE DEF begun
    <3> QED
      BY <3>2, <3>3, <3>5, <3>6
  <2> QED
    BY <2>1, <2>2
<1> HIDE DEF begun
<1>0. /\ begun(id).pc = "lock" /\ begun(id).id = id
      /\ begun(id).dry = dry /\ begun(id).copy = NoLock
      /\ begun(id) \in [pc: {"idle", "lock", "acquire", "decide", "loop", "end", "release"},
                       id: RunnerId, dry: BOOLEAN, copy: Lock]
  BY ProcessTypes DEF begun
<1>2. UNCHANGED <<lockFile, savedId, killed>>
  BY DEF StartRun
<1>3. RunnerTypeOK'
  BY <1>0, <1>1, <1>2 DEF RunnerTypeOK
<1>4. IdsGiven'
  BY <1>0, <1>1, <1>2, RunnerParameters DEF RunnerTypeOK, RunnerId, IdsGiven
<1>5. ASSUME ~slip'
      PROVE  Ordered'
  <2> USE DEF Ordered, Past, OwnCopy, InUse
  <2>0. ~slip /\ ~Going(id) /\ run[r].pc = "idle" /\ run = [s \in RunProcess |-> run[s]]
    BY <1>1, <1>5 DEF StartRun, RunnerTypeOK
  <2>1. OneIdEach'
    BY <1>0, <1>1, <2>0 DEF OneIdEach, Going
  <2>2. CopiesFit'
    BY <1>0, <1>1, <2>0 DEF CopiesFit
  <2>3. OwnersHold'
    BY <1>0, <1>1, <1>2, <2>0 DEF OwnersHold
  <2>4. OwnerKnown'
    BY <1>0, <1>1, <1>2, <2>0 DEF OwnerKnown
  <2> QED
    BY <2>1, <2>2, <2>3, <2>4
<1> QED
  BY <1>3, <1>4, <1>5

LEMMA ReadLockKeeps ==
  ASSUME RunnerInv, NEW r \in RunProcess, ReadLock(r)
  PROVE  RunnerInv'
<1> USE DEF RunnerInv
<1>1. RunnerTypeOK'
  BY RunnerParameters DEF RunnerTypeOK, RunnerId, Lock, IdsGiven, ReadLock, Taken
<1>2. IdsGiven'
  BY RunnerParameters DEF RunnerTypeOK, RunnerId, IdsGiven, ReadLock, Taken
<1>3. ASSUME ~slip'
      PROVE  Ordered'
  <2> USE DEF Ordered, Past, OwnCopy, InUse
  <2>0. ~slip /\ Ordered
    BY <1>3 DEF RunnerTypeOK, ReadLock, Taken
  <2>1. OneIdEach'
    BY <1>3, <2>0 DEF OneIdEach, RunnerTypeOK, RunnerId, IdsGiven, ReadLock, Taken
  <2>2. CopiesFit'
    BY <1>3, <2>0 DEF CopiesFit, RunnerTypeOK, ReadLock, Taken
  <2>3. OwnersHold'
    BY <1>3, <2>0 DEF OneIdEach, CopiesFit, OwnersHold, RunnerTypeOK, ReadLock, Taken
  <2>4. OwnerKnown'
    BY <1>3, <2>0
       DEF OneIdEach, CopiesFit, OwnersHold, OwnerKnown, RunnerTypeOK, ReadLock, Taken
  <2> QED
    BY <2>1, <2>2, <2>3, <2>4
<1> QED
  BY <1>1, <1>2, <1>3

LEMMA WriteLockKeeps ==
  ASSUME RunnerInv, NEW r \in RunProcess, WriteLock(r)
  PROVE  RunnerInv'
<1> USE DEF RunnerInv
<1>1. RunnerTypeOK'
  BY RunnerParameters DEF RunnerTypeOK, RunnerId, Lock, IdsGiven, WriteLock, Slips
<1>2. IdsGiven'
  BY RunnerParameters DEF RunnerTypeOK, RunnerId, IdsGiven, WriteLock, Slips
<1>3. ASSUME ~slip'
      PROVE  Ordered'
  <2> USE DEF Ordered, Past, OwnCopy, InUse
  <2>0. ~slip /\ Ordered
    BY <1>3 DEF RunnerTypeOK, WriteLock, Slips
  <2>1. OneIdEach'
    BY <1>3, <2>0 DEF OneIdEach, RunnerTypeOK, RunnerId, IdsGiven, WriteLock, Slips
  <2>2. CopiesFit'
    BY <1>3, <2>0 DEF CopiesFit, RunnerTypeOK, WriteLock, Slips
  <2>3. OwnersHold'
    BY <1>3, <2>0 DEF OneIdEach, CopiesFit, OwnersHold, RunnerTypeOK, WriteLock, Slips
  <2>4. OwnerKnown'
    BY <1>3, <2>0
       DEF OneIdEach, CopiesFit, OwnersHold, OwnerKnown, RunnerTypeOK, WriteLock, Slips
  <2> QED
    BY <2>1, <2>2, <2>3, <2>4
<1> QED
  BY <1>1, <1>2, <1>3

LEMMA HoldKeeps ==
  ASSUME RunnerInv, NEW r \in RunProcess, Hold(r)
  PROVE  RunnerInv'
<1> USE DEF RunnerInv
<1>1. RunnerTypeOK'
  BY RunnerParameters DEF RunnerTypeOK, RunnerId, Lock, IdsGiven, Hold, GoesTo
<1>2. IdsGiven'
  BY RunnerParameters DEF RunnerTypeOK, RunnerId, IdsGiven, Hold, GoesTo
<1>3. ASSUME ~slip'
      PROVE  Ordered'
  <2> USE DEF Ordered, Past, OwnCopy, InUse
  <2>0. ~slip /\ Ordered
    BY <1>3 DEF RunnerTypeOK, Hold, GoesTo
  <2>1. OneIdEach'
    BY <1>3, <2>0 DEF OneIdEach, RunnerTypeOK, RunnerId, IdsGiven, Hold, GoesTo
  <2>2. CopiesFit'
    BY <1>3, <2>0 DEF CopiesFit, RunnerTypeOK, Hold, GoesTo
  <2>3. OwnersHold'
    BY <1>3, <2>0 DEF OneIdEach, CopiesFit, OwnersHold, RunnerTypeOK, Hold, GoesTo
  <2>4. OwnerKnown'
    BY <1>3, <2>0
       DEF OneIdEach, CopiesFit, OwnersHold, OwnerKnown, RunnerTypeOK, Hold, GoesTo
  <2> QED
    BY <2>1, <2>2, <2>3, <2>4
<1> QED
  BY <1>1, <1>2, <1>3

LEMMA EnterLoopKeeps ==
  ASSUME RunnerInv, NEW r \in RunProcess, EnterLoop(r)
  PROVE  RunnerInv'
<1> USE DEF RunnerInv
<1>1. RunnerTypeOK'
  BY RunnerParameters
     DEF RunnerTypeOK, RunnerId, Lock, IdsGiven, EnterLoop, HardBlockers, GoesTo
<1>2. IdsGiven'
  BY RunnerParameters DEF RunnerTypeOK, RunnerId, IdsGiven, EnterLoop, HardBlockers, GoesTo
<1>3. ASSUME ~slip'
      PROVE  Ordered'
  <2> USE DEF Ordered, Past, OwnCopy, InUse
  <2>0. ~slip /\ Ordered
    BY <1>3 DEF RunnerTypeOK, EnterLoop, HardBlockers, GoesTo
  <2>1. OneIdEach'
    BY <1>3, <2>0
       DEF OneIdEach, RunnerTypeOK, RunnerId, IdsGiven, EnterLoop, HardBlockers, GoesTo
  <2>2. CopiesFit'
    BY <1>3, <2>0 DEF CopiesFit, RunnerTypeOK, EnterLoop, HardBlockers, GoesTo
  <2>3. OwnersHold'
    BY <1>3, <2>0
       DEF OneIdEach, CopiesFit, OwnersHold, RunnerTypeOK, EnterLoop, HardBlockers, GoesTo
  <2>4. OwnerKnown'
    BY <1>3, <2>0
       DEF OneIdEach, CopiesFit, OwnersHold, OwnerKnown, RunnerTypeOK, EnterLoop,
           HardBlockers, GoesTo
  <2> QED
    BY <2>1, <2>2, <2>3, <2>4
<1> QED
  BY <1>1, <1>2, <1>3

LEMMA HeartbeatLockKeeps ==
  ASSUME RunnerInv, NEW r \in RunProcess, HeartbeatLock(r)
  PROVE  RunnerInv'
<1> USE DEF RunnerInv
<1>1. RunnerTypeOK'
  BY RunnerParameters DEF RunnerTypeOK, RunnerId, Lock, IdsGiven, HeartbeatLock, Slips
<1>2. IdsGiven'
  BY RunnerParameters DEF RunnerTypeOK, RunnerId, IdsGiven, HeartbeatLock, Slips
<1>3. ASSUME ~slip'
      PROVE  Ordered'
  <2> USE DEF Ordered, Past, OwnCopy, InUse
  <2>0. ~slip /\ Ordered
    BY <1>3 DEF RunnerTypeOK, HeartbeatLock, Slips
  <2>1. OneIdEach'
    BY <1>3, <2>0 DEF OneIdEach, RunnerTypeOK, RunnerId, IdsGiven, HeartbeatLock, Slips
  <2>2. CopiesFit'
    BY <1>3, <2>0 DEF CopiesFit, RunnerTypeOK, HeartbeatLock, Slips
  <2>3. OwnersHold'
    BY <1>3, <2>0 DEF OneIdEach, CopiesFit, OwnersHold, RunnerTypeOK, HeartbeatLock, Slips
  <2>4. OwnerKnown'
    BY <1>3, <2>0
       DEF OneIdEach, CopiesFit, OwnersHold, OwnerKnown, RunnerTypeOK, HeartbeatLock,
           Slips
  <2> QED
    BY <2>1, <2>2, <2>3, <2>4
<1> QED
  BY <1>1, <1>2, <1>3

LEMMA LeaveLoopKeeps ==
  ASSUME RunnerInv, NEW r \in RunProcess, LeaveLoop(r)
  PROVE  RunnerInv'
<1> USE DEF RunnerInv
<1>1. RunnerTypeOK'
  BY RunnerParameters DEF RunnerTypeOK, RunnerId, Lock, IdsGiven, LeaveLoop, GoesTo
<1>2. IdsGiven'
  BY RunnerParameters DEF RunnerTypeOK, RunnerId, IdsGiven, LeaveLoop, GoesTo
<1>3. ASSUME ~slip'
      PROVE  Ordered'
  <2> USE DEF Ordered, Past, OwnCopy, InUse
  <2>0. ~slip /\ Ordered
    BY <1>3 DEF RunnerTypeOK, LeaveLoop, GoesTo
  <2>1. OneIdEach'
    BY <1>3, <2>0 DEF OneIdEach, RunnerTypeOK, RunnerId, IdsGiven, LeaveLoop, GoesTo
  <2>2. CopiesFit'
    BY <1>3, <2>0 DEF CopiesFit, RunnerTypeOK, LeaveLoop, GoesTo
  <2>3. OwnersHold'
    BY <1>3, <2>0 DEF OneIdEach, CopiesFit, OwnersHold, RunnerTypeOK, LeaveLoop, GoesTo
  <2>4. OwnerKnown'
    BY <1>3, <2>0
       DEF OneIdEach, CopiesFit, OwnersHold, OwnerKnown, RunnerTypeOK, LeaveLoop, GoesTo
  <2> QED
    BY <2>1, <2>2, <2>3, <2>4
<1> QED
  BY <1>1, <1>2, <1>3

LEMMA SaveStateKeeps ==
  ASSUME RunnerInv, NEW r \in RunProcess, SaveState(r)
  PROVE  RunnerInv'
<1> USE DEF RunnerInv
<1>1. RunnerTypeOK'
  BY RunnerParameters DEF RunnerTypeOK, RunnerId, Lock, IdsGiven, SaveState, GoesTo
<1>2. IdsGiven'
  BY RunnerParameters DEF RunnerTypeOK, RunnerId, IdsGiven, SaveState, GoesTo
<1>3. ASSUME ~slip'
      PROVE  Ordered'
  <2> USE DEF Ordered, Past, OwnCopy, InUse
  <2>0. ~slip /\ Ordered
    BY <1>3 DEF RunnerTypeOK, SaveState, GoesTo
  <2>1. OneIdEach'
    BY <1>3, <2>0 DEF OneIdEach, RunnerTypeOK, RunnerId, IdsGiven, SaveState, GoesTo
  <2>2. CopiesFit'
    BY <1>3, <2>0 DEF CopiesFit, RunnerTypeOK, SaveState, GoesTo
  <2>3. OwnersHold'
    BY <1>3, <2>0 DEF OneIdEach, CopiesFit, OwnersHold, RunnerTypeOK, SaveState, GoesTo
  <2>4. OwnerKnown'
    BY <1>3, <2>0
       DEF OneIdEach, CopiesFit, OwnersHold, OwnerKnown, RunnerTypeOK, SaveState, GoesTo
  <2> QED
    BY <2>1, <2>2, <2>3, <2>4
<1> QED
  BY <1>1, <1>2, <1>3

LEMMA ReleaseKeeps ==
  ASSUME RunnerInv, NEW r \in RunProcess, Release(r)
  PROVE  RunnerInv'
<1> USE DEF RunnerInv
<1>1. RunnerTypeOK'
  <2>1. NoRun \in [pc: {"idle", "lock", "acquire", "decide", "loop", "end", "release"},
                       id: RunnerId, dry: BOOLEAN, copy: Lock]
    <3>1. 0 \in RunnerId /\ FALSE \in BOOLEAN
      BY RunnerParameters DEF RunnerId
    <3> QED
      BY <3>1, ProcessTypes
  <2>2. run[r].copy \in Lock
    BY DEF RunnerTypeOK
  <2>3. lockFile' \in Lock
    BY <2>2 DEF RunnerTypeOK, Lock, Release
  <2>4. slip' \in BOOLEAN
    BY DEF RunnerTypeOK, Release, Slips
  <2> QED
    BY <2>1, <2>3, <2>4 DEF RunnerTypeOK, Release
<1>2. IdsGiven'
  BY RunnerParameters DEF RunnerTypeOK, RunnerId, IdsGiven, Release, Slips, NoRun, NoLock
<1>3. ASSUME ~slip'
      PROVE  Ordered'
  <2> USE DEF Ordered, Past, OwnCopy, InUse
  <2>0. ~slip /\ Ordered
    BY <1>3 DEF RunnerTypeOK, Release, Slips, NoRun, NoLock
  <2>1. OneIdEach'
    BY <1>3, <2>0
       DEF OneIdEach, RunnerTypeOK, RunnerId, IdsGiven, Release, Slips, NoRun, NoLock
  <2>2. CopiesFit'
    BY <1>3, <2>0 DEF CopiesFit, RunnerTypeOK, Release, Slips, NoRun, NoLock
  <2>3. OwnersHold'
    BY <1>3, <2>0
       DEF OneIdEach, CopiesFit, OwnersHold, RunnerTypeOK, Release, Slips, NoRun, NoLock
  <2>4. OwnerKnown'
    <3> SUFFICES ASSUME InUse(lockFile'), lockFile'.owner \notin killed'
                 PROVE  (\E s \in RunProcess :
                           Past(s) /\ ~run[s].dry /\ OwnCopy(s) /\ run[s].id = lockFile.owner)'
      BY DEF OwnerKnown
    <3>1. /\ ~(~run[r].dry /\ run[r].copy.status # "none" /\ run[r].copy.owner = run[r].id)
          /\ lockFile' = lockFile /\ killed' = killed
      <4>1. run[r].copy \in Lock
        BY DEF RunnerTypeOK
      <4> QED
        BY <4>1 DEF Release, Lock
    <3>2. PICK s \in RunProcess :
            Past(s) /\ ~run[s].dry /\ OwnCopy(s) /\ run[s].id = lockFile.owner
      BY <2>0, <3>1 DEF OwnerKnown
    <3>3. s # r /\ run'[s] = run[s]
      BY <3>1, <3>2 DEF Release, RunnerTypeOK
    <3> QED
      BY <3>1, <3>2, <3>3
  <2> QED
    BY <2>1, <2>2, <2>3, <2>4
<1> QED
  BY <1>1, <1>2, <1>3

LEMMA KillRunKeeps ==
  ASSUME RunnerInv, NEW r \in RunProcess, KillRun(r)
  PROVE  RunnerInv'
<1> USE DEF RunnerInv
<1>1. RunnerTypeOK'
  <2>1. NoRun \in [pc: {"idle", "lock", "acquire", "decide", "loop", "end", "release"},
                       id: RunnerId, dry: BOOLEAN, copy: Lock]
    <3>1. 0 \in RunnerId /\ FALSE \in BOOLEAN
      BY RunnerParameters DEF RunnerId
    <3> QED
      BY <3>1, ProcessTypes
  <2> QED
    BY <2>1 DEF RunnerTypeOK, KillRun
<1>2. IdsGiven'
  BY RunnerParameters DEF RunnerTypeOK, RunnerId, IdsGiven, KillRun, NoRun, NoLock
<1>3. ASSUME ~slip'
      PROVE  Ordered'
  <2> USE DEF Ordered, Past, OwnCopy, InUse
  <2>0. ~slip /\ Ordered
    BY <1>3 DEF RunnerTypeOK, KillRun, NoRun, NoLock
  <2>1. OneIdEach'
    BY <1>3, <2>0 DEF OneIdEach, RunnerTypeOK, RunnerId, IdsGiven, KillRun, NoRun, NoLock
  <2>2. CopiesFit'
    BY <1>3, <2>0 DEF CopiesFit, RunnerTypeOK, KillRun, NoRun, NoLock
  <2>3. OwnersHold'
    BY <1>3, <2>0 DEF OneIdEach, CopiesFit, OwnersHold, RunnerTypeOK, KillRun, NoRun, NoLock
  <2>4. OwnerKnown'
    BY <1>3, <2>0
       DEF OneIdEach, CopiesFit, OwnersHold, OwnerKnown, RunnerTypeOK, KillRun, NoRun,
           NoLock
  <2> QED
    BY <2>1, <2>2, <2>3, <2>4
<1> QED
  BY <1>1, <1>2, <1>3

LEMMA LockExpiresKeeps ==
  ASSUME RunnerInv, LockExpires
  PROVE  RunnerInv'
<1> USE DEF RunnerInv
<1>1. RunnerTypeOK' /\ IdsGiven'
  BY RunnerParameters DEF RunnerTypeOK, RunnerId, Lock, IdsGiven, LockExpires
<1>2. ASSUME ~slip'
      PROVE  Ordered'
  <2> USE DEF Past, OwnCopy, InUse
  <2>0. ~slip
    BY <1>2 DEF RunnerTypeOK, LockExpires
  <2>1. OneIdEach' /\ CopiesFit'
    BY <2>0 DEF Ordered, OneIdEach, CopiesFit, RunnerTypeOK, LockExpires
  <2>2. OwnersHold' /\ OwnerKnown'
    BY <1>2, <2>0 DEF Ordered, OwnersHold, OwnerKnown, RunnerTypeOK, Lock, LockExpires
  <2> QED
    BY <2>1, <2>2 DEF Ordered
<1> QED
  BY <1>1, <1>2

LEMMA UnlockKeeps ==
  ASSUME RunnerInv, Unlock
  PROVE  RunnerInv'
<1> USE DEF RunnerInv
<1>1. RunnerTypeOK' /\ IdsGiven'
  BY RunnerParameters DEF RunnerTypeOK, RunnerId, Lock, IdsGiven, Unlock, Going
<1>2. ASSUME ~slip'
      PROVE  Ordered'
  <2> USE DEF Past, OwnCopy, InUse
  <2>0. ~slip
    BY <1>2 DEF RunnerTypeOK, Unlock, Going
  <2>1. OneIdEach' /\ CopiesFit'
    BY <2>0 DEF Ordered, OneIdEach, CopiesFit, RunnerTypeOK, Unlock, Going
  <2>2. OwnersHold' /\ OwnerKnown'
    BY <1>2, <2>0 DEF Ordered, OwnersHold, OwnerKnown, RunnerTypeOK, Lock, Unlock, Going
  <2> QED
    BY <2>1, <2>2 DEF Ordered
<1> QED
  BY <1>1, <1>2

LEMMA WriteRunnerStateKeeps ==
  ASSUME RunnerInv, WriteRunnerState
  PROVE  RunnerInv'
<1> USE DEF RunnerInv
<1>1. RunnerTypeOK' /\ IdsGiven'
  BY RunnerParameters DEF RunnerTypeOK, RunnerId, Lock, IdsGiven, WriteRunnerState
<1>2. ASSUME ~slip'
      PROVE  Ordered'
  <2> USE DEF Past, OwnCopy, InUse
  <2>0. ~slip
    BY <1>2 DEF RunnerTypeOK, WriteRunnerState
  <2>1. OneIdEach' /\ CopiesFit'
    BY <2>0 DEF Ordered, OneIdEach, CopiesFit, RunnerTypeOK, WriteRunnerState
  <2>2. OwnersHold' /\ OwnerKnown'
    BY <1>2, <2>0 DEF Ordered, OwnersHold, OwnerKnown, RunnerTypeOK, Lock, WriteRunnerState
  <2> QED
    BY <2>1, <2>2 DEF Ordered
<1> QED
  BY <1>1, <1>2

LEMMA StepRunnerInv == RunnerInv /\ [RunnerNext]_runnerVars => RunnerInv'
<1> SUFFICES ASSUME RunnerInv, [RunnerNext]_runnerVars
             PROVE  RunnerInv'
  OBVIOUS
<1>1. CASE UNCHANGED runnerVars
  BY <1>1 DEF runnerVars, RunnerInv, RunnerTypeOK, IdsGiven, Ordered, OneIdEach,
              CopiesFit, OwnersHold, OwnerKnown, Past, OwnCopy
<1>2. ASSUME NEW r \in RunProcess,
             \/ \E resume \in BOOLEAN, dry \in BOOLEAN : StartRun(r, resume, dry)
             \/ ReadLock(r) \/ WriteLock(r) \/ Hold(r) \/ EnterLoop(r)
             \/ HeartbeatLock(r) \/ LeaveLoop(r) \/ SaveState(r) \/ Release(r) \/ KillRun(r)
      PROVE  RunnerInv'
  BY <1>2, StartRunKeeps, ReadLockKeeps, WriteLockKeeps, HoldKeeps, EnterLoopKeeps,
     HeartbeatLockKeeps, LeaveLoopKeeps, SaveStateKeeps, ReleaseKeeps, KillRunKeeps
<1>3. CASE LockExpires \/ Unlock \/ WriteRunnerState
  BY <1>3, LockExpiresKeeps, UnlockKeeps, WriteRunnerStateKeeps
<1> QED
  BY <1>1, <1>2, <1>3 DEF RunnerNext

-----------------------------------------------------------------------------
(* Theorems *)

\* Lock file, state file and processes keep their shape.
THEOREM RunnerTypes == RunnerSpec => []RunnerTypeOK
<1>1. RunnerInv => RunnerTypeOK
  BY DEF RunnerInv
<1> QED
  BY InitRunnerInv, StepRunnerInv, <1>1, PTL DEF RunnerSpec

\* The invariant has it that one run at most executes steps.
LEMMA RunsExcludeInv == RunnerInv => RunsExcludeEachOther
<1> SUFFICES ASSUME RunnerInv, ~slip, NEW r \in Executing, NEW s \in Executing
             PROVE  r = s
  BY DEF RunsExcludeEachOther, OneActiveRunner
<1>1. r \in RunProcess /\ run[r].pc = "loop" /\ ~run[r].dry
  BY DEF Executing
<1>2. s \in RunProcess /\ run[s].pc = "loop" /\ ~run[s].dry
  BY DEF Executing
<1>3. OwnCopy(r) /\ OwnCopy(s)
  BY <1>1, <1>2 DEF RunnerInv, Ordered, CopiesFit
<1>4. lockFile.owner = run[r].id /\ lockFile.owner = run[s].id
  BY <1>1, <1>2, <1>3 DEF RunnerInv, Ordered, OwnersHold, Past
<1> QED
  BY <1>1, <1>2, <1>4 DEF RunnerInv, Ordered, OneIdEach

\* Two runs execute steps of one campaign only after somebody wrote over a lock in
\* use, released that of a run that goes on, or resumed its state: any number of
\* runs, kills, restarts, dry runs and expiries are not enough.
THEOREM RunsExclude == RunnerSpec => []RunsExcludeEachOther
BY InitRunnerInv, StepRunnerInv, RunsExcludeInv, PTL DEF RunnerSpec

\* A lock in use belongs to a run that goes on or was killed: every way out of a run
\* that is not killed releases it.
THEOREM LockOfRun == RunnerSpec => []LockHasRun
<1>1. RunnerInv => LockHasRun
  BY DEF RunnerInv, Ordered, OwnerKnown, LockHasRun, Going, Past
<1> QED
  BY InitRunnerInv, StepRunnerInv, <1>1, PTL DEF RunnerSpec

\* A step moves one run at most.
LEMMA OneRunMoves ==
  ASSUME RunnerInv, [RunnerNext]_runnerVars
  PROVE  \E q \in RunProcess \cup {"nobody"} : \A r \in RunProcess \ {q} : run'[r] = run[r]
<1>0. run \in [RunProcess -> [pc: {"idle", "lock", "acquire", "decide", "loop", "end", "release"},
                             id: RunnerId, dry: BOOLEAN, copy: Lock]]
  BY DEF RunnerInv, RunnerTypeOK
<1>1. CASE run' = run
  BY <1>1
<1>2. ASSUME NEW q \in RunProcess,
             \/ \E resume \in BOOLEAN, dry \in BOOLEAN : StartRun(q, resume, dry)
             \/ ReadLock(q) \/ WriteLock(q) \/ Hold(q) \/ EnterLoop(q)
             \/ HeartbeatLock(q) \/ LeaveLoop(q) \/ SaveState(q) \/ Release(q) \/ KillRun(q)
      PROVE  \A r \in RunProcess \ {q} : run'[r] = run[r]
  <2>1. run' = run \/ run' = [run EXCEPT ![q] = run'[q]]
    BY <1>0, <1>2
       DEF StartRun, ReadLock, WriteLock, Hold, EnterLoop, HeartbeatLock, LeaveLoop,
           SaveState, Release, KillRun, GoesTo
  <2> QED
    BY <1>0, <2>1
<1> QED
  BY <1>1, <1>2 DEF RunnerNext, runnerVars, LockExpires, Unlock, WriteRunnerState

\* The lock implements LeaseAuthority for the one campaign: control passes from run to
\* run only through nobody's hands, as long as the lock is not written over.
THEOREM HandoverHolds == RunnerSpec => HandoverRefined
<1>1. RunnerInit => Handover!Init
  <2> SUFFICES ASSUME RunnerInit
               PROVE  Controller = [c \in {"campaign"} |-> "nobody"]
    BY DEF Handover!Init
  <2>1. Executing = {}
    BY DEF RunnerInit, Executing, NoRun
  <2> QED
    BY <2>1 DEF Controller
<1>2. /\ RunnerInv => RunsExcludeEachOther
      /\ RunnerInv' => RunsExcludeEachOther'
  BY RunsExcludeInv, PTL
<1>3. ASSUME RunnerInv, [RunnerNext]_runnerVars
      PROVE  Handover!Next
  <2> DEFINE c == Controller["campaign"]
  <2>1. RunnerInv'
    BY <1>3, StepRunnerInv
  <2>2. RunsExcludeEachOther /\ RunsExcludeEachOther'
    BY <1>2, <1>3, <2>1
  <2>3. ASSUME c # "nobody"
        PROVE  c \in Executing /\ ~slip
    BY <2>3 DEF Controller, Executing
  <2>4. ASSUME c' # "nobody"
        PROVE  c' \in Executing' /\ ~slip'
    BY <2>4 DEF Controller, Executing
  <2>5. ASSUME c # "nobody", c' # "nobody"
        PROVE  c' = c
    <3>1. PICK q : \A r \in RunProcess \ {q} : run'[r] = run[r]
      BY <1>3, OneRunMoves
    <3>2. c \in RunProcess /\ c' \in RunProcess
      BY <2>3, <2>4, <2>5 DEF Executing
    <3>3. CASE c \in Executing'
      BY <2>2, <2>4, <2>5, <3>3 DEF RunsExcludeEachOther, OneActiveRunner
    <3>4. CASE c' \in Executing
      BY <2>2, <2>3, <2>5, <3>4 DEF RunsExcludeEachOther, OneActiveRunner
    <3>5. CASE c \notin Executing' /\ c' \notin Executing
      <4>1. run'[c] # run[c] /\ run'[c'] # run[c']
        BY <2>3, <2>4, <2>5, <3>2, <3>5 DEF Executing
      <4> HIDE DEF c
      <4> QED
        BY <3>1, <3>2, <4>1
    <3> QED
      BY <3>3, <3>4, <3>5
  <2>6. c' \in RunProcess \cup {"nobody"} /\ Controller' = [x \in {"campaign"} |-> Controller'[x]]
    BY DEF Controller
  <2>7. Controller' \in [{"campaign"} -> RunProcess \cup {"nobody"}]
    BY <2>6
  <2> QED
    BY <2>5, <2>7 DEF Handover!Next
<1>4. RunnerInv /\ [RunnerNext]_runnerVars => [Handover!Next]_Controller
  BY <1>3
<1> QED
  BY <1>1, <1>4, InitRunnerInv, StepRunnerInv, PTL DEF RunnerSpec, HandoverRefined, Handover!Spec
=============================================================================
