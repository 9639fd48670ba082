SPECIFICATION EdgeSpec
CONSTANTS
  Task = {t1}
  Worker = {w1, w2}
  Goal = {}
  None = None
  GoalOf <- NoGoal
  SafeToRequeue = {t1}
  LeaseTicks = 1
  OnlineTicks = 1
  Skews = {0}
  MaxAttempts = 1
  RequeueBound = 1
  MaxTransportRetries = 1
  LocksAge = TRUE
  LateBound = 1
SYMMETRY WorkerSymmetry
INVARIANTS EdgeIInv NoSilentRerun LockNotLeaked
