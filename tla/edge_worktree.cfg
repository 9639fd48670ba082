SPECIFICATION EdgeSpec
CONSTANTS
  Task = {t1, t2}
  Worker = {w1, w2}
  Goal = {}
  None = None
  GoalOf <- NoGoal
  SafeToRequeue = {t1}
  LeaseTicks = 1
  OnlineTicks = 1
  Skews = {0}
  MaxAttempts = 1
  RequeueBound = 0
  MaxTransportRetries = 0
  LocksAge = FALSE
  LateBound = 0
INVARIANTS OneExecutionPerWorktree
