SPECIFICATION Spec
CONSTANTS
  Task = {t1}
  Worker = {w1, w2}
  Goal = {g1}
  None = None
  GoalOf <- OneGoal
  SafeToRequeue = {t1}
  LeaseTicks = 1
  OnlineTicks = 1
  Skews = {0}
  MaxAttempts = 1
  RequeueBound = 1
INVARIANTS FinishedTaskHasNoLease
