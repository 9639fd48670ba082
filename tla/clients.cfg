SPECIFICATION ClientsSpec
CONSTANTS
  Task = {t1}
  Worker = {w1, w2}
  Goal = {}
  None = None
  GoalOf <- NoGoal
  SafeToRequeue = {t1}
  LeaseTicks = 1
  OnlineTicks = 1
  Skews = {0}
  MaxAttempts = 1
  RequeueBound = 0
  MaxTransportRetries = 0
  LocksAge = TRUE
  LateBound = 1
  MaxRefreshes = 4
INVARIANTS
  StopIsNotRunning BusyUntilNewestAnswers
PROPERTIES
  ServerRefined DeadLosesAuthority DeadWorkerRunsDown
  HoldEndsLoops
  OlderAnswersIgnored
CHECK_DEADLOCK FALSE
