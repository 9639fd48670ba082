SPECIFICATION PartsSpec
CONSTANTS
  None = None
  Steps = 2
  Task = {c1}
  Executor = {x1}
  GoalPack <- MCGoalPack
  MaxImports = 2
  MaxCrashes = 1
  RunProcess = {r1, r2}
  MaxRunnerIds = 2
INVARIANTS
  CompletedStepHasReason ExecutedAfterDependencies
  RunsExcludeEachOther LockHasRun
PROPERTIES
  FinishedStaysFinished FailedStepStopsQueue ControlSeesSteps HandoverRefined
CHECK_DEADLOCK FALSE
