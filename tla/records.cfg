SPECIFICATION RecordsSpec
CONSTANTS
  None = None
  MaxCrashes = 1
  Proposal = {p1, p2}
  TaskId = {k1, k2}
  Key = {d1, d2}
  MaxSessions = 2
  MaxApprovals = 2
  LinkedTask = {t1, t2}
  Evidence = {e1, e2}
  MaxRequests = 3
  HookEvent = {h1, h2}
  WithCallId = {h1}
  MaxQueueLines = 1
  MaxLog = 3
  MaxDecisions = 1
  MaxReplays = 2
SYMMETRY RecordSymmetry
INVARIANTS
  TaskPerApproval ConvertedHasTask DependenciesFirst
  ProgressIsCurrent CompletedGoalHasReason TrailFollowsTask
  EventKept QueueBounded CopiesHaveCause
PROPERTIES
  ConversionKeepsTasks DecisionStands
CHECK_DEADLOCK FALSE
