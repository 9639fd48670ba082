SPECIFICATION GoalSpec
CONSTANTS
  None = None
  MaxCrashes = 0
  LinkedTask = {t1, t2}
  Evidence = {e1, e2}
  MaxRequests = 4
PROPERTIES EvidenceIsLatest
CHECK_DEADLOCK FALSE
