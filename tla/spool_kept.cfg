SPECIFICATION HookSpec
CONSTANTS
  HookEvent = {h1, h2}
  WithCallId = {h1}
  MaxQueueLines = 1
  MaxLog = 3
  MaxDecisions = 1
  MaxReplays = 2
INVARIANTS EventRemains
CHECK_DEADLOCK FALSE
