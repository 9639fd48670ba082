SPECIFICATION FairSpec
CONSTANTS
  Task = {t1}
  Worker = {w1, w2}
  Goal = {g1}
  None = None
  GoalOf <- OneGoal
  SafeToRequeue = {t1}
  LeaseTicks = 2
  OnlineTicks = 1
  Skews <- ClockSkews
  MaxAttempts = 1
  RequeueBound = 2
INVARIANTS TypeOK HolderAgrees NoSilentRetry LeaseTracksContact KeepaliveHoldsLease
PROPERTIES EndedLeaseStaysEnded CompletedIsFinal AuthorityRefined QueuedComesFree LeftoverRunsOut
