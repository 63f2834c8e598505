SPECIFICATION FairSpec
CONSTANTS
  m = m
  w1 = w1
  w2 = w2
  c1 = c1
  c2 = c2
  c3 = c3
  c4 = c4
  Worker = {w1, w2}
  Master = m
  Check = {c1, c2, c3, c4}
  Bad = {c1}
  nBatchSize = 2
  MasterInGroup = TRUE
  MaxSessions = 2
INVARIANTS QueueSound FinishedBeforeContinuing VerdictExact
PROPERTY WaitReturns
CHECK_DEADLOCK FALSE
