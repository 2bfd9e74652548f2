SPECIFICATION FairSerialSpec
CONSTANTS
  t1 = t1
  t2 = t2
  p1 = p1
  None = None
  Work <- Chain
  Planning <- OnePlanning
  Deps <- ChainDeps
  Rank <- ChainRank
  Number <- ManyNumbers
  LocalNumber <- ChainNumber
  Tick = {a1}
  Request = {}
  GitHub = TRUE
  MergeNeedsApproval = FALSE
  MaxAttempts = 2
  MaxFaults = 2
  MaxEdits = 1
PROPERTY LeasedTaskIsReclaimed
PROPERTY EligibleTaskSettles
PROPERTY DoneIsFinal
