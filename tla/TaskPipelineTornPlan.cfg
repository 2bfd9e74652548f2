SPECIFICATION SerialSpec
CONSTANTS
  t1 = t1
  t2 = t2
  p1 = p1
  None = None
  Work <- Chain
  Planning <- OnePlanning
  Deps <- ChainDeps
  Rank <- ChainRank
  Number <- Numbers
  LocalNumber <- ChainNumber
  Tick = {a1}
  Request = {}
  GitHub = TRUE
  MergeNeedsApproval = TRUE
  MaxAttempts = 2
  MaxFaults = 1
  MaxEdits = 1
INVARIANT PlanOrder
