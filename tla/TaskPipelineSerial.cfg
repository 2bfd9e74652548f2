SPECIFICATION SerialSpec
CONSTANTS
  t1 = t1
  t2 = t2
  p1 = p1
  None = None
  Work <- Chain
  Planning <- OnePlanning
  Deps <- ChainDeps
  Rank <- ChainRank
  Number <- Numbers
  LocalNumber <- ChainNumber
  Tick = {a1}
  Request = {r1}
  GitHub = TRUE
  MergeNeedsApproval = TRUE
  MaxAttempts = 2
  MaxFaults = 2
  MaxEdits = 1
INVARIANT DependencyOrder
INVARIANT ReviewHasPullRequest
INVARIANT FailedOnlyExhausted
PROPERTY AttemptsNeverDecrease
