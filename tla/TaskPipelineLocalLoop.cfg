SPECIFICATION FairSerialSpec
CONSTANTS
  t1 = t1
  t2 = t2
  p1 = p1
  None = None
  Work <- Single
  Planning <- OnePlanning
  Deps <- SingleDeps
  Rank <- SingleRank
  Number <- Numbers
  LocalNumber <- SingleNumber
  Tick = {a1}
  Request = {}
  GitHub = FALSE
  MergeNeedsApproval = TRUE
  MaxAttempts = 3
  MaxFaults = 1
  MaxEdits = 1
PROPERTY EligibleTaskSettles
