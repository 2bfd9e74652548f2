SPECIFICATION Spec
CONSTANTS
  t1 = t1
  t2 = t2
  p1 = p1
  None = None
  Work <- Single
  Planning <- OnePlanning
  Deps <- SingleDeps
  Rank <- SingleRank
  Number <- Numbers
  LocalNumber <- SingleNumber
  Tick = {a1, a2}
  Request = {}
  GitHub = FALSE
  MergeNeedsApproval = FALSE
  MaxAttempts = 2
  MaxFaults = 2
  MaxEdits = 1
PROPERTY MergedIsFinal
