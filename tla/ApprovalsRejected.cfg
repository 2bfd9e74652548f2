SPECIFICATION Spec
CONSTANTS
  p1 = p1
  p2 = p2
  r1 = r1
  r2 = r2
  None = None
  Pull <- Pulls
  Request <- Requests
  GitHub = TRUE
  Slots = 2
  MaxFaults = 0
INVARIANT RejectedNeverRuns
CHECK_DEADLOCK FALSE
