SPECIFICATION Spec
CONSTANTS
  r1 = r1
  NoError = NoError
  Request <- MCRequest
  Calls <- MCCalls
  FaultyProbe = TRUE
  SelectAI = TRUE
  Recent = 1
  MaxSweeps = 2
  MaxBoots = 2
INVARIANT OverviewFits
CHECK_DEADLOCK FALSE
