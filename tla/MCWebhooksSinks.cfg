SPECIFICATION FairSpec
CONSTANTS
  h1 = h1
  h2 = h2
  Handler = {h1, h2}
  InitialStatuses = {"pending", "payment_pending"}
  AdminStatuses = {}
  MaxCrashes = 0
PROPERTIES
  SinksHold
CHECK_DEADLOCK FALSE
