SPECIFICATION FairSpec
CONSTANTS
  h1 = h1
  h2 = h2
  Handler = {h1, h2}
  InitialStatuses = {"pending", "payment_pending"}
  AdminStatuses = {"shipped"}
  MaxCrashes = 1
INVARIANTS
  RefundedWasPaid
  EmittedWasCommitted
PROPERTIES
  PaidWasCharged
  SinksHoldUntilOvertaken
  ToldOnceUntilOvertaken
  EveryEventAnswered
