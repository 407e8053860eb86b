SPECIFICATION FairSpec
CONSTANTS
  r1 = r1
  r2 = r2
  r3 = r3
  k1 = k1
  e1 = e1
  e2 = e2
  s1 = s1
  p1 = p1
  p2 = p2
  Req = {r1, r2, r3}
  Key = {k1}
  NoKey = NoKey
  Email = {e1, e2}
  Session = {s1}
  NoSession = NoSession
  Product = {p1, p2}
  InitialStock <- MCStock
  CouponMaxUses = 1
  InitialCustomers = {e1}
  CrmCustomers = {e2}
  Scenarios <- MCScenarios
  InitialCarts <- MCCarts
  NoReq = NoReq
INVARIANTS
  OneOrderPerKey
  BooksBalance
  AnsweredOrderExists
  LocksReleased
  DeadlockOnlyOnProducts
  PaidIffAuthorized
  CrmToldTheTruth
PROPERTIES
  CartConsumedByOrder
  LedgerSpec
  EveryRequestEnds
