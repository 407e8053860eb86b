SPECIFICATION Spec
CONSTANTS
  p1 = p1
  r1 = r1
  r2 = r2
  s1 = s1
  b1 = b1
  b2 = b2
  alice = alice
  bob = bob
  n1 = n1
  n2 = n2
  NoUser = NoUser
  Process <- MCProcess
  Request <- MCRequest
  Source <- MCSource
  Browser <- MCBrowser
  Person <- MCPerson
  Name <- MCName
  Accounts <- MCAccounts
  Budgets <- MCBudgets
  MaxAttempts = 2
  LoginWindow = 1
  PkceTTL = 2
  JwksTTL = 3
  Timeout = 1
  Keep = 1
INVARIANTS WindowHolds RefusedAfterRotation SessionIsOwn
SYMMETRY MCSymmetry
CHECK_DEADLOCK FALSE
