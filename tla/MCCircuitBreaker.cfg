SPECIFICATION FairSpec
CONSTANTS
  c1 = c1
  c2 = c2
  c3 = c3
  Caller = {c1, c2, c3}
  Threshold = 2
  RecoveryTimeout = 2
  HalfOpenMax = 1
INVARIANTS
  ProbesBounded
PROPERTIES
  TripsOnStreak
  ShelterAfterFailure
  OnlyDrawnTransitions
  Recovers
