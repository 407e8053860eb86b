SPECIFICATION FairSpec
CONSTANTS
  o1 = o1
  w1 = w1
  w2 = w2
  Order <- MCOrder
  Worker <- MCWorker
  MaxAttempts = 2
  BatchSize = 2
  MaxLen = 3
  DlqMaxLen = 2
  MaxFaults = 2
INVARIANTS NothingForgotten
PROPERTIES QueueSpec StreamDrains
