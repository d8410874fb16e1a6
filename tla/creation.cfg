SPECIFICATION FairCreationSpec
CONSTANTS
  k1 = k1
  kg = kg
  e1 = e1
  e2 = e2
  n1 = n1
  b1 = b1
  b2 = b2
  b3 = b3
  ka = ka
  kb = kb
  Requests = {k1, kg, e1, e2, n1, b1, b2, b3}
  Batches = {b1, b2, b3}
  Gated = {kg}
  Rounds <- SomeRounds
  Wants <- Wanted
  NoKey = NoKey
  EmptyKey = EmptyKey
  NoJob = NoJob
  MaxLost = 1
INVARIANTS
  CreationInv
  SameJob
  RepeatIsSafe
  SinglesAreSpared
PROPERTIES
  Answered
  ImplementsDirectory
CHECK_DEADLOCK FALSE
