SPECIFICATION FairSpec
CONSTANTS
  r1 = r1
  r2 = r2
  None = None
  Replicas = {r1, r2}
  Rates = {1, 2}
  Unit = 2
  MaxDue = 3
  Window = 4
  Restarts = 1
INVARIANTS
  RateBound
PROPERTIES
  BacklogMoves
