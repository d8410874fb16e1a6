SPECIFICATION FairSpec
CONSTANTS
  Jobs = {j1, j2, j3}
  Replicas = {r1, r2}
  Limited = {j3}
  MaxDeps = 2
  MaxDeletes = 1
  MaxAborts = 1
INVARIANTS
  GateHolds
PROPERTIES
  TickSparesWork
  GateMoves
