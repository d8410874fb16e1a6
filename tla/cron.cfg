SPECIFICATION FairSpec
CONSTANTS
  regular = regular
  broken = broken
  r1 = r1
  r2 = r2
  q1 = q1
  q2 = q2
  Schedules = {regular, broken}
  Replicas = {r1, r2}
  Requests = {q1, q2}
  Slots <- SomeSlots
  Broken = {broken}
  Behind = 1
  MaxTime = 3
INVARIANTS
  SlotOnce
  Collapsed
PROPERTIES
  Served
