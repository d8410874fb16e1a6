SPECIFICATION FairSpec
CONSTANTS
  Jobs = {j1, j2}
  Workers = {w1, w2}
  Queues = {qa, qb}
  NoWorker = NoWorker
  NoQueue = NoQueue
  Existing = {qa}
  Limits = {1, 2}
  DefaultLimit = 1
  w1 = w1
  w2 = w2
  qa = qa
  qb = qb
  j2 = j2
  Setups <- SomeSetups
  Concurrency = 1
  MaxRequests = 1
  MaxFaults = 1
INVARIANTS
  PollInv
  NoLostWake
PROPERTIES
  ClaimsAreSound
  Claimed
CHECK_DEADLOCK FALSE
