SPECIFICATION FairFeedSpec
CONSTANTS
  j1 = j1
  j2 = j2
  j3 = j3
  p1 = p1
  p2 = p2
  Jobs = {j1, j2, j3}
  Projects = {p1, p2}
  ProjectOf <- AllInP1
  Cap = 2
  Window = 2
  Bulk = 2
  Lag = 1
  Failures = 1
  MaxTime = 4
  None = None
INVARIANTS
  FeedTypeOK
  NothingSkipped
PROPERTIES
  CatchesUp
