SPECIFICATION FairSpec
CONSTANTS
  q1 = q1
  p1 = p1
  p2 = p2
  p3 = p3
  Requests = {q1, p1, p2, p3}
  Entry <- EntryOf
  NoRequest = NoRequest
  Policies <- SomePolicies
  DefaultPolicy <- Defaults
  MaxAttempts = 3
  Skew = 1
  MaxEdits = 1
INVARIANTS
  FailureInv
  EntriesExact
PROPERTIES
  Backoff
  ComesToAnEnd
  ImplementsDeadLetters
CHECK_DEADLOCK FALSE
