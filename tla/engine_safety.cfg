SPECIFICATION Spec
CONSTANTS
  Jobs = {j1, j2}
  Workers = {w1, w2}
  Tokens = {t1, t2, t3}
  NoJob = NoJob
  NoWorker = NoWorker
  NoToken = NoToken
  MaxAttempts = 2
  Concurrency = 2
  QueueLimit = 2
  PromptRead = TRUE
  DbErrors = TRUE
SYMMETRY Symmetry
INVARIANTS
  SoleOwner
  Recoverable
  ExecutionLedger
  DlqExact
  NeverOverclaims
PROPERTIES
  FailureChargedOnce
  ImplementsLifecycle
