SPECIFICATION Spec
CONSTANTS
  Jobs = {j1}
  Workers = {w1, w2}
  Tokens = {t1, t2}
  NoJob = NoJob
  NoWorker = NoWorker
  NoToken = NoToken
  MaxAttempts = 2
  Concurrency = 1
  QueueLimit = 1
  PromptRead = FALSE
  DbErrors = FALSE
SYMMETRY Symmetry
INVARIANTS
  SoleOwner
