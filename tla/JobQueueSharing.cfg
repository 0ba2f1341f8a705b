CONSTANTS
  w1 = w1
  w2 = w2
  Workers = {w1, w2}
  Jobs = {j1}
  Attempts = {a1, a2, a3}
  NoWorker = NoWorker
  NoJob = NoJob
  NoAttempt = NoAttempt
  Affinity <- AnyAffinity
  Target <- NoTarget
  MaxRetries = 1
  RetryCap = 1
  MaxDisturbances = 0
SPECIFICATION MCSpec
SYMMETRY Symmetry
INVARIANTS NoTwoWorkersShareAJob
CHECK_DEADLOCK FALSE
