CONSTANTS
  w1 = w1
  w2 = w2
  Workers = {w1, w2}
  Jobs = {j1}
  Attempts = {a1, a2, a3}
  NoWorker = NoWorker
  NoJob = NoJob
  NoAttempt = NoAttempt
  Affinity <- PreferredAffinity
  Target <- TargetW2
  MaxRetries = 0
  RetryCap = 0
  MaxDisturbances = 1
SPECIFICATION MCFairSpec
PROPERTIES PreferredFallsBack
CHECK_DEADLOCK FALSE
