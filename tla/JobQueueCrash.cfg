CONSTANTS
  w1 = w1
  w2 = w2
  Workers = {w1}
  Jobs = {j1}
  Attempts = {a1, a2}
  NoWorker = NoWorker
  NoJob = NoJob
  NoAttempt = NoAttempt
  Affinity <- AnyAffinity
  Target <- NoTarget
  MaxRetries = 0
  RetryCap = 0
  MaxDisturbances = 1
SPECIFICATION MCFairSpec
PROPERTIES CrashedJobIsRecovered
CHECK_DEADLOCK FALSE
