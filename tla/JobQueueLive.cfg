CONSTANTS
  w1 = w1
  w2 = w2
  Workers = {w1}
  Jobs = {j1}
  Attempts = {a1, a2}
  NoWorker = NoWorker
  NoJob = NoJob
  NoAttempt = NoAttempt
  Affinity <- AnyAffinity
  Target <- NoTarget
  MaxRetries = 1
  RetryCap = 1
  MaxDisturbances = 2
SPECIFICATION MCFairSpec
INVARIANTS NothingLeftClaimed
PROPERTIES CancelReachesExecutor SlotIsFreed QueuedIsServed ImplementsSlots
CHECK_DEADLOCK FALSE
