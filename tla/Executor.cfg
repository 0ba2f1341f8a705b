CONSTANTS
  Executions = 2
  MaxRecoveries = 1
  MaxRechecks = 2
  MaxAsks = 2
  Clients = 2
  WritesMayFail = TRUE
  Scenarios <- AllScenarios
SPECIFICATION MCFairSpec
INVARIANTS TypeOK BrowserIsOwned PoolBalances EndsAreAccounted
PROPERTIES ExecutionEnds AskEnds
CHECK_DEADLOCK FALSE
