CONSTANTS
  Executions = 2
  MaxRecoveries = 1
  MaxRechecks = 2
  MaxAsks = 2
  Clients = 2
  WritesMayFail = FALSE
  Scenarios <- LateCall
SPECIFICATION MCSpec
INVARIANT WaitingIsVisible
CHECK_DEADLOCK FALSE
