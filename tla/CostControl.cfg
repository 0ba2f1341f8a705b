CONSTANTS
  apply = apply
  agent = agent
  Workers = {w1, w2}
  Kinds = {apply, agent}
  Agents = {agent}
  Budget = 3
  TaskBudget <- AskedFor
  TaskLimit <- Enforced
  MaxCall = 2
  MaxRefused = 1
  Ceiling = 6
  LastMonth = 1
  MaxJobs = 3
SPECIFICATION MCSpec
SYMMETRY Symmetry
INVARIANTS TypeOK UsageIsBounded CostsAreCapped RoomIsLeft CostsRecordedOnce
