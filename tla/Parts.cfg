CONSTANTS
  MaxActs = 4
  Tiers = {"free", "enterprise"}
  Platforms = {"site", "other"}
  Unlimited = {"enterprise"}
  Limit <- SmallLimits
  Length <- SmallWindows
  MaxTime = 2
  MaxPassed = 2
  BossJobs = {j1, j2}
  MaxSends = 4
  Engines = {e1, e2}
  MaxManuals = 2
  MaxOutcomes = 2
  Steps = 1
  MaxHealth = 10
  Bonus = 1
  Penalty = 2
  SeverePenalty = 4
  SevereAfter = 1
  MinUsable = 3
  MaxEvents = 3
  MaxFormPages = 3
  MaxSamePage = 2
  MaxHandlerJobs = 2
  MaxWorkdayPages = 4
  MaxScrollRounds = 1
  MaxRetries = 2
  MaxDepth = 2
  MaxLlmCalls = 3
  MaxScrollSteps = 1
  Kind <- SmallKind
  Answered = {"school", "city"}
  FieldCount = 4
  KindCount = 2
  MaxViewports = 3
  SectionOf <- SmallForm
  LastSection = 2
  Shifting = {"visa"}
  MostCharged = 2
  MaxPasses = 2
  MaxStuck = 2
  MaxOrchPages = 2
  RunBudget = 2
  MaxActions = 8
  MaxInARow = 3
  MaxVisits = 2
  MaxSignInJobs = 2
  SelectLists = {d1, d2}
  SkillCount = 1
  MaxRounds = 2
  MaxRoundCalls = 1
  MaxSiteVisits = 2
  MaxLayerTries = 2
  Calls = {a1, a2}
  TagOf <- Tags
  MaxServerDeaths = 1
  OptionCount = 3
  Screens <- SmallScreens
  MaxTurnPolls = 3
  Procs = {a1, a2}
  WorkerIds = {w1, w2}
  MaxScans = 2
  MaxAgentActions = 1
  MaxHandlerSteps = 1
  MaxEmits = 1
  ActionEstimate = 2
  WithRedis = TRUE
  HandlerSteps = {"filling"}
  Variants = {"click", "upload"}
  Thoughts = {"none"}
  MAX_RETRIES = 2
  MaxReports = 2
  JobCalls = {a1, a2}
  MaxUpdates = 2
  MaxPolls = 2
SPECIFICATION PartsSpec
INVARIANTS
  PartsTypeOK
  OneHandOnThePage
  RateLimitsHold
  WorkersHold
  HealthIsEarned
  TraceIsReplayable
  StopsBeforeSubmission 
  LlmBounded
  ScansAreTrue
  WorkIsBounded
  LogsInToItsOwn
  
  ReportsAreTrue ClientsAreTold
PROPERTIES
  AnswersAreKept
  EndsAreFinal
  DeploysKeepTheirWord PartsEnd
CHECK_DEADLOCK FALSE
