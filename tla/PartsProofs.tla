----------------------------- MODULE PartsProofs -----------------------------
(***************************************************************************)
(* The parts of MCParts keep their promises side by side, for any values   *)
(* of their constants: a step of PartsNext is a step of one part, and      *)
(* leaves the variables of the others alone.  What a part's own module     *)
(* proves of its steps then holds of the steps of all.                     *)
(***************************************************************************)
EXTENDS MCParts, WorkerProofs, EngineProofs, ServiceProofs

PartNames ==
  {"act", "rate", "boss", "manual", "trace", "apply", "workday", "fill", "scan", "orch", "v3",
     "signin", "site", "field", "deploy", "element", "progress", "callback", "client", "turn",
     "registry"}

\* The parts start as they start by themselves.
LEMMA PartsStart ==
  PartsInit =>
    /\ ActInit /\ RateInit /\ BossInit /\ ManualInit /\ TraceInit /\ ApplyInit
    /\ WorkdayInit /\ FillInit /\ ScanInit /\ OrchInit /\ EngineInit /\ SignInInit
    /\ SiteInit /\ FieldInit /\ DeployInit /\ ScanFillInit /\ ProgressInit /\ CallbackInit
    /\ ClientInit /\ TurnInit /\ RegistryInit
    /\ part \in PartNames
BY DEF PartsInit, PartNames

\* A step of the parts is a step of each of them, or leaves it alone.
LEMMA PartsGoOn ==
  PartsNext =>
    /\ [ActNext]_actVars /\ [RateNext]_rateVars /\ [BossNext]_bossVars
    /\ [ManualNext]_manualVars /\ [TraceNext]_traceVars /\ [ApplyNext]_applyVars
    /\ [WorkdayNext]_workdayVars /\ [FillNext]_fillVars /\ [CollectVisibleFields]_scanVars
    /\ [OrchNext]_orchVars /\ [EngineNext]_engineVars /\ [SignInNext]_signVars
    /\ [SiteNext]_siteVars /\ [FieldNext]_fieldV3Vars /\ [DeployNext]_deployVars
    /\ [ScanFillNext]_scanFillVars /\ [ProgressNext]_progressVars /\ [CallbackNext]_callbackVars
    /\ [ClientNext]_clientVars /\ [TurnNext]_turnVars /\ [RegistryNext]_registryVars
    /\ UNCHANGED part
BY DEF PartsNext, Alone

\* A step that leaves all the parts alone.
LEMMA PartsStandStill ==
  UNCHANGED partVars =>
    /\ UNCHANGED actVars /\ UNCHANGED rateVars /\ UNCHANGED bossVars /\ UNCHANGED manualVars
    /\ UNCHANGED traceVars /\ UNCHANGED applyVars /\ UNCHANGED workdayVars /\ UNCHANGED fillVars
    /\ UNCHANGED scanVars /\ UNCHANGED orchVars /\ UNCHANGED engineVars /\ UNCHANGED signVars
    /\ UNCHANGED siteVars /\ UNCHANGED fieldV3Vars /\ UNCHANGED deployVars /\ UNCHANGED scanFillVars
    /\ UNCHANGED progressVars /\ UNCHANGED callbackVars /\ UNCHANGED clientVars /\ UNCHANGED turnVars
    /\ UNCHANGED registryVars
    /\ UNCHANGED part
BY DEF partVars

\* Side by side, each part is what it is alone, but for the fairness of those that state
\* one: no invariant and no step rests on it.
LEMMA PartsAreParts ==
  PartsSpec =>
    /\ ActSpec /\ RateSpec /\ BossSpec /\ ManualSpec /\ TraceSpec /\ ApplySpec
    /\ FillSpec /\ ScanSpec /\ EngineSpec /\ SignInSpec /\ SiteSpec /\ FieldSpec
    /\ ScanFillSpec /\ ProgressSpec /\ TurnSpec /\ RegistrySpec
    /\ WorkdayInit /\ [][WorkdayNext]_workdayVars
    /\ OrchInit /\ [][OrchNext]_orchVars
    /\ DeployInit /\ [][DeployNext]_deployVars
    /\ CallbackInit /\ [][CallbackNext]_callbackVars
    /\ ClientInit /\ [][ClientNext]_clientVars
    /\ [](part \in PartNames)
<1>1. [PartsNext]_partVars =>
        /\ [ActNext]_actVars /\ [RateNext]_rateVars /\ [BossNext]_bossVars
        /\ [ManualNext]_manualVars /\ [TraceNext]_traceVars /\ [ApplyNext]_applyVars
        /\ [WorkdayNext]_workdayVars /\ [FillNext]_fillVars /\ [CollectVisibleFields]_scanVars
        /\ [OrchNext]_orchVars /\ [EngineNext]_engineVars /\ [SignInNext]_signVars
        /\ [SiteNext]_siteVars /\ [FieldNext]_fieldV3Vars /\ [DeployNext]_deployVars
        /\ [ScanFillNext]_scanFillVars /\ [ProgressNext]_progressVars /\ [CallbackNext]_callbackVars
        /\ [ClientNext]_clientVars /\ [TurnNext]_turnVars /\ [RegistryNext]_registryVars
        /\ UNCHANGED part
  BY PartsGoOn, PartsStandStill
<1>2. part \in PartNames /\ UNCHANGED part => (part \in PartNames)'
  OBVIOUS
<1>. QED
  BY <1>1, <1>2, PartsStart, PTL DEF PartsSpec, ActSpec, RateSpec, BossSpec, ManualSpec, TraceSpec,
     ApplySpec, FillSpec, ScanSpec, EngineSpec, SignInSpec, SiteSpec, FieldSpec, ScanFillSpec,
     ProgressSpec, TurnSpec, RegistrySpec

-----------------------------------------------------------------------------
(* The parts whose specification states fairness, or none: their           *)
(* invariants from their starts and steps.                                 *)

\* The limits of the API, the v3 engine's loop, Workday's loop, the deploys, the reports,
\* the progress and the client hold their invariants.
LEMMA PartsKeepInvariants ==
  PartsSpec => []RateInv /\ []OrchInv /\ []WInv /\ []DeployInv /\ []CallbackInv /\ []ProgressInv /\ []ClientInv
<1>1. RateInv /\ [RateNext]_rateVars => RateInv'
  BY RateStep
<1>2. OrchInv /\ [OrchNext]_orchVars => OrchInv'
  BY OrchStep
<1>3. WInv /\ [WorkdayNext]_workdayVars => WInv'
  BY WorkdayStep
<1>4. DeployInv /\ [DeployNext]_deployVars => DeployInv'
  BY DeployStep
<1>5. CallbackInv /\ [CallbackNext]_callbackVars => CallbackInv'
  BY CallbackStep
<1>6. ProgressInv /\ [ProgressNext]_progressVars => ProgressInv'
  BY ProgressStep
<1>7. ClientInv /\ [ClientNext]_clientVars => ClientInv'
  BY ClientGoesOn
<1>. QED
  BY <1>1, <1>2, <1>3, <1>4, <1>5, <1>6, <1>7, PartsAreParts, RateStart, OrchStart, WorkdayStart,
     DeployStart, CallbackStart, ProgressStart, ClientStart, PTL DEF RateSpec, ProgressSpec

\* The types of all parts, the moving one's among them.
THEOREM PartsTypes == PartsSpec => []PartsTypeOK
<1>1. PartsSpec =>
        /\ []ActTypeOK /\ []BossTypeOK /\ []ManualTypeOK /\ []TraceTypeOK /\ []ApplyTypeOK /\ []FillTypeOK
        /\ []ScanTypeOK /\ []EngineTypeOK /\ []SignInTypeOK /\ []SiteTypeOK /\ []FieldTypeOK
        /\ []ScanFillTypeOK /\ []TurnTypeOK /\ []RegistryTypeOK
  BY PartsAreParts, ActTypes, BossTypes, ManualTypes, TraceTypes, ApplyTypes, FillTypes, ScanTypes,
     EngineTypes, SignInTypes, SiteTypes, FieldTypes, ScanFillTypes, TurnTypes, RegistryTypes, PTL
<1>2. RateInv => RateTypeOK
  BY DEF RateInv
<1>3. OrchInv => OrchTypeOK
  BY DEF OrchInv
<1>4. WInv => WorkdayTypeOK
  BY DEF WInv
<1>5. DeployInv => DeployTypeOK
  BY DEF DeployInv
<1>6. CallbackInv => CallbackTypeOK
  BY DEF CallbackInv
<1>7. ProgressInv => ProgressTypeOK
  BY DEF ProgressInv
<1>8. ClientInv => ClientTypeOK
  BY DEF ClientInv
<1>9. /\ ActTypeOK /\ BossTypeOK /\ ManualTypeOK /\ TraceTypeOK /\ ApplyTypeOK /\ FillTypeOK
      /\ ScanTypeOK /\ EngineTypeOK /\ SignInTypeOK /\ SiteTypeOK /\ FieldTypeOK
      /\ ScanFillTypeOK /\ TurnTypeOK /\ RegistryTypeOK
      /\ RateTypeOK /\ OrchTypeOK /\ WorkdayTypeOK /\ DeployTypeOK
      /\ CallbackTypeOK /\ ProgressTypeOK /\ ClientTypeOK /\ part \in PartNames
      => PartsTypeOK
  BY DEF PartsTypeOK, PartNames
<1>. QED
  BY <1>1, <1>2, <1>3, <1>4, <1>5, <1>6, <1>7, <1>8, <1>9, PartsKeepInvariants, PartsAreParts, PTL

-----------------------------------------------------------------------------
(* The invariants of the parts, over the behaviours that TLC goes through. *)

\* At most one job's code drives the browser's page.
THEOREM PageAlwaysHasOneHand == PartsSpec => []OneHandOnThePage
BY PartsAreParts, PageHasOneHand, PTL

\* In no window do more requests pass than the limits allow, and only those that passed count.
THEOREM LimitsAlwaysHold == PartsSpec => []RateLimitsHold
<1>1. RateInv => RateLimitsHold
  BY PassedIsAll DEF RateLimitsHold
<1>. QED
  BY <1>1, PartsKeepInvariants, PTL

\* One job at a time, and a message for each row that waits; who is told to stop stops.
THEOREM WorkersAlwaysHold == PartsSpec => []WorkersHold
<1>1. ExecutorIsAlone /\ QueuedHasMessage /\ ToldToStop /\ LeavesTheList => WorkersHold
  BY DEF WorkersHold
<1>. QED
  BY <1>1, PartsAreParts, ExecutorStaysAlone, QueuedKeepsMessage, ToldIsToldToStop,
     LeftIsOffTheList, PTL

\* A manual's health is what its outcomes earned; a recorded trace can be replayed.
THEOREM MemoryAlwaysServes == PartsSpec => []HealthIsEarned /\ []TraceIsReplayable
BY PartsAreParts, HealthStaysEarned, RecordingsReplay, PTL

\* No handler submits the application itself, but by the mistakes the property names.
THEOREM StopsAlwaysBefore == PartsSpec => []StopsBeforeSubmission
<1>1. SubmitsOnlyByMistake /\ SubmitsNoReview /\ SubmitsOnlyForms => StopsBeforeSubmission
  BY DEF StopsBeforeSubmission
<1>2. WInv => SubmitsNoReview
  BY DEF WInv
<1>. QED
  BY <1>1, <1>2, PartsAreParts, PartsKeepInvariants, SubmittedByMistake, OnlyFormsAreSent, PTL

\* A page of Workday's that showed no error on arrival is looked at before anything presses
\* on from it, and the rounds of LLM calls that fill a page are bounded.
THEOREM PagesAndRoundsAreBounded == PartsSpec => []PagesAreNotSkipped /\ []LlmBounded
<1>1. WInv => PagesAreNotSkipped
  BY DEF WInv, PagesAreNotSkipped
<1>. QED
  BY <1>1, PartsAreParts, PartsKeepInvariants, LlmIsBounded, PTL

\* What the scans of a page say of it.
THEOREM ScansAreAlwaysTrue == PartsSpec => []ScansAreTrue
<1>1. CollidesOnlyLate /\ FilledIsNotReopened => ScansAreTrue
  BY DEF ScansAreTrue
<1>. QED
  BY <1>1, PartsAreParts, SelectorsCollideLate, FilledStaysFilled, PTL

\* What a run of the v3 engine spends and tries is bounded.
THEOREM WorkIsAlwaysBounded == PartsSpec => []WorkIsBounded
<1>1. OrchInv => WorkIsBounded
  BY WorkBounds DEF WorkIsBounded
<1>. QED
  BY <1>1, PartsKeepInvariants, PTL

\* The handler logs in to its own account, but for the exceptions the property names.
THEOREM LogsInToItsOwnAlways == PartsSpec => []LogsInToItsOwn
BY PartsAreParts, ItsOwnLetsIn, PTL

\* What the v3 engine believes of its fields and its pages.
THEOREM FieldsAreAlwaysTrue == PartsSpec => []FieldsAreTrue
<1>1. /\ VerifiedIsThere /\ OpenFieldsAreMatched /\ MoreThanHalf
      /\ TurnIsReal /\ TurnIsNoticed /\ SubmissionIsReal /\ LastIsLast
      => FieldsAreTrue
  BY DEF FieldsAreTrue
<1>. QED
  BY <1>1, PartsAreParts, VerifiedFieldsHold, OpenFieldsAreTaken, SuccessIsMost,
     TurnsAreReal, TurnsAreNoticed, SubmissionsAreReal, SubmitComesLast, PTL

\* What is told of a job: its progress is the present one, its end the last report's.
THEOREM ReportsAreAlwaysTrue == PartsSpec => []ReportsAreTrue
<1>1. ProgressInv /\ CallbackInv => ReportsAreTrue
  BY ReadersAreTold, WordsAreLast DEF ReportsAreTrue
<1>. QED
  BY <1>1, PartsKeepInvariants, PTL

\* The client's calls do each other no harm.
THEOREM ClientsAreAlwaysTold == PartsSpec => []ClientsAreTold
<1>1. ClientInv => ClientsAreTold
  BY CallersAreTold DEF ClientsAreTold
<1>. QED
  BY <1>1, PartsKeepInvariants, PTL

-----------------------------------------------------------------------------
(* The steps of the parts.                                                 *)

\* A right answer stays, and what is said to be filled is.
THEOREM AnswersAreAlwaysKept == PartsSpec => AnswersAreKept
BY PartsAreParts, TextStays, FreeLayerLeaves, FillIsTrue, PTL DEF AnswersAreKept

\* Nothing keeps the page loop going: neither the pages nor the fields.
THEOREM PageLoopRunsOut == PartsSpec => RunsOut
BY OrchRunsOut, PartsAreParts, PartsKeepInvariants, PTL DEF RunsOut

\* What is over stays over, and the page loop comes nearer to its end.
THEOREM EndsAreAlwaysFinal == PartsSpec => EndsAreFinal
<1>1. ClientInv /\ [ClientNext]_clientVars => [EndRespected]_clientVars
  BY ClientGoesOn
<1>2. PartsSpec => CallsRespectTheEnd
  BY <1>1, PartsAreParts, PartsKeepInvariants, PTL DEF CallsRespectTheEnd
<1>. QED
  BY <1>2, PartsAreParts, UnfitForGood, ProgressKeepsItsEnd, PageLoopRunsOut, PTL DEF EndsAreFinal

\* Two deploys meet only by the race the property names, and each tells the truth.
THEOREM DeploysAlwaysKeepTheirWord == PartsSpec => DeploysKeepTheirWord
<1>1. DeployInv /\ [DeployNext]_deployVars => [MeetOnlyByRace /\ TellsTheTruth]_deployVars
  BY DeployStep
<1>. QED
  BY <1>1, PartsAreParts, PartsKeepInvariants, PTL DEF DeploysKeepTheirWord
=============================================================================
