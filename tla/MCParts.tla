------------------------------- MODULE MCParts -------------------------------
(***************************************************************************)
(* Parts of a worker that share no state with each other, on small         *)
(* instances side by side: each behaviour is one of one part, the others   *)
(* stay in an initial state.  (Interleaving them would multiply their      *)
(* states and add no behaviour of any part.)                               *)
(***************************************************************************)
EXTENDS ActMutex, RateLimit, PgBossConsumer, Manuals, Trace,
        SmartApply, WorkdayApply, FillPage, FieldScan,
        SectionOrchestrator, CookbookV3,
        SignIn, WorkdaySite, V3Field, Deploy, ScanFill,
        Progress, Callbacks, JobClient, PageTurn, WorkerRegistry

VARIABLE part

partVars == <<actVars, rateVars, bossVars, manualVars, traceVars,
              applyVars, workdayVars, fillVars, scanVars, orchVars, engineVars,
              signVars, siteVars, fieldV3Vars, deployVars, scanFillVars,
              progressVars, callbackVars, clientVars, turnVars, registryVars, part>>

\* RateLimit: a tier and a platform, each of a tighter hour or day, and a tier without limits.
SmallLimits ==
  [s \in {"free", "site", "other"} |->
     CASE s = "other" -> [hourly |-> 2, daily |-> 2] [] OTHER -> [hourly |-> 1, daily |-> 2]]
SmallWindows == [hourly |-> 1, daily |-> 2]
\* SectionOrchestrator: two sections, a conditional field.
SmallForm == [f \in {"name", "visa", "details"} |->
                CASE f = "name" -> 1 [] f = "visa" -> 2 [] OTHER -> 0]
\* FillPage: a text, a list with a text box, and a checkbox nobody has an answer for.
SmallKind == [f \in {"school", "city", "terms"} |->
                CASE f = "school" -> "text" [] f = "city" -> "search" [] OTHER -> "box"]
\* PageTurn: fields, Next, Workday's button, Submit.
Contents ==
  {<<{1, 2, 3, 4}, "on", "none", "none">>, <<{1}, "on", "none", "on">>, <<{2}, "on", "none", "none">>,
   <<{1, 2, 3, 4}, "off", "none", "none">>, <<{1}, "none", "none", "on">>,
   <<{1}, "off", "none", "off">>, <<{}, "none", "on", "none">>}
Screen(which, c) ==
  [page |-> which, sameUrl |-> TRUE, fields |-> c[1], next |-> c[2], foot |-> c[3], submit |-> c[4]]
SmallScreens ==
  {Screen(p, c) : p \in {"this", "another"}, c \in Contents}
  \cup {[Screen("this", c) EXCEPT !.sameUrl = FALSE] : c \in {<<{}, "none", "on", "none">>}}
\* Deploy: every call asks for an image that the instance does not have yet.
Tags == [c \in Calls |-> "new"]

PartsInit ==
  /\ part \in {"act", "rate", "boss", "manual", "trace", "apply", "workday", "fill", "scan", "orch", "v3",
              "signin", "site", "field", "deploy", "element",
              "progress", "callback", "client", "turn", "registry"}
  /\ IF part = "apply" THEN TRUE ELSE page = CHOOSE p \in Of({"listing"}) : TRUE
  /\ IF part = "fill" THEN TRUE ELSE value = [f \in FormFields |-> "other"]
  /\ IF part = "scan" THEN TRUE ELSE layout = [kind |-> [f \in PageFields |-> 1], ids |-> {}, repeats |-> {}]
  /\ IF part = "orch" THEN TRUE ELSE full = {}
  /\ IF part = "v3" THEN TRUE
     ELSE v3 = [pc |-> "start", mode |-> "auto", cookbook |-> TRUE] /\ total = 0
  /\ IF part = "signin" THEN TRUE
     ELSE /\ setting = [platform |-> "generic", env |-> "none", own |-> "none"]
          /\ door = [at |-> "signin", sso |-> FALSE, link |-> FALSE, confirm |-> FALSE]
          /\ account = NoAccount
  /\ IF part = "site" THEN TRUE
     ELSE /\ sitePage = [kind |-> "form", title |-> FALSE, inputs |-> FALSE, box |-> FALSE, way |-> "save"]
          /\ lists = [d \in SelectLists |-> "answered"]
  /\ IF part = "field" THEN TRUE
     ELSE /\ widget = [kind |-> "text", prompt |-> FALSE, stays |-> TRUE, yes |-> TRUE]
          /\ held = "none"
  /\ IF part = "deploy" THEN TRUE ELSE listening = Composed /\ pickup = NoPickup
  /\ IF part = "element" THEN TRUE ELSE element = (CHOOSE e \in Elements : e.kind = "text") /\ chosen = NoValue
  /\ ActInit /\ RateInit /\ BossInit /\ ManualInit /\ TraceInit
  /\ ApplyInit /\ WorkdayInit /\ FillInit /\ ScanInit /\ OrchInit /\ EngineInit
  /\ IF part = "registry" THEN TRUE
     ELSE dispatch = "legacy" /\ idOf = [p \in Procs |-> CHOOSE w \in WorkerIds : TRUE]
  /\ RegistryInit
  /\ idOf[CHOOSE p \in Procs : TRUE] = CHOOSE w \in WorkerIds : TRUE   \* (interchangeable)
  /\ IF part = "client" THEN TRUE
     ELSE /\ jobRow = Absent
          /\ asking = [c \in JobCalls |-> [NewCall EXCEPT !.op = "poll"]]
  /\ SignInInit /\ SiteInit /\ FieldInit /\ DeployInit /\ ScanFillInit
  /\ IF part = "turn" THEN TRUE
     ELSE screen = Screen("this", <<{}, "none", "on", "none">>)
  /\ ProgressInit /\ CallbackInit /\ ClientInit /\ TurnInit

\* The part p makes a step, the others none.
Alone(p) ==
  /\ part = p /\ UNCHANGED part
  /\ IF p = "act" THEN TRUE ELSE UNCHANGED actVars
  /\ IF p = "rate" THEN TRUE ELSE UNCHANGED rateVars
  /\ IF p = "boss" THEN TRUE ELSE UNCHANGED bossVars
  /\ IF p = "manual" THEN TRUE ELSE UNCHANGED manualVars
  /\ IF p = "trace" THEN TRUE ELSE UNCHANGED traceVars
  /\ IF p = "apply" THEN TRUE ELSE UNCHANGED applyVars
  /\ IF p = "workday" THEN TRUE ELSE UNCHANGED workdayVars
  /\ IF p = "fill" THEN TRUE ELSE UNCHANGED fillVars
  /\ IF p = "scan" THEN TRUE ELSE UNCHANGED scanVars
  /\ IF p = "orch" THEN TRUE ELSE UNCHANGED orchVars
  /\ IF p = "v3" THEN TRUE ELSE UNCHANGED engineVars
  /\ IF p = "signin" THEN TRUE ELSE UNCHANGED signVars
  /\ IF p = "site" THEN TRUE ELSE UNCHANGED siteVars
  /\ IF p = "field" THEN TRUE ELSE UNCHANGED fieldV3Vars
  /\ IF p = "deploy" THEN TRUE ELSE UNCHANGED deployVars
  /\ IF p = "element" THEN TRUE ELSE UNCHANGED scanFillVars
  /\ IF p = "progress" THEN TRUE ELSE UNCHANGED progressVars
  /\ IF p = "callback" THEN TRUE ELSE UNCHANGED callbackVars
  /\ IF p = "client" THEN TRUE ELSE UNCHANGED clientVars
  /\ IF p = "turn" THEN TRUE ELSE UNCHANGED turnVars
  /\ IF p = "registry" THEN TRUE ELSE UNCHANGED registryVars

PartsNext ==
  \/ Alone("act") /\ ActNext
  \/ Alone("rate") /\ RateNext
  \/ Alone("boss") /\ BossNext
  \/ Alone("manual") /\ ManualNext
  \/ Alone("trace") /\ TraceNext
  \/ Alone("apply") /\ ApplyNext
  \/ Alone("workday") /\ WorkdayNext
  \/ Alone("fill") /\ FillNext
  \/ Alone("scan") /\ CollectVisibleFields
  \/ Alone("orch") /\ OrchNext
  \/ Alone("v3") /\ EngineNext
  \/ Alone("signin") /\ SignInNext
  \/ Alone("site") /\ SiteNext
  \/ Alone("field") /\ FieldNext
  \/ Alone("deploy") /\ DeployNext
  \/ Alone("element") /\ ScanFillNext
  \/ Alone("progress") /\ ProgressNext
  \/ Alone("callback") /\ CallbackNext
  \/ Alone("client") /\ ClientNext
  \/ Alone("turn") /\ TurnNext
  \/ Alone("registry") /\ RegistryNext

\* The parts that are one thread of code, and what their steps change; for the registry
\* the thread is the clock, for pg-boss whichever handler of a message goes on.
ThreadVars ==
  CASE part = "apply" -> applyVars [] part = "workday" -> workdayVars [] part = "fill" -> fillVars
    [] part = "orch" -> orchVars [] part = "turn" -> turnVars [] part = "signin" -> signVars
    [] part = "site" -> siteVars [] part = "field" -> fieldV3Vars [] part = "registry" -> registryVars
    [] part = "boss" -> bossVars [] OTHER -> <<>>

ThreadStep ==
  /\ UNCHANGED part
  /\ \/ part = "apply" /\ Execute
     \/ part = "workday" /\ WorkdayNext
     \/ part = "fill" /\ FillNext
     \/ part = "orch" /\ OrchNext
     \/ part = "turn" /\ LeavePage
     \/ part = "signin" /\ GetIn
     \/ part = "site" /\ SiteNext
     \/ part = "field" /\ FieldNext
     \/ part = "registry" /\ Later
     \/ part = "boss" /\ \E m \in Messages : Handle(m)

\* The parts that are several: calls of the deploy server and of the client, processes,
\* reports; the first, the second and so on of each kind share a condition.
Named == Calls \cup JobCalls \cup Procs
Order == CHOOSE f \in [1..Cardinality(Named) -> Named] :
           \A i, k \in DOMAIN f : f[i] = f[k] => i = k
Actors == DOMAIN Order \cup 1..MaxReports
\* The one of S that is the i-th, if there is one.
Nth(i, S) == {Order[k] : k \in {i} \cap DOMAIN Order} \cap S

ActorVars ==
  CASE part = "deploy" -> deployVars [] part = "client" -> clientVars
    [] part = "registry" -> registryVars [] part = "callback" -> callbackVars [] OTHER -> <<>>

ActorStep(i) ==
  /\ UNCHANGED part
  /\ \/ part = "deploy" /\ \E c \in Nth(i, Calls) : ExecuteDeploy(c)
     \/ part = "client" /\ \E c \in Nth(i, JobCalls) : ClientStep(c)
     \/ part = "registry" /\ \E p \in Nth(i, Procs) : Beat(p)
     \/ part = "callback" /\ i \in Reports /\ SendWithRetry(i)

\* A handler's and an engine's code goes on by itself; so do calls, time, and what pg-boss
\* delivered.  (One condition for all parts is one for each: a behaviour has one part.)
PartsFairness ==
  /\ WF_ThreadVars(ThreadStep)
  /\ \A i \in Actors : WF_ActorVars(ActorStep(i))

PartsSpec == PartsInit /\ [][PartsNext]_partVars /\ PartsFairness

\* The state variables have their types: those of the part that moves, for the others'
\* stay as they were.
PartsTypeOK ==
  CASE part = "act" -> ActTypeOK [] part = "rate" -> RateTypeOK [] part = "boss" -> BossTypeOK
    [] part = "manual" -> ManualTypeOK [] part = "trace" -> TraceTypeOK
    [] part = "apply" -> ApplyTypeOK [] part = "workday" -> WorkdayTypeOK
    [] part = "fill" -> FillTypeOK [] part = "scan" -> ScanTypeOK [] part = "orch" -> OrchTypeOK
    [] part = "v3" -> EngineTypeOK [] part = "signin" -> SignInTypeOK [] part = "site" -> SiteTypeOK
    [] part = "field" -> FieldTypeOK [] part = "deploy" -> DeployTypeOK
    [] part = "element" -> ScanFillTypeOK [] part = "progress" -> ProgressTypeOK
    [] part = "callback" -> CallbackTypeOK [] part = "client" -> ClientTypeOK
    [] part = "turn" -> TurnTypeOK [] part = "registry" -> RegistryTypeOK

\* A handler stops before it submits the application, but for the mistakes these
\* properties tell of.
StopsBeforeSubmission == SubmitsOnlyByMistake /\ SubmitsNoReview /\ SubmitsOnlyForms

\* The limits of the API hold, and only requests that were not refused count.
RateLimitsHold == LimitsHold /\ OnlyPassedCounts

\* A worker runs one job at a time, and a row that waits has its message; one that was
\* told to stop takes no more and leaves the list of workers, with the exceptions that
\* the properties name.
WorkersHold == ExecutorIsAlone /\ QueuedHasMessage /\ ToldToStop /\ LeavesTheList

\* A right answer stays: a text that the handler's setter meets, and whatever the free
\* layer of the v3 engine meets, but for what it has to open or types over.  And what the
\* handler's ways to fill a field say they have done is so, but for what that property names.
AnswersAreKept == TextIsKept /\ FreeLayerKeeps /\ FillTellsTheTruth

\* The scan of a page loses a field only late, and does not take for open what was filled
\* from it, with the exceptions the two properties name.
ScansAreTrue == CollidesOnlyLate /\ FilledIsNotReopened

\* What the v3 engine takes for unanswered is so, what it calls verified is answered, what
\* it takes for a new page or a submission is one, and a page that its cookbook is said to
\* have filled is so by more than half, with the exceptions that the properties name.
FieldsAreTrue ==
  VerifiedIsThere /\ OpenFieldsAreMatched /\ MoreThanHalf
  /\ TurnIsReal /\ TurnIsNoticed /\ SubmissionIsReal /\ LastIsLast

\* A run of the v3 engine spends no more than its budget and one action, with the
\* exceptions that property names, and tries no field of a section a third time.
WorkIsBounded == OverrunIsBounded /\ TriesAreFew

\* The progress told is the present one, and VALET hears of a job's end what its last
\* report says, with the exceptions the properties name.
ReportsAreTrue ==
  NothingIsWithheld /\ StreamIsCurrent /\ EndIsStored /\ LastWordIsLast /\ AttemptsAddUp

\* The client's calls for one job do each other no harm, but for what the property on
\* silent waits names.
ClientsAreTold == OneCreates /\ SilenceHasReason

\* What is over is not undone by somebody late: an unfit manual stays unfit, a finished
\* job's progress stays at its end and falls only with its step, and the client's calls
\* respect the end of a job; and the page loop comes nearer to its own with every step.
EndsAreFinal == UnfitStaysUnfit /\ EndIsFinal /\ PercentKeepsUp /\ CallsRespectTheEnd /\ RunsOut

AtWork ==
  \/ part = "apply" /\ loop.pc # "over"
  \/ part = "workday" /\ run.pc # "over"
  \/ part = "fill" /\ fill.pc \notin Ends
  \/ part = "orch" /\ orch.pc # "end"
  \/ part = "signin" /\ sign.pc # "over"
  \/ part = "site" /\ visit.pc # "over"
  \/ part = "field" /\ task.pc \notin {"unseen", "unmatched", "taken", "verified", "failed"}
  \/ part = "turn" /\ turn.pc # "over"
  \/ part = "registry" /\ ListIsWrong
  \/ part = "boss" /\ \E j \in BossJobs : Waits(j)
  \/ part = "callback" /\ \E r \in Reports : reports[r].at \in {"sending", "backoff"}
  \/ part = "client" /\ \E c \in JobCalls : asking[c].pc # "over"
  \/ part = "deploy" /\ \E c \in Calls : AtDeploy(c) \/ calls[c].pc = "body"

\* Whatever the site answers, a job of either handler comes to its result, a page
\* it fills to its end, and a run of the v3 engine's page loop to its own; a report is
\* acknowledged or given up, a call of the client comes back, what pg-boss has for a
\* running worker gets to execute(), and a dead worker is taken off the list.
PartsEnd == AtWork ~> ~AtWork
=============================================================================
