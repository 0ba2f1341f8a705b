# GhostHands in TLA+

GhostHands fills in job applications in a browser on behalf of users of VALET.
VALET (or the GhostHands API) inserts rows into the PostgreSQL table
`gh_automation_jobs`; worker processes claim rows, run a browser agent for each,
ask a human when a page blocks them, write the outcome back and post callbacks
to VALET. This directory holds TLA+ models of that system, TLC configurations
that check them on small instances, and TLAPS proofs. Source paths below are
relative to `packages/ghosthands/src/`, those of documents and of the deploy
scripts to the repository.

Run a check with `tlc -config JobQueueSafety.cfg MCJobQueue.tla`, a proof with
`tlapm JobQueueProofs.tla`. `PROJECT.json` lists the runs, the mutants (plausible
bugs in the code that the runs must notice, at least one per property), the
correspondence of definitions and source lines, the findings, the hazards and
the theorems. Operators whose comment begins with "Mutant:" are used by nothing
but these.

## 1. Inventory

| Component | State | Operations | Talks to |
|---|---|---|---|
| `workers/JobPoller.ts` | `running`, `activeJobs`, `pickupInFlight`; the rows' `status`, `worker_id`, `last_heartbeat` | `start`, `recoverStuckJobs`, `tryPickup`, `stop`, `releaseClaimedJobs` | PostgreSQL over one direct connection; `JobExecutor.execute` un-awaited |
| `workers/PgBossConsumer.ts` | `processing`, current pg-boss job | `handleJob`, `releaseClaimedJobs` | two pg-boss queues, the rows, `JobExecutor` |
| `workers/JobExecutor.ts` | `_cancelled`, `_activeAdapter`, `_executionAttemptId` (one of each per worker), a pool of two PostgreSQL clients | `execute`, `handleJobError`, `checkForBlockers`, `requestHumanIntervention`, heartbeat, crash recovery | rows, adapters, cost control, progress, callbacks, NOTIFY channels |
| `workers/main.ts` | `draining`, `shuttingDown`; registry row | boot, signals, drain, force release, registry heartbeat | poller or consumer, VALET, ASG |
| `api/controllers/jobs.ts`, `api/routes/jobs.ts` | rows | create, cancel, retry, list | rows |
| `api/routes/valet.ts` | rows, registry, sessions | apply/task, resume, deregister, sessions | rows, NOTIFY `gh_job_resume` |
| `workers/costControl.ts` | per-job counters; `gh_user_usage` row per user and month | `recordTokenUsage`, `recordAction`, `preflightBudgetCheck`, `getUserUsage`, `recordJobCost` | `gh_user_usage`, RPC increment; also called by `GET /users/:id/usage` |
| `workers/callbackNotifier.ts` | none (one retry loop per notification) | `notify*`, `sendWithRetry` | VALET |
| `workers/progressTracker.ts`, `lib/redis-streams.ts` | current step, action index, throttle, pending snapshot | step inference, throttled emits, flush | Redis stream, `gh_job_events` |
| `client/*` (the SDK) | channels by name | create, cancel, retry, subscribe, wait | rows, Supabase Realtime |
| `adapters/actMutex.ts`, `adapters/magnitude.ts`, `adapters/stagehand.ts` | `actInFlight`, `poisoned`, `pendingAct`; pause gate | `act`, `exec`, `pause`, `resume`, `stop` | browser and LLM SDKs |
| `engine/*` (manuals) | manuals with a health score; a trace being recorded | lookup, replay, `recordSuccess`, `recordFailure`, saving | `gh_action_manuals` |
| `engine/v3/*` | per-page plan, layer costs, attempts, budget | scan, match, execute by layer, verify, escalate, turn the page, replay a cookbook | DOM, adapters, cost tracker |
| `workers/taskHandlers/smartApplyHandler.ts` and `platforms/*` | pages seen, `loginAttempted` | detect a page, log in, make an account, scan and fill a page, press the button that leads on | adapter, LLM |
| `workers/taskHandlers/workday/*` | page counters | the same for Workday, page by page | adapter, LLM |
| `security/rateLimit.ts`, `security/domainLockdown.ts` | sliding windows; allowed domains | check, record, roll back; intercept requests | memory; browser |
| `scripts/deploy-server.ts`, `scripts/lib/*` (of the repository) | `currentDeploy`; containers and images | pull, drain, stop, remove, create, start, wait | Docker, ECR, the workers |
| `sessions/SessionManager.ts` | encrypted browser sessions | load, save, clear | `gh_browser_sessions` |
| `detection/*`, `connectors/*` | none that outlives a call | page patterns | pages |
| `monitoring/*`, `events/*`, `db/*`, `scripts/*` | metrics, logs | read-only or command-line | the same tables |

What is hard here:

* **Interleaving.** Every database statement is an `await`; workers, heartbeats,
  human waits and API calls interleave between any two of them, and almost every
  write of the executor is `UPDATE ... WHERE id` without a guard on what it read.
* **Shared fields.** The executor keeps `_cancelled`, `_activeAdapter` and the
  attempt id in fields of one object per worker, which is right only as long as
  a worker never has two executions; `loginAttempted` is a field of a handler
  that outlives its job.
* **Shutdown and start.** `stop()` races with a pickup already sent, with a running
  execution and with its own thirty seconds; a signal may come before the worker
  is up.
* **Crashes.** A dead worker leaves its rows as they are; recovery runs only when
  some worker starts, and only for heartbeats older than two minutes.
* **Timeouts.** A handler, an `act()`, a human, a heartbeat, a callback and a
  container's health check each have one, and the timed-out work goes on in the
  background in every case.
* **Notifications** can be lost: LISTEN is issued after the row says `paused`, and
  Realtime tells nothing of what happened before a subscription.
* **Pages.** Handlers and engines decide by texts, buttons and scans that are
  overtaken by the LLM, by the site and by what they have done themselves; the one
  thing they must not do is to send the application.

What makes each component correct, as far as it keeps state:

| Component | Correct means |
|---|---|
| Job poller | a worker has at most one job, and never one while another claim is on its way; a shutdown leaves no row in the worker's name; a row that waits has no owner; a finished job is not brought back; a queued job is taken; a crashed worker's job is recovered; routing is obeyed |
| Job executor | a cancellation reaches the running job and stays; every exit frees the slot, the browser and the pool's client, records its cost once and reports one end; a human's answer is heard; a late heartbeat answer does not stop the next job |
| pg-boss consumer | one job at a time over two subscriptions; no row waits without a message, none has two |
| Worker registry | who was told to stop takes no more jobs; who has left is not listed; who died is swept out |
| Cost control | usage is never lost or counted twice; a month's usage stays within a bound that follows from the budgets |
| Callback notifier | VALET's last word on a job is its last report; no report goes round for ever |
| Progress tracker | what was said last is the present state; a finished job's progress stays |
| Client SDK | one creation per key; what has ended is not cancelled; a wait hears the end |
| Act mutex | two `act()` calls never drive one page; a timed-out call keeps it closed until it settles |
| Manual store | health and counters count what replays did; an unfit manual stays unfit |
| Trace recorder | steps are replayed as they were recorded |
| Handlers | they stop before submission, whatever a page looks like; a page costs a bounded number of LLM calls; no page is skipped; the account they made can be logged in to |
| Scan and fill | no field is lost or filled twice; a right answer is not overwritten; "filled" means filled |
| V3 engine | spending and attempts are bounded; a field called verified holds the answer; a page taken for turned has turned |
| Rate limiter | a window admits at most its limit; a call that a limit refuses is not counted |
| Deploy server | one deployment at a time; what it answers is so |
| Session manager | a session saved last is the one loaded |

## 2. Plan, and where it stands

The modules are written to be proved about: parameters are CONSTANTS with a named
assumption, an action is one operation, an invariant a conjunction of named
parts, and none declares a RECURSIVE operator. The order was by what matters most.

| | Module | About | State |
|---|---|---|---|
| 1 | `WorkerSlots` | abstract: what a fleet of workers promises | done |
| 2 | `JobQueue` | rows, workers, executions and outside calls; refines 1 | safety and refinement proved |
| 3 | `CostControl` | monthly usage, preflight, tracking, recording | proved |
| 4 | `Executor` | one executor from inside: pool, LISTEN after `paused`, late answers, crash recovery, costs and reports | safety proved |
| 5 | `PgBossConsumer`, `WorkerRegistry` | dispatch by messages; a process's life and its row | proved |
| 6 | `ActMutex` | the adapters' mutex, time-outs and poisoning | proved |
| 7 | `Callbacks`, `Progress`, `JobClient` | what others come to know of a job | proved |
| 8 | `Manuals`, `Trace` | shared manuals and their recording | proved |
| 9 | `SmartApply`, `SignIn`, `WorkdayApply`, `WorkdaySite` | the loops of the handlers over pages, doors and forms | proved |
| 10 | `FillPage`, `FieldScan`, `ScanFill` | one page, its scan, one element | proved |
| 11 | `SectionOrchestrator`, `PageTurn`, `CookbookV3`, `V3Field` | the v3 engine: page loop, turning, replay, one field | proved |
| 12 | `RateLimit`, `Deploy` | the API's windows; the deploy server | proved |

`JobQueue` is where components meet on shared state: pollers, executors, both
APIs and recovery all write the same rows. `Executor` opens up one execution of
it. The modules from 5 on share no state with each other as far as they are
modelled and are checked side by side in one module, `MCParts`, of which a
behaviour is a behaviour of one part. "Proved" is said of the safety and action
properties; each is checked by TLC, too, and liveness by TLC alone (section 6). What
is left out is in section 8.

## 3. The models and the code

### JobQueue and WorkerSlots

The rows of `gh_automation_jobs` are one function of the job per column:
`status`, `worker_id`, `execution_attempt_id`, `retry_count`, `last_heartbeat`
(null, fresh, or stale: more than 120 seconds old) and `progressed` (the events
table has something recovery takes as progress). A worker is a process `proc`
that is down, up, in one of the steps of `stop()`, or stopped; `pickup` is the
claim statement in flight; `active`, `cancelled` and `current` are
`JobPoller.activeJobs`, `JobExecutor._cancelled` and
`JobExecutor._executionAttemptId`; `recovery` is `recoverStuckJobs()` at work.
`exec` is a function of the attempt id: the UUID is chosen when `execute()`
starts and is forgotten when neither an execution nor a row has it any more,
which lets a few ids stand for all. `hitl` is `requestHumanIntervention()` of a
worker for a job, `resumeCall` the VALET resume route between its statements.

One SQL statement is one action; what follows an `await` is another. So

* `Submit`, `Cancel`, `Retry` are the API's single guarded UPDATEs;
* `ResumeCheck`, `ResumeNotify`, `ResumeWrite` are the three statements of
  `POST /valet/resume`, `Deregister` the UPDATE of the deregistration;
* `Start`, `RecoverCount`, `RecoverWrite` are start and recovery: the SELECT of
  the stuck rows, then for each row a count of events and an unguarded UPDATE;
* `TryPickup`, `PickupEmpty`, `PickupClaim`, `PickupFails`, `BeginExecution` are
  `tryPickup()`: the guard, the statement in the database, its failure (also one of
  which only the answer is lost, so that a row is claimed and no worker knows), and
  the continuation that counts the slot and calls `execute()`;
* `Stop`, `Unlistened`, `ReleaseClaimedJobs`, `ForceRelease`, `Die` are shutdown
  and death, `ReleaseFails` the UPDATE whose failure both only log: the worker ends
  `unreleased`, with its rows claimed. UNLISTEN travels on the connection of the
  pickup and so returns after it; that is what keeps `NothingLeftClaimed` true of the
  releases that go through, and the mutant `UnlistenedEarly` shows it;
* `Stamp`, `PreflightPasses`, `Reject`, `Launch`, `BrowserRecovered`,
  `StepCompleted`, `Succeeds`, `AwaitUserReview`, `Throws`, `RetryLater`,
  `GiveUp`, `Close` are the writes of `execute()` and `handleJobError()` in their
  order; `AskHuman`, `HumanResumed`, `HumanTimeout` are the human's turn,
  `Heartbeat` and `ToldToStop` what sets `_cancelled`.

`Next` is split in `Routine` (what the program does by itself) and `Disturbance`
(what users, deployments and failures do to it), so that `MCJobQueue` can bound
the second without touching the first.

`WorkerSlots` is the abstract specification: a worker is off, open or closed and
has at most one task, which it may take only while it is open. `JobQueue`
defines `SlotMode` and `SlotTask` (the claimed row, or the job of the current
execution) and instantiates it.

Left out: priority, creation time and retry back-off (they choose among eligible
rows, never make one eligible); the fallback of `waitForResume` to polling, and a
transaction pooler in front of the poller (the direct URL mode of production is
modelled, where pickup and UNLISTEN share a connection).

### Executor

One `JobExecutor` through its executions. `x` is the execution at work with its
phase; `calls` are the un-awaited `checkForBlockers()` and
`requestHumanIntervention()`, which may outlive it; `active`, `alive` and `free`
are the adapter in hand, the browsers that run and the pool's free clients;
`beat` is a heartbeat whose answer is on its way, `row` and `out` the status and
what was recorded and reported. `Begin` and `Setup` are steps 1 to 8 of
`execute()`, the `InitialCheck...` actions its blocker check raced with 20
seconds, `Replay`, `FallBack`, `Handler...`, `Recover` the engine, the handler and
crash recovery, `Complete` to `StopAdapter` its ends, its catch and its finally;
`AskHuman` to `Resume` are the wait with its client of the pool, NOTIFY or
polling, timeout and answer. With `WritesMayFail` every Supabase write may be
dropped unnoticed, as that client does. A start that fails and a stop whose failure is
swallowed may leave a browser that nobody holds (`StopOf`, `leaks`); the background
check looks for blockers from its wiring until the `finally`, and the adapter's events
until it stops (`wired`). A `connect()` on an exhausted pool has no timeout: that wait
ends only when the pool serves (`PoolServes`). `MCExecutor` chooses one of five scenarios
at the start, each generous in one direction: `TwoAsks` (two requests for a human
in one execution), `LateCall` (a request that outlives its execution), `LateBeat`
(a heartbeat's answer that comes in the next, a crash of a browser, a browser left
behind), `Disturbed` (a cancellation or a browser's death beside a request and a
heartbeat), `LeftBehind` (the same without a request, and two browsers left behind).

### CostControl

One user. `created` and `usage` are the rows of `gh_user_usage` by month; `slot`
is the execution of each worker with the `CostTracker`'s cost, what the provider
really charged, and the month of its preflight; `viewing` holds the usage
requests that have found no row. `tracked` and `blind` are history variables.

`PreflightFindsRow`, `PreflightFindsNothing`, `PreflightCreatesRow` and
`PreflightWritesNothing` are `preflightBudgetCheck()` over `getUserUsage()`: a SELECT
whose error is taken for a missing row, then an upsert of a zero row whose error is
dropped. Either way the job is let in as if nothing had been used (`LetIn`); where the
row stays as it was, `blind` counts the execution, and `UsageIsBounded` allows one
ceiling more for each. `ViewFindsNothing`, `ViewCreatesRow` and `ViewWritesNothing` are
the same function behind `GET /users/:id/usage`. `Spend` is one LLM call counted
by `recordTokenUsage()`, which throws after counting; handlers that catch the
error go on. `AgentRuns` is `AgentApplyHandler`, which counts once per run, or
twice. `RecordJobCost` is the atomic increment, `LoseCost` its swallowed failure
or the worker's death, `MonthEnds` the calendar.

Left out: the development mode that skips the preflight, action limits, the tier
lookup, counters that only report, and what a handler abandoned by its timeout
spends after its cost was recorded. Money is a natural number.

### Dispatch and processes

**PgBossConsumer.** `message` is where each pg-boss message is: unsent, queued,
busy, to be sent again, looked up, executing, done; `processing` is the guard
that two subscriptions share. `Take` and `TakeBusy` are the guard, `CheckBusy` and
`Resend` the re-send of a message that came while the worker was busy,
`ExecuteBossJob` the read of the row and the write of `running`, `ReleaseClaimedJobs`
the shutdown, which puts rows back without a message (`forsaken`).

**WorkerRegistry.** A process goes from `start` through its row (`Register`, `CleanUp`)
and its processor (`StartProcessor`) to `running` and `gone`; `Beat` is the
60-second heartbeat with the sweep of silent workers, `Drain`, `Signal`,
`DeregisterWorker`, `Exit` the ways out, `DeregisterByValet` the API's. Time is the
age of a row's heartbeat in three classes. What the properties tell, and except:

* a signal before `deregisterWorker` is initialised makes `shutdown()` throw a
  ReferenceError, which is only logged: the worker goes on starting and takes
  jobs (the comment at `main.ts:203` guards one variable against this, not this one);
* `/worker/drain` in queue mode changes the registry and nothing else: pg-boss goes on
  delivering (`main.ts:533`, `PgBossConsumer.ts:110-114`);
* a worker that dies while draining stays listed: the sweep looks at `active` only;
* a registration that fails after its INSERT exits and leaves an `active` row; a live
  worker that VALET deregisters lists itself again with its next heartbeat; two
  processes with one id write over each other; a forced exit does not deregister.

**RateLimit.** `store` has the entries of each key (a time stamp and a number, since
stamps may be equal), `passed` (history) those of the requests that passed. A request
is one step, since the middleware has no await between body and answer. It runs before
the body is validated: a platform that is unknown makes its check throw after the tier's
record (`PlatformUnknown`), which stays, so that such a call counts though it is
answered by an error. A platform's refusal pops the last record of the tier's window,
which is another request's if the tier is unlimited (`slipped`).

**Deploy.** `calls` are `POST /deploy` requests at their awaits; `containers`,
`images` and `listening` the instance, on whose network the first to listen has a
port; `pickup` the worker in its container, which takes jobs meanwhile. A poll of
`/health` and the end of the wait are two steps (`WaitForHealthy`, `HealthTimesOut`),
two seconds or a fetch apart: a service may come up between them and be reported as
unhealthy all the same, and what its last poll `heard` is what the answer says. Seen on the
way: the server posts to `/drain` while the worker's route is `/worker/drain`, and
takes its 404 for a success; several worker containers are replaced by one; errors
inside the stream of a pull are not seen; a failed deployment is not rolled back.

### What others hear of a job

**Callbacks.** `reports` are the notifications of one job, each with its attempt, its
aborted requests that may still arrive, and what VALET took. They are not awaited,
so `resumed` may overtake `needs_human`; only where they do not overlap is VALET's
last word the last report (`LastWordIsLast`). The file's header promises three
attempts, the loop makes four. A final report can be lost.

**Progress.** `progress` is the tracker, `emits` the emits under way, `streamed` and
`stored` the Redis stream and `gh_job_events`, `flow` the executor, the handler and
an act left behind. A pending snapshot's content is never sent: `flush()` makes a
fresh one. `failed` is not in `STEP_ORDER`, so that an act or a handler that goes on
after a timeout takes a failed job out of its step; only that may (`EndIsFinal`).

**JobClient.** Calls of the SDK in database mode, statement by statement, while a
worker (external here) changes the row: `LookUpKey` and `InsertJob` are creation,
`ReadJob` and `Write` cancel or retry, `Subscribe` to `WaitTimesOut` the wait on a
channel, `Poll` the wait by polling. `SilenceHasReason` says when a wait hears
nothing of an end: it joined too late (no row is fetched then), or another wait for
the job removed its channel, which has the same name. `waitForCompletion()` of the
subscriber is documented to fall back to polling (`client/realtimeSubscriber.ts:305`)
and rejects instead. `awaiting_user_review` is unknown to the client.

### Manuals, traces and the mutex

**ActMutex.** `mutex` is the `ActMutexState`, `running` the SDK calls whose promise has
not settled, `caller` the handler, which awaits each of its calls. A call that times
out poisons the mutex, which opens only when that call settles
(`AcquireSettled`), also across `Refresh`.

**Manuals.** A manual's row is read, and written back from what was read, by the jobs of
several workers. Updates get lost; what holds is that a record is never better or
worse than its replays (`HealthIsEarned`), and that nothing brings an unfit manual
back but replays begun before (`UnfitStaysUnfit`).

**Trace.** Lookups of elements that nobody awaits, answered in any order;
`TraceIsReplayable` is about what `order` makes of that.

### The handlers

**SmartApply** is the smart handler's loop on a site without a configuration of its
own. A page is the features that detection and buttons look at, chosen from all
combinations, plus what it really is (`kind`), which only the LLM and the site know.
`DetectPage`, `ClickNextButton` and the `Handle...` actions are the code's methods;
`submission` (history) tells who sent the application from which page.
The LLM may read a form of few fields as one that makes an account, and the code
corrects it from five fields on (`smartApplyHandler.ts:426`); what fills a login or an
account clicks the first button that fits, or calls `form.requestSubmit()`.
`SubmitsOnlyByMistake` names the four mistakes that remain.
**WorkdayApply** is the same for `taskHandlers/workday`, with the loop of
`clickNextWithErrorRecovery()` within the loop. The click, the site's answer
(`SiteAnswers`, of what is `due`) and the look for errors two seconds later
(`CheckForErrors`) are steps of their own: an alert of the page before, which a slow
server has not replaced yet, is taken for the answer, and the page that comes while it
is seen to is left unseen (`seenBy` "late"); **WorkdaySite** is the smart handler
on a Workday form: its lists, resume, skills and button.

**SignIn** is the way past a door: Google, login, account, mailed code. A password is
where it comes from; `account` outlives a job, and so does `loginAttempted`. A refusal
in words that `checkLoginError()` does not know counts as a success; `lockedOut`
(history) has the refusals of the handler's own account, those seen and those taken for
success.
On Workday the login takes its password from the environment alone
(`platforms/workdayConfig.ts:1709`) and the account from the profile; the
exceptions of `LogsInToItsOwn` say what follows.

**FillPage** is one call of `fillPage()` with those it makes of itself: `value` says who
wrote each field last, `open` what the last scan took for empty, `acts` counts the
LLM. **FieldScan** is the scan, viewport by viewport, with its numbering of elements;
the running number counts new fields only while the numbers given count all
visible ones (`platforms/genericConfig.ts:585`), so that from the third viewport on
a field may get another's selector and be lost (`CollidesOnlyLate`). Ids are taken to be
unique, as HTML asks; test marks (`data-testid`, `data-automation-id`) are not, and the
fields that have one in common share its selector (`layout.repeats`). **ScanFill** is
one element: what each kind of element reads as, what each way to fill it does and
says it has done. `FillTellsTheTruth` and `FilledIsNotReopened` name what is not so:
among others an input for a date or for a number, which is scanned as text, may refuse the
answer and is reported as filled, a checkbox is checked also where the answer is no, and a
select whose first entry is the answer reads as empty.

### The v3 engine

**SectionOrchestrator** is the page loop: `Observe`, `PlanSection`, `Act` with all
layers and attempts, the passes that discover conditional fields, `ClickSubmit` and
`Navigate`, with the budget. An action or a click costs what its LLM calls cost, any
number up to `MostCharged`, and `charged` (history) is what the last ones cost: that
is how far the budget is overdrawn. A field without a name has a fingerprint with its
place in the document (line 563), which shifts when a field appears before it: such
fields (`Shifting`) may be found new, and tried, once in every round of discovery.
**PageTurn** opens up the last two: what is clicked, and the polls that look for a
turn, while the site shows any screen of `Screens`: disabled buttons, skeletons,
groups that open and close, the next page. A poll reads a screen at once; several
fields of one name count as one. A Next button that is away or disabled counts as a
turn, a Submit button must be gone; a failed poll forgets the count but not the
fingerprint; a poll whose document is replaced under it counts as a turn, also where
the server posts the same form back (`torn`). **CookbookV3** is the replay of a page
and the choice between it and the layers. **V3Field** is one field through scan,
match, the three layers and the review. Among what it shows: radios read as empty
whatever they hold, lists that show a prompt as filled; ARIA radios can be neither
filled by the DOM layer nor verified; `fillAriaRadio` is reached by nothing. Nothing
outside `engine/v3` calls this engine yet.

## 4. The runs

| Run | Bounds | Checks | Distinct states |
|---|---|---|---|
| `jobqueue_safety` | 2 workers, 1 job, 3 attempts, 1 retry by the worker and 1 by the API, 1 disturbance | `TypeOK`, `SlotsAgree`, `OneTaskPerWorker`, `PendingIsUnowned`, `FinishedStaysFinished` | 1,304,489 |
| `jobqueue_live` | 1 worker, 1 job, 2 attempts, 2 disturbances | `NothingLeftClaimed`, `CancelReachesExecutor`, `SlotIsFreed`, `QueuedIsServed`, `ImplementsSlots` | 31,190 |
| `jobqueue_sharing` | 2 workers, no disturbance | `NoTwoWorkersShareAJob` fails | |
| `jobqueue_cancel` | 1 worker, 1 disturbance | `CancelledStaysCancelled` fails | |
| `jobqueue_crash` | 1 worker, 1 disturbance, fairness | `CrashedJobIsRecovered` fails | |
| `jobqueue_routing` | 2 workers, 1 job preferring the second, 1 disturbance, fairness | `PreferredFallsBack` fails | |
| `executor` | 2 executions, 2 clients, the five scenarios, writes that may fail | `TypeOK`, `BrowserIsOwned`, `PoolBalances`, `EndsAreAccounted`, `ExecutionEnds`, `AskEnds` | 411,431 |
| `executor_human` | 2 executions, scenario `LateCall`, writes that do not fail | `WaitingIsVisible` fails | |
| `cost_control` | 2 workers, 2 kinds of jobs, 2 months, 3 executions, budget 3, calls up to 2, 1 ignored refusal | `TypeOK`, `UsageIsBounded`, `CostsAreCapped`, `RoomIsLeft`, `CostsRecordedOnce` | 739,956 |
| `cost_reset`, `cost_twice` | as above, 1 execution | `UsageOnlyGrows`, `CountedIsSpent` fail | |
| `parts` | below | 15 invariants, 4 temporal properties | 572,906 |

The properties of `parts`, and the parts they are about:

| Property | Of | Says |
|---|---|---|
| `PartsTypeOK` | all 21 | types |
| `OneHandOnThePage` | ActMutex | no two SDK calls on one page |
| `RateLimitsHold` | RateLimit | no window over its limit, nothing counted but what passed |
| `WorkersHold` | PgBossConsumer, WorkerRegistry | one job, one message; told to stop means stopped; who left is offline |
| `HealthIsEarned` | Manuals | records follow from replays |
| `TraceIsReplayable` | Trace | order and elements are right |
| `StopsBeforeSubmission` | SmartApply, WorkdayApply, WorkdaySite | nothing is sent, but by the mistakes named |
| `PagesAreNotSkipped` | WorkdayApply | a page that came in time and without an error is looked at before it is left |
| `LlmBounded` | FillPage | calls of the LLM per page |
| `ScansAreTrue` | FieldScan, ScanFill | fields are lost only late; what was filled is not open again |
| `WorkIsBounded` | SectionOrchestrator | overdrawn by one action and one click at most; two tries per field, or one per round where its fingerprint shifts |
| `LogsInToItsOwn` | SignIn | the handler's own account does not refuse it, seen or unseen, but for the exceptions named |
| `FieldsAreTrue` | V3Field, PageTurn, CookbookV3 | verified, unanswered, turned, submitted and replayed are what they say |
| `ReportsAreTrue` | Progress, Callbacks | the present step is told; the last word is the last |
| `ClientsAreTold` | JobClient | one creation; silence has a reason |
| `AnswersAreKept` | FillPage, ScanFill, V3Field | right answers are not overwritten; "filled" means filled |
| `EndsAreFinal` | Manuals, Progress, JobClient, SectionOrchestrator | what is over is not undone late; the page loop nears its end (`RunsOut`) |
| `DeploysKeepTheirWord` | Deploy | deployments meet only by a race; their answers are so |
| `PartsEnd` | all with an end | every part at work comes to its end |

**Why these bounds.** The safety properties of the queue speak of one job, or of one
worker and its executions; two workers on one job is where they can collide (a
shared claim, a release of the other's row, a recovery beside an execution), and
one worker and its restarts is where a slot can be overfilled. Three attempts allow
both workers an execution with a third id still stamped on the row. With one
disturbance TLC still reaches recovery beside an execution, a shutdown with a
pickup in flight and a retry of a cancelled job; the bound is on the behaviour,
not on the workers' own steps. For the properties that are proved (section 6)
the instance does not matter. A violation run is small on purpose: its trace is
read by people. In `executor` two executions are what a late answer or call
needs, and two requests what it takes to use up the pool of two. In `cost_control`,
job type `apply` has a limit above what the preflight asks for and `agent` counts
once at its end; three executions let two overlap and a third begin after one has
recorded, and two months let an execution straddle the turn; all three may be
`blind`.

In `parts` each bound is the smallest at which the part's hazards happen, which its
mutants show: four acts (one that times out, one refused, one after it settled, one
more); time up to 2 with windows of 1 and 2; two jobs and four messages (each job's
message sent again once); two manuals and two jobs on them; four fields of two kinds
in three viewports (two overlaps, the least for a collision); a text, a list and a
checkbox over two levels of `fillPage()` with three LLM calls; two sections, a
conditional field and one whose fingerprint shifts, costs up to two per action or click
and a budget of two; a cookbook page of
eight actions (where the ratios 3/4 and 3/10 tell apart); two to four pages and up to
two jobs for the handlers and the engine; three polls of a page (one to see it
changed, one to see it stable, one that fails between) with screens that keep, lose
and bring fields and buttons; two processes with one id or two; two deployments and a
death of the server; two calls of the client and two updates; three attempts per
callback for the code's four. Counters of the code that only end a loop (same pages,
attempts per layer, passes, scroll rounds) are one or two: one that is counted and one
that ends it.

Symmetry is used only in runs of safety properties where all jobs have the same
affinity. Deadlock is not checked for `JobQueue`, `Executor` and `MCParts`: a system
whose jobs are finished and whose disturbances are used up may stop. It is for
`CostControl`, where a usage request is always possible.

## 5. Fairness and liveness

`FairSpec` of `JobQueue` assumes weak fairness (but for one) of: the steps of a living
worker (start, recovery, poll, claim, the steps of `stop()` once called, which its
thirty seconds guarantee, and each phase of `execute()` up to the handler and after
it), the answers of PostgreSQL, the heartbeat interval, the timeout of a human wait,
the steps of a resume call already begun, and the passing of 120 seconds for a row
nobody beats. The code justifies them: polling and heartbeats are intervals,
statements are awaited with no condition, the human wait has a timer, and a dead
container is started again by its supervisor. Nothing is assumed of users, of
deployments, of crashes, or of how long a handler works; `SlotIsFreed` states the
handler's own timeout (`createTimeout()`) as its premise. The one strong fairness is
that of the pickup's statement: it is sent every five seconds, and of so many
PostgreSQL refuses not all for ever. A release is sent, but may
fail.

`CancelReachesExecutor` holds because the heartbeat reads the status of the row
it refreshes; it does not say that the job then stays cancelled, which is
false. `SlotIsFreed` has an exception that is in the code: a job parked for the
user's review keeps its worker for good. `QueuedIsServed` includes rows left by
a crashed worker: since a claim takes `queued` rows too, whatever their owner, a
worker that is up and free takes them.

`Executor` assumes weak fairness of the execution's own thread, whose handler has a
timeout, and of each un-awaited call, whose wait has one; not of a wait for a client of
an exhausted pool, which goes on until one is given back. `ExecutionEnds` and `AskEnds`
have one exception: a client of the pool is lost where an UNLISTEN fails.

`MCParts` assumes weak fairness of the code of a handler, of `fillPage()`, of the v3
engine's loop, of its field and of its polls (each is one thread that awaits
nothing but calls with time-outs; `ThreadStep`), of pg-boss's handlers, and of each
actor by itself (`ActorStep`): each deployment, each callback (timers end its
attempts and its delays), each call of the client, each process's heartbeat and the
clock. Nothing is assumed of sites, users, the
LLM's answers, other processes or VALET. `PartsEnd` is then what ends the loops: page
limits, same-page limits, depth, attempts, polls and back-off.

## 6. Proofs

Eight modules hold theorems; `tlapm` checks each to its last leaf, for every value
of the constants. All safety properties and action properties that passing runs
check are proved, and the refinement.

| Module | Extends | Proves |
|---|---|---|
| `Sums` | the library | what `SumFunction` of a finite function is |
| `JobQueueProofs` | `JobQueue` | its invariants, `FinishedStaysFinished`, the refinement of `WorkerSlots` |
| `ExecutorProofs` | `Executor` | its four invariants |
| `CostControlProofs` | `CostControl` | its five invariants |
| `WorkerProofs` | mutex, consumer, registry, task handlers | the invariants and action properties of each |
| `EngineProofs` | the v3 engine, manuals, trace | the same |
| `ServiceProofs` | rate limits, progress, callbacks, client, deploys | the same |
| `PartsProofs` | `MCParts` and the three above | every safety and action property of the run `parts` |

**Assumptions.** Each is an ASSUME of the module it is about, and TLC evaluates it in
every run. Most say that a bound is a natural number, or at least one, or that a null
value is not an id. These say more:

* `CostAssumption`: workers are finitely many, every kind of job is asked for something
  at the preflight (one that asks for nothing would be admitted over budget), and
  `Ceiling` is at least what `MostCounted` says an execution can count;
* `OrchAssumption`: costs have a bound (any natural number), and a page's fields are
  finitely many (which `RunsOut` needs);
* `ManualAssumption`: the penalties are smaller than full health and the severe one is
  not the smaller of the two; engines are finitely many;
* `RateAssumption`: the hourly window is not longer than the daily one;
* `ScreensAssumption`, `FillAssumption`: screens have finitely many fields, fields a kind;
* `ProgressAssumption`: handlers do not set the steps `completed` and `failed`;
* `DeployAssumption`: the ids of deploys are not the names used for no deploy.

### The queue

* `TypeCorrect`: `TypeOK` is inductive.
* `SlotsAlwaysAgree`, `OneTask`: `OneTaskPerWorker` is not inductive, since nothing
  in it says that the counter `active` reflects an execution. `SlotsAgree` adds that
  `active` is one exactly when `current` names an attempt, that every live
  execution is the current one of its worker, and that a pickup in flight leaves
  the slot free and the worker before the end of its UNLISTEN. It is inductive
  with `TypeOK`, and implies `OneTaskPerWorker`.
* `NothingLeft`, `PendingUnowned`: `ClaimsAgree` is the two invariants with
  `NewIsUnowned` (a row not yet submitted has no owner, which `Submit` needs).
  The release uses `SlotsAgree`: a stopped worker has no pickup in flight. A worker
  whose release failed is `unreleased` and is not spoken of.
* `FinishedAlone`: each action either leaves a finished row, or is the API's
  retry, or belongs to an execution, a human wait, a resume call or a recovery
  that holds the job; the invariants give the job of an execution.
* `QueueImplementsSlots`: every step of `JobQueue` is a step of `WorkerSlots` or a
  stutter. `PickupClaim` is `Take`, `Close` is `Finish`, `Unlistened` is `Shut`,
  `Start` and `Die` are `Boot` and `Exit`; the mapping of the rest does not change.

### The executor

`IInv` is inductive. To `BrowserIsOwned`, `PoolBalances` and the types it adds what a
phase of `execute()` knows: an execution that is under way has a job, and no adapter
before it starts one (`Working`); the pooled client of the cancel channel is in hand
from the LISTEN to the `finally` (`ClientInHand`); until the adapter starts, no
browser runs (`NoBrowserYet`); and what ended executions leave is final, while the one
at work has recorded and reported nothing before its end (`Accounts`).
`EndsAreAccounted` follows. Browsers that a failed start or stop has left are counted
in `leaks`, and `BrowserIsOwned` says that no other runs without its execution. The
balance of the pool counts clients free, in hand, held by calls for a human, and lost
by a failed UNLISTEN; each action moves one of them from one place to another, which
is where `FiniteSetTheorems` is needed.

### Costs

`CostTypes`, `CostsCapped`, `UsageBounded`, `RoomLeft`: the bound on `usage` is not
inductive, because the preflight reserves nothing. `RoomIsLeft` strengthens it: the
usage of a month plus one ceiling for every execution that may still add to it
without another look at the row (`MayReach`) stays within the bound. An admission
adds a worker to that set while the budget still has room; a recording removes one and
adds at most a ceiling; a turn of the month moves executions only to a month whose
usage is zero; an upsert of zero only makes room. A preflight that neither read nor
wrote the row admits a worker without regard to room: it raises `blind`, and with it the
bound by one ceiling (`BoundAt` and what follows it).

`RecordedOnce` is about two sums, of the rows and of what executions have counted and
not recorded. Each step changes one row and one execution at most, so it is enough to
know what a sum does when the function changes at one point (`SumsDiffer`).
`SumFunction` of the library is a recursive function over subsets. An induction over
sets by the library's induction theorems is not available (their parameter is an
operator); `Sums` takes a counterexample with the least number of elements instead
(`LeastNatural`, from `WFMin`, whose parameters are sets), for the existence of the
recursive function too (`SumsExist`).

### The worker around the executor

* **ActMutex**: `OneHandOnThePage` needs to know which call may still run: `AInv` adds
  that only the pending act does (`PendingIsKnown`), that nothing is pending on a mutex
  that looks open (`OpenIsFree`), and what each place of the caller knows of the mutex
  (`CallerKnows`).
* **PgBossConsumer**: that a waiting row has a message is not inductive over messages
  that are copied, taken and put back. `BInv` numbers them: messages are sent in order
  (`SentInOrder`), of each job at most one is on its way (`OneOnItsWay`), a waiting
  row has one (`WaitingHasOne`), and one that executes has its row taken
  (`ExecutingIsTaken`).
* **WorkerRegistry**: `ToldToStop` is inductive with `ToldInTime` (who is told before it
  runs is told while starting); `LeavesTheList` with `LeftIsSilent` (who has
  deregistered was up, and beats no more) and `StaysOffline` (a row is offline from its
  deregistration on).

### Handlers

* **SmartApply**: the action that `DetectPage` chose is still taken on the page it was
  chosen for (`ActsOnWhatItSaw`); then a submission is by one of the four mistakes.
  **WorkdayApply**: a handler is at work only on a page that was looked at, or that
  came up with an error, or late (`WInv`). **WorkdaySite**: the skill at hand is one
  of the profile's (`AtASkill`).
* **SignIn**: an account that the handler made has one of the passwords it makes
  accounts with (`MadeByHandler`), and the second password is tried only after the
  first was refused, and seen to be (`PlainWasRefused`); every refusal, seen or not, is then
  one of the exceptions (`Excused`).
* **FillPage**: the count of `LlmBounded` is shared by all levels of recursion. `FInv`
  counts them: each level has spent at most one act without looking at the limit before
  its DOM pass and one after its walk (`Unchecked`), all others counted in `fill.llm`
  (`ActsAreCounted`), which itself stays near the limit (`LlmOfLevel`). `TextStays` is
  an action property: only the branches for lists write where something is.
* **FieldScan**: until two viewports overlap the running number is beyond every number
  given, unless test marks repeat, and in the first that overlaps it still begins
  beyond them (`NumbersRun`); what was collected is known by its selector
  (`Collected`). `CollidesOnlyLate` follows.
* **ScanFill**: what is tried again was read as open and has its value still
  (`FilledInv`); a value that counts as one (`Kept`) is not read as none.

### Engines

* **SectionOrchestrator**: `OrchInv` says, for each place of the loop, how much may be
  overdrawn (`BudgetLasts`), that a planned field is of the section or known by then
  (`PlannedIsOwn`), and that a field has at most one try in its own section and one
  where it was found new (`TriesAreCounted`), or, if its fingerprint shifts, one in each
  round of discovery so far (`TurnsAreCounted`).
  `RunsOut` is the half of its termination that can be proved: `StepsLeft` counts down
  over pages, sections, rounds of discovery and planned fields (`MeasureCounts`,
  `MeasureByPlace`), so that no run is longer than it says at the start, whatever
  site. That the loop goes on until then is left to `PartsEnd`.
* **CookbookV3**: every action succeeds, fails or is skipped, once (`ActionsAddUp`).
  **V3Field**: what was read decides what becomes of the field (`ReadDecides`), and the
  layers below the present one have cost no more than their tries (`CostOfLayers`).
* **PageTurn**: the fingerprint and the count that a poll leaves behind are what the
  next one judges by: `PollsAgree` ties them to what the poll before has read, and
  with that a turn that is told follows from two readings, not one, or from a document
  replaced under a poll (`TurnsAreReal`), and two readings of another page suffice
  (`TurnsAreNoticed`).
* **Manuals**: `HealthIsEarned` must hold of the rows that engines have read, too, since
  they write back what they computed from these. `ManualInv` says of every such copy
  that the outcomes already told account for it (`IsEarned`), and counts the engines
  that have an outcome and have not told it.
* **Trace**: a lookup under way is for a click or scroll that is not recorded yet, and no
  two are for the same (`LookupsAreOpen`).

### Services

* **RateLimit**: a window's bound is about the requests that passed, the code's about the
  entries of its store. The model numbers the entries (time stamps may be equal);
  what passed is numbered (`PassedAreNumbered`), the store has no others
  (`KeptIsPassed`) and has every one still in its window (`InWindowIsKept`), but for
  those that a platform's refusal popped in error (`slipped`).
* **Progress**: the end of the progress is the executor's doing (`EndIsTheExecutors`), is
  written or on its way (`EndIsOnItsWay`), and what was said last goes last into the
  stream (`StreamKeepsUp`). **Callbacks**: where reports do not overlap all but the last
  are acknowledged and have no request left that could arrive late (`CallbackInv`), since
  every request sent has arrived, may still arrive, or is the one awaited (`Sendings`).
* **JobClient**: channels are waits' (`ChannelIsAWaits`, `RegisteredWaits`), and who joined
  in time has the end of the job last in its feed (`EndIsToCome`).
* **Deploy**: what a deploy tells of its end needs the whole way there. Until it starts
  containers, whatever there is it has still to remove (`Clears`); then there is what
  it has started, up to where it is, and nothing else (`StartsWithFirst`, `Builds`), and
  no worker drains (`Refreshed`). Who listens runs (`ListenersRun`); until two deploys have
  met, the one at work has `currentDeploy` to itself (`OneAtWork`).

### Side by side

A step of `MCParts` is a step of one part and leaves the other parts' variables alone
(`PartsGoOn`); so each part's inductive invariant is kept. For the parts whose
own specification states fairness this uses their start and step lemmas, not their
theorems: nothing of `PartsProofs` depends on fairness.

**Only model-checked:** the liveness properties `CancelReachesExecutor`, `SlotIsFreed`,
`QueuedIsServed`, `ExecutionEnds`, `AskEnds` and `PartsEnd`: fairness and ENABLED are out of
the prover's reach. The violated properties of section 7 are refuted by TLC's traces.

## 7. What the code does not do as it says

Each is a run that TLC must find violated; the trace is the explanation.

1. `jobqueue_sharing`. PICKUP_SQL takes rows that are `queued`, also those another
   worker has just claimed, and the attempt stamp does not refuse: two workers run
   one job, against "Multiple workers calling concurrently never pick the same
   job" (`docs/CURRENT-STATE.md:268`).
2. `jobqueue_cancel`. A cancellation stops the browser; `execute()` takes this for a
   browser crash first, starts a new one and writes `running` over `cancelled`.
3. `jobqueue_crash`. Recovery runs only at a worker's start and only for old
   heartbeats; a worker that is back within two minutes never recovers its job.
4. `jobqueue_routing`. A `preferred` job is never taken by another worker, against
   the "fallback to any" of the integration contract.
5. `cost_reset`. The upsert that creates a missing usage row overwrites one that has
   appeared since, or that could not be read: the month's usage goes to zero.
6. `cost_twice`. An agent run over its budget is counted, refused, and counted again
   in the catch block of the same function.
7. `executor_human`. A human who answers between the write of `paused`
   (`JobExecutor.ts:1516`) and LISTEN (line 1648) is told that the job resumed, and
   the worker waits until its timeout fails the job; and an execution that goes on
   after 20 seconds of the initial check writes its status over `paused` (line 768),
   so that the human is refused (`valet.ts:213`) while the worker waits.

Smaller disagreements of code and comments are told with their module in section 3.

## 8. Not modelled

* `sessions/SessionManager.ts`: encryption and upserts; `expires_at` is looked at and
  written by nothing.
* `detection/BlockerDetector.ts` and `connectors/*`: patterns on pages; the models take
  the verdict as a choice.
* `security/domainLockdown.ts`, `security/sanitize.ts`: filters without state.
* `monitoring/*`, `events/*`, `db/*`, the other scripts: they read or create what the
  others write.
* In modelled components: how a locator is resolved and a page observed (`engine/`);
  how fields are grouped into sections and the rounds of `PageScanner`; starting a
  browser, `observe()` and `extract()` of the adapters; loading of resume and
  credentials by the executor; the API mode, lists and the subscriptions to
  progress of the client; batch creation; EC2 metadata, the HTTP status server and
  the lifecycle call to the ASG.
* Code that nothing calls: `fillDropdownsProgrammatically()`,
  `fillTextFieldsProgrammatically()` and what only they use in
  `workday/domFillers.ts`; `engine/v3/GenericPlatformConfig.ts`,
  `v3/StagehandCompat.ts` and `v3/StagehandAdapter.ts`, copies of files elsewhere.
* VALET, PostgreSQL, Supabase, pg-boss, Redis, Docker, the application sites and the
  LLM providers are external: they appear as the answers they may give.
