------------------------------ MODULE Executor ------------------------------
(***************************************************************************)
(* One JobExecutor (workers/JobExecutor.ts) working through its executions *)
(* one after the other, with what outlives or interleaves with an          *)
(* execution: the heartbeat's answers, the calls for human help that are   *)
(* not awaited, the browser, the cancel channel and the pool of PostgreSQL *)
(* clients these share (workers/main.ts).                                  *)
(*                                                                         *)
(* JobQueue has the same executions as seen by the rows of all workers;    *)
(* here one worker is opened up and the rest of the queue is left out.  An *)
(* execution stands for one call of execute(); it has the row of its job.  *)
(***************************************************************************)
EXTENDS Naturals, FiniteSets

CONSTANTS
  Executions,     (* bound: executions 1..Executions                        *)
  MaxRecoveries,  (* MAX_CRASH_RECOVERIES                                   *)
  MaxRechecks,    (* MAX_POST_RESUME_CHECKS                                 *)
  MaxAsks,        (* bound: checks that find a blocker, in an execution     *)
  Clients,        (* max of the pgPool                                      *)
  WritesMayFail   (* the Supabase client may drop a write and say nothing   *)

ASSUME ExecutorAssumption ==
  /\ Executions \in Nat /\ MaxRecoveries \in Nat /\ MaxRechecks \in Nat
  /\ MaxAsks \in Nat /\ Clients \in Nat

VARIABLES
  x,          (* the execution at work: number, phase and local variables   *)
  cancelled,  (* JobExecutor._cancelled                                     *)
  active,     (* JobExecutor._activeAdapter                                 *)
  alive,      (* the adapters that reach a running browser                  *)
  leaks,      (* history: adapters a start() or stop() of which has failed,  *)
              (* in a way that may leave the browser running                *)
  free,       (* clients of the pool that nobody holds                      *)
  calls,      (* checkForBlockers() and requestHumanIntervention() calls    *)
  row,        (* status in gh_automation_jobs                               *)
  out,        (* what an execution has recorded and reported                *)
  beat        (* the answer of a heartbeat that is on its way; bound: one   *)

vars == <<x, cancelled, active, alive, leaks, free, calls, row, out, beat>>

Execs == 1..Executions
None == <<0, 0>>
Adapters == Execs \X (0..MaxRecoveries)
Calls == Execs \X (1..MaxAsks)

Idle == [n |-> 0, pc |-> "idle", adapter |-> None, recoveries |-> 0,
         client |-> FALSE, stamped |-> FALSE, wired |-> FALSE, asks |-> 0]
NoBeat == [of |-> 0, says |-> "nothing"]
NoCall == [pc |-> "off", by |-> "none", adapter |-> None, checks |-> 0]

Goto(pc) == x' = [x EXCEPT !.pc = pc]
Write(m, s) ==
  \/ row' = [row EXCEPT ![m] = s]
  \/ WritesMayFail /\ UNCHANGED row
Report(s) == out' = [out EXCEPT ![x.n].told = @ \cup {s}]
Settle(s) ==
  out' = [out EXCEPT ![x.n] = [cost |-> @.cost + 1, told |-> @.told \cup s]]

\* The interval is cleared, and _executionAttemptId null, from the finally on.
Beating == x.pc \notin {"idle", "stopping"}
Attempt == IF Beating THEN x.n ELSE 0
\* pgPool.query() takes a client and gives it back at once.
PoolServes == free > 0

WaitingForHuman(c) == calls[c].pc \in {"listening", "polling"}
Over == {"off", "clear", "blocked", "thrown"}
\* The calls execute() itself awaits.
Awaited(by) == {c \in Calls : c[1] = x.n /\ calls[c].by = by}

browserVars == <<active, alive, leaks>>

\* adapter.stop(), awaited and its failure swallowed: the agent it could not stop
\* is kept.  started and left: what a start() beside it brings up or leaves.
StopOf(a, started, left) ==
  \E kept \in SUBSET ({a} \cap alive) :
    /\ alive' = (alive \ ({a} \ kept)) \cup started
    /\ leaks' = leaks \cup kept \cup left

-----------------------------------------------------------------------------
(* execute(), up to the handler.                                           *)

\* asks, a bound: how many checks will find a blocker.
Begin ==
  /\ x.pc = "idle" /\ x.n < Executions /\ row[x.n + 1] = "queued"
  /\ \E k \in 0..MaxAsks :
       x' = [Idle EXCEPT !.n = x.n + 1, !.pc = "stamp", !.asks = k]
  /\ cancelled' = FALSE
  /\ active' = None
  /\ UNCHANGED <<alive, leaks, free, calls, row, out, beat>>

Stamp ==
  /\ x.pc = "stamp" /\ PoolServes
  /\ \/ x' = [x EXCEPT !.pc = "listen", !.stamped = TRUE]
     \/ Goto("caught")
  /\ UNCHANGED <<cancelled, browserVars, free, calls, row, out, beat>>

\* A failure is logged; the client, if there is one, is given back.
ListenForCancel ==
  /\ x.pc = "listen" /\ PoolServes
  /\ \/ /\ x' = [x EXCEPT !.pc = "preflight", !.client = TRUE]
        /\ free' = free - 1
     \/ Goto("preflight") /\ UNCHANGED free
  /\ UNCHANGED <<cancelled, browserVars, calls, row, out, beat>>

\* Refused by the budget preflight, or by the handler's validate().
Reject ==
  /\ x.pc \in {"preflight", "validate"}
  /\ Write(x.n, "failed")
  /\ Report("rejected")
  /\ Goto("closing")
  /\ UNCHANGED <<cancelled, browserVars, free, calls, beat>>

Run ==
  /\ x.pc = "preflight"
  /\ Write(x.n, "running")
  /\ Goto("validate")
  /\ UNCHANGED <<cancelled, browserVars, free, calls, out, beat>>

\* _activeAdapter is set before start(): a stop() until then stops nothing.
CreateAdapter ==
  /\ x.pc = "validate"
  /\ x' = [x EXCEPT !.pc = "starting", !.adapter = <<x.n, 0>>]
  /\ active' = x'.adapter
  /\ UNCHANGED <<cancelled, alive, leaks, free, calls, row, out, beat>>

\* A start that fails may leave a browser that no agent was made for.
StartAdapter ==
  /\ x.pc = "starting"
  /\ \/ /\ alive' = alive \cup {x.adapter} /\ UNCHANGED leaks
        /\ \E pc \in {"initial", "cookbook"} : Goto(pc)
     \/ /\ \E left \in SUBSET {x.adapter} : leaks' = leaks \cup left
        /\ Goto("caught") /\ UNCHANGED alive
  /\ UNCHANGED <<cancelled, active, free, calls, row, out, beat>>

\* Workday only: blockers are looked for before the work, for 20 s at most.
InitialCheckClear ==
  /\ x.pc = "initial"
  /\ Goto("cookbook")
  /\ UNCHANGED <<cancelled, browserVars, free, calls, row, out, beat>>

\* A check that throws counts as clear.
InitialCheckEnds ==
  /\ x.pc = "checking"
  /\ \E c \in Awaited("initial") :
       \/ calls[c].pc \in {"clear", "thrown"} /\ Goto("cookbook")
       \/ calls[c].pc = "blocked" /\ Goto("caught")
  /\ UNCHANGED <<cancelled, browserVars, free, calls, row, out, beat>>

\* The race is lost, the check goes on by itself.
InitialCheckTimesOut ==
  /\ x.pc = "checking"
  /\ Goto("cookbook")
  /\ UNCHANGED <<cancelled, browserVars, free, calls, row, out, beat>>

Replay ==
  /\ x.pc = "cookbook"
  /\ Goto("replayed")
  /\ UNCHANGED <<cancelled, browserVars, free, calls, row, out, beat>>

\* From here on the adapter's events and the interval look for blockers.
FallBack ==
  /\ x.pc = "cookbook"
  /\ Write(x.n, "running")
  /\ x' = [x EXCEPT !.pc = "handler", !.wired = TRUE]
  /\ UNCHANGED <<cancelled, browserVars, free, calls, out, beat>>

-----------------------------------------------------------------------------
(* The handler, and how it ends.                                           *)

\* With success, or with keepBrowserOpen whatever the success.
HandlerReturns ==
  /\ x.pc = "handler"
  /\ Goto("saving")
  /\ UNCHANGED <<cancelled, browserVars, free, calls, row, out, beat>>

\* An error, a failure, or timeout_seconds; a dead browser makes it a crash.
HandlerThrows ==
  /\ x.pc = "handler"
  /\ x.adapter \in alive \/ x.recoveries = MaxRecoveries
  /\ Goto("caught")
  /\ UNCHANGED <<cancelled, browserVars, free, calls, row, out, beat>>

HandlerCrashes ==
  /\ x.pc = "handler" /\ x.recoveries < MaxRecoveries
  /\ x' = [x EXCEPT !.pc = "recovering", !.recoveries = @ + 1]
  /\ UNCHANGED <<cancelled, browserVars, free, calls, row, out, beat>>

\* Mutant: the browser that is replaced is not stopped.
RecoverBeside ==
  /\ x.pc = "recovering"
  /\ LET new == <<x.n, x.recoveries>> IN
       /\ x' = [x EXCEPT !.pc = "handler", !.adapter = new]
       /\ alive' = alive \cup {new}
  /\ Write(x.n, "running")
  /\ UNCHANGED <<cancelled, active, leaks, free, calls, out, beat>>

\* The old browser is stopped; _activeAdapter stays the old one.
Recover ==
  /\ x.pc = "recovering"
  /\ LET new == <<x.n, x.recoveries>> IN
       /\ x' = [x EXCEPT !.pc = "handler", !.adapter = new]
       /\ StopOf(x.adapter, {new}, {})
  /\ Write(x.n, "running")
  /\ UNCHANGED <<cancelled, active, free, calls, out, beat>>

RecoveryFails ==
  /\ x.pc = "recovering"
  /\ \E left \in SUBSET {<<x.n, x.recoveries>>} : StopOf(x.adapter, {}, left)
  /\ Goto("caught")
  /\ UNCHANGED <<cancelled, active, free, calls, row, out, beat>>

Complete ==
  /\ x.pc \in {"replayed", "saving"}
  /\ Write(x.n, "completed")
  /\ Settle({"completed"})
  /\ Goto("closing")
  /\ UNCHANGED <<cancelled, browserVars, free, calls, beat>>

\* The promise that never resolves: the browser stays open for the user.  What
\* is stored before it (final mode, screenshot, sessions) decides nothing here.
AwaitUserReview ==
  /\ x.pc = "saving"
  /\ Write(x.n, "awaiting_user_review")
  /\ Settle({})
  /\ Goto("review")
  /\ UNCHANGED <<cancelled, browserVars, free, calls, beat>>

-----------------------------------------------------------------------------
(* The catch and the finally of execute().                                 *)

CaughtCancelled ==
  /\ x.pc = "caught" /\ cancelled
  /\ Settle({"cancelled"})
  /\ Goto("closing")
  /\ UNCHANGED <<cancelled, browserVars, free, calls, row, beat>>

CaughtError ==
  /\ x.pc = "caught" /\ ~cancelled
  /\ \/ Goto("failing")
     \/ x.adapter # None /\ Goto("rechecking")   \* captcha, 2fa or login
  /\ UNCHANGED <<cancelled, browserVars, free, calls, row, out, beat>>

\* Blocked as checkForBlockers() or the human's time left it, or an exception.
CatchGivesUp ==
  /\ x.pc = "catching"
  /\ \E c \in Awaited("catch") \cup Awaited("direct") :
       calls[c].pc \in {"blocked", "thrown"}
  /\ Goto("failing")
  /\ UNCHANGED <<cancelled, browserVars, free, calls, row, out, beat>>

\* The human has answered the direct request: the catch returns.
CatchResumed ==
  /\ x.pc = "catching"
  /\ \E c \in Awaited("direct") : calls[c].pc = "clear"
  /\ Settle({})
  /\ Goto("closing")
  /\ UNCHANGED <<cancelled, browserVars, free, calls, row, beat>>

\* Mutant: the cost of a failed execution is not recorded.
HandleJobErrorUnpaid ==
  /\ x.pc = "failing"
  /\ \E s \in {"pending", "failed"} : Write(x.n, s)
  /\ Report("failed")
  /\ Goto("closing")
  /\ UNCHANGED <<cancelled, browserVars, free, calls, beat>>

HandleJobError ==
  /\ x.pc = "failing"
  /\ \E s \in {"pending", "failed"} : Write(x.n, s)
  /\ Settle({"failed"})
  /\ Goto("closing")
  /\ UNCHANGED <<cancelled, browserVars, free, calls, beat>>

\* UNLISTEN and release() share a try: if UNLISTEN fails the client is lost.
Close ==
  /\ x.pc = "closing"
  /\ active' = None
  /\ x' = [x EXCEPT !.pc = "stopping", !.client = FALSE]
  /\ \/ x.client /\ free' = free + 1
     \/ UNCHANGED free
  /\ UNCHANGED <<cancelled, alive, leaks, calls, row, out, beat>>

StopAdapter ==
  /\ x.pc = "stopping"
  /\ StopOf(x.adapter, {}, {})
  /\ Goto("idle")
  /\ UNCHANGED <<cancelled, active, free, calls, row, out, beat>>

-----------------------------------------------------------------------------
(* Blockers and humans.                                                    *)

Detect(c, by) ==
  /\ calls[c].pc = "off" /\ c[1] = x.n /\ c[2] <= x.asks
  /\ \A k \in 1..(c[2] - 1) : calls[<<x.n, k>>].pc # "off"
  /\ x.adapter \in alive
  /\ calls' = [calls EXCEPT ![c] =
       [pc |-> "found", by |-> by, adapter |-> x.adapter, checks |-> 0]]
  /\ UNCHANGED <<cancelled, browserVars, free, row, out, beat>>

InitialCheckFinds(c) ==
  /\ x.pc = "initial" /\ Detect(c, "initial") /\ Goto("checking")

\* From the interval, until the finally, and the adapter's events, until it stops
\* (an act may outlive the handler); nobody awaits it.
BackgroundCheckFinds(c) ==
  /\ x.wired /\ Detect(c, "background") /\ UNCHANGED x

CatchCheckFinds(c) ==
  /\ x.pc = "rechecking" /\ Detect(c, "catch") /\ Goto("catching")

\* No blocker is found (any more): the error itself is reason enough to ask.
CatchAsks(c) ==
  /\ \/ x.pc = "rechecking"
     \/ x.pc = "catching" /\ \E d \in Awaited("catch") : calls[d].pc = "clear"
  /\ \A d \in Awaited("direct") : FALSE
  /\ Detect(c, "direct") /\ Goto("catching")

\* getCurrentUrl() throws on an adapter that was stopped: no human is asked.
CatchCannotAsk ==
  /\ \/ x.pc = "rechecking"
     \/ x.pc = "catching" /\ \E d \in Awaited("catch") : calls[d].pc = "clear"
  /\ x.adapter \notin alive \/ \A k \in 1..x.asks : calls[<<x.n, k>>].pc # "off"
  /\ \A d \in Awaited("direct") : FALSE
  /\ Goto("failing")
  /\ UNCHANGED <<cancelled, browserVars, free, calls, row, out, beat>>

CallTo(c, pc) == calls' = [calls EXCEPT ![c].pc = pc]
\* Nobody looks at the result of a background check.
CallEnds(c, pc) ==
  IF calls[c].by = "background"
    THEN calls' = [calls EXCEPT ![c] = [NoCall EXCEPT !.pc = "thrown"]]
    ELSE CallTo(c, pc)

\* The row is paused before the channel is listened on.
AskHuman(c) ==
  /\ calls[c].pc = "found" /\ calls[c].adapter \in alive
  /\ Write(c[1], "paused")
  /\ CallTo(c, "connect")
  /\ UNCHANGED <<x, cancelled, browserVars, free, out, beat>>

AskFails(c) ==
  /\ calls[c].pc = "found" /\ calls[c].adapter \notin alive
  /\ CallEnds(c, "thrown")
  /\ UNCHANGED <<x, cancelled, browserVars, free, row, out, beat>>

\* LISTEN may fail (the client is released, polling instead), or connect(); on an
\* exhausted pool connect() waits, without a timeout.
WaitForResume(c) ==
  /\ calls[c].pc = "connect"
  /\ \/ PoolServes /\ free' = free - 1 /\ CallTo(c, "listening")
     \/ PoolServes /\ CallTo(c, "polling") /\ UNCHANGED free
     \/ PoolServes /\ CallEnds(c, "thrown") /\ UNCHANGED free
  /\ UNCHANGED <<x, cancelled, browserVars, row, out, beat>>

\* Mutant: a call that polls releases a client it does not have.
HumanAnswersAll(m) ==
  LET heard == {c \in Calls : c[1] = m /\ WaitingForHuman(c)} IN
  /\ row[m] = "paused"
  /\ row' = [row EXCEPT ![m] = "running"]
  /\ calls' = [c \in Calls |->
       IF c \in heard THEN [calls[c] EXCEPT !.pc = "answered"] ELSE calls[c]]
  /\ free' = free + Cardinality(heard)
  /\ UNCHANGED <<x, cancelled, browserVars, out, beat>>

\* POST /valet/resume, from the check of 'paused' to the write of 'running':
\* every call that listens for the job hears it and releases its client.
HumanAnswers(m) ==
  LET heard == {c \in Calls : c[1] = m /\ calls[c].pc = "listening"} IN
  /\ row[m] = "paused"
  /\ row' = [row EXCEPT ![m] = "running"]
  /\ calls' = [c \in Calls |->
       IF c \in heard THEN [calls[c] EXCEPT !.pc = "answered"] ELSE calls[c]]
  /\ free' = free + Cardinality(heard)
  /\ UNCHANGED <<x, cancelled, browserVars, out, beat>>

PollSeesRunning(c) ==
  /\ calls[c].pc = "polling" /\ row[c[1]] = "running"
  /\ CallTo(c, "answered")
  /\ UNCHANGED <<x, cancelled, browserVars, free, row, out, beat>>

\* Mutant: the client is kept when the human's time is up.
HumanTimeoutHolds(c) ==
  /\ WaitingForHuman(c)
  /\ Write(c[1], "failed")
  /\ CallEnds(c, "blocked")
  /\ UNCHANGED <<x, cancelled, browserVars, free, out, beat>>

\* Mutant: polling has no deadline.
HumanTimeoutListening(c) ==
  /\ calls[c].pc = "listening"
  /\ Write(c[1], "failed")
  /\ free' = free + 1
  /\ CallEnds(c, "blocked")
  /\ UNCHANGED <<x, cancelled, browserVars, out, beat>>

\* The adapter stays paused (its gate is not modelled).
HumanTimeout(c) ==
  /\ WaitingForHuman(c)
  /\ Write(c[1], "failed")
  /\ free' = free + (IF calls[c].pc = "listening" THEN 1 ELSE 0)
  /\ CallEnds(c, "blocked")
  /\ UNCHANGED <<x, cancelled, browserVars, out, beat>>

\* readAndClearResolutionData() needs a client again.
ReadResolution(c) ==
  /\ calls[c].pc = "answered" /\ PoolServes
  /\ CallTo(c, "resuming")
  /\ UNCHANGED <<x, cancelled, browserVars, free, row, out, beat>>

\* Codes and credentials are typed into the page, which must exist for that.
Resume(c) ==
  /\ calls[c].pc = "resuming"
  /\ \/ /\ Write(c[1], "running")
        /\ CallTo(c, IF calls[c].by = "direct" THEN "clear" ELSE "recheck")
     \/ calls[c].adapter \notin alive /\ CallEnds(c, "thrown") /\ UNCHANGED row
  /\ UNCHANGED <<x, cancelled, browserVars, free, out, beat>>

\* The blocker is looked for again, and the human asked again, up to a limit.
Recheck(c) ==
  LET tries == calls[c].checks + 1 IN
  /\ calls[c].pc = "recheck"
  /\ \/ CallEnds(c, "clear")
     \/ tries < MaxRechecks /\ calls' = [calls EXCEPT ![c].checks = tries, ![c].pc = "found"]
     \/ tries = MaxRechecks /\ CallEnds(c, "blocked")
  /\ UNCHANGED <<x, cancelled, browserVars, free, row, out, beat>>

-----------------------------------------------------------------------------
(* Cancellation, heartbeat, the browser.                                   *)

\* A stop() that fails here is repeated by the finally.
StopActive ==
  /\ cancelled' = TRUE
  /\ alive' \in {alive \ {active}, alive}

\* The API cancels; the NOTIFY reaches the executor if its channel is open.
Cancel(m) ==
  /\ row[m] \in {"pending", "queued", "running", "paused"}
  /\ row' = [row EXCEPT ![m] = "cancelled"]
  /\ \/ m = x.n /\ x.client /\ StopActive
     \/ UNCHANGED <<cancelled, alive>>
  /\ UNCHANGED <<x, active, leaks, free, calls, out, beat>>

\* An answer that changes nothing whenever it arrives is left out.
Heartbeat ==
  /\ Beating /\ beat = NoBeat
  /\ \/ row[x.n] = "cancelled" /\ beat' = [of |-> x.n, says |-> "cancelled"]
     \/ x.stamped /\ beat' = [of |-> x.n, says |-> "attempt"]
  /\ UNCHANGED <<x, cancelled, browserVars, free, calls, row, out>>

\* The answer is compared with the executor's fields as they are by then.
HeartbeatAnswered ==
  /\ beat # NoBeat
  /\ beat' = NoBeat
  /\ IF beat.says = "cancelled" \/ Attempt \notin {0, beat.of}
       THEN StopActive
       ELSE UNCHANGED <<cancelled, alive>>
  /\ UNCHANGED <<x, active, leaks, free, calls, row, out>>

BrowserDies(a) ==
  /\ a \in alive
  /\ alive' = alive \ {a}
  /\ UNCHANGED <<x, cancelled, active, leaks, free, calls, row, out, beat>>

-----------------------------------------------------------------------------
Init ==
  /\ x = Idle
  /\ cancelled = FALSE
  /\ active = None
  /\ alive = {} /\ leaks = {}
  /\ free = Clients
  /\ calls = [c \in Calls |-> NoCall]
  /\ row \in [Execs -> {"pending", "queued"}]     \* not yet claimed, or claimed
  /\ out = [m \in Execs |-> [cost |-> 0, told |-> {}]]
  /\ beat = NoBeat

Setup ==
  \/ Stamp \/ ListenForCancel \/ Reject \/ Run \/ CreateAdapter \/ StartAdapter
  \/ InitialCheckClear \/ InitialCheckEnds \/ InitialCheckTimesOut
  \/ Replay \/ FallBack

Handling == HandlerReturns \/ HandlerThrows \/ HandlerCrashes \/ Recover \/ RecoveryFails
Ending ==
  \/ Complete \/ AwaitUserReview
  \/ CaughtCancelled \/ CaughtError \/ CatchGivesUp \/ CatchResumed \/ CatchCannotAsk
  \/ HandleJobError \/ Close \/ StopAdapter

Finds(c) ==
  InitialCheckFinds(c) \/ BackgroundCheckFinds(c) \/ CatchCheckFinds(c) \/ CatchAsks(c)
CallStep(c) ==
  \/ AskHuman(c) \/ AskFails(c) \/ WaitForResume(c) \/ PollSeesRunning(c)
  \/ HumanTimeout(c) \/ ReadResolution(c) \/ Resume(c) \/ Recheck(c)

Routine ==
  \/ Begin \/ Setup \/ Handling \/ Ending \/ Heartbeat \/ HeartbeatAnswered
  \/ \E c \in Calls : Finds(c) \/ CallStep(c)
  \/ \E m \in Execs : HumanAnswers(m)

Disturbance ==
  \/ \E m \in Execs : Cancel(m)
  \/ \E a \in Adapters : BrowserDies(a)

Next == Routine \/ Disturbance

Spec == Init /\ [][Next]_vars

\* The event loop goes on, every wait of execute() has a timer (the handler's is
\* timeout_seconds, a human's five minutes), and so does each request for a human.
\* Nothing is assumed of users, browsers and blockers.
Fairness ==
  /\ WF_vars(Begin \/ Setup \/ Handling \/ Ending \/ \E c \in Calls : CatchAsks(c))
  /\ \A c \in Calls : WF_vars(CallStep(c))

FairSpec == Spec /\ Fairness

-----------------------------------------------------------------------------
Phases == {"idle", "stamp", "listen", "preflight", "validate", "starting",
  "initial", "checking", "cookbook", "replayed", "handler", "recovering", "saving",
  "review", "caught", "rechecking", "catching", "failing", "closing", "stopping"}
CallPhases == Over \cup {"found", "connect", "listening", "polling", "answered",
  "resuming", "recheck"}

Execution == [n : 0..Executions, pc : Phases, adapter : Adapters \cup {None},
              recoveries : 0..MaxRecoveries, client : BOOLEAN, stamped : BOOLEAN,
              wired : BOOLEAN, asks : 0..MaxAsks]
Call == [pc : CallPhases, by : {"none", "initial", "background", "catch", "direct"},
         adapter : Adapters \cup {None}, checks : 0..MaxRechecks]
Statuses == {"queued", "running", "paused", "completed", "failed",
             "pending", "cancelled", "awaiting_user_review"}
Outcome == [cost : Nat, told : SUBSET {"rejected", "completed", "cancelled", "failed"}]

\* Every variable has its type; a client of the pool is never given back twice.
TypeOK ==
  /\ x \in Execution
  /\ cancelled \in BOOLEAN
  /\ active \in Adapters \cup {None}
  /\ alive \subseteq Adapters /\ leaks \subseteq Adapters
  /\ free \in 0..Clients
  /\ calls \in [Calls -> Call]
  /\ row \in [Execs -> Statuses]
  /\ out \in [Execs -> Outcome]
  /\ beat \in [of : 0..Executions, says : {"nothing", "attempt", "cancelled"}]

\* A browser outlives its execution only where a start() or stop() of its own
\* adapter has failed: through crash recoveries, cancellations, late heartbeats and
\* stops of theirs that fail, nothing but the adapter execute() has in hand runs one.
BrowserIsOwned ==
  /\ alive \subseteq {x.adapter} \cup leaks
  /\ x.pc = "idle" => alive \subseteq leaks

Holders == {c \in Calls : calls[c].pc = "listening"}
Held == Cardinality(Holders) + (IF x.client THEN 1 ELSE 0)
Closed == IF x.pc \in {"idle", "stopping"} THEN x.n ELSE IF x.n = 0 THEN 0 ELSE x.n - 1
Lost == Clients - (free + Held)

\* The pool's clients are free or in somebody's hand: calls that outlive their
\* execution, time out or are answered give theirs back exactly once.  A client is
\* lost only with an UNLISTEN that fails, at most one per ended execution.
PoolBalances ==
  /\ free + Held <= Clients
  /\ Lost <= Closed

\* However an execution ends, its cost is recorded once (not at all if it was
\* refused before the work), and it reports one final status at most; it ends
\* without a report only where the catch returns after a human's answer, or it
\* stays open for review.
EndsAreAccounted ==
  \A m \in Execs :
    /\ out[m].cost <= 1
    /\ Cardinality(out[m].told) <= 1
    /\ out[m].told # {} => (out[m].cost = 0 <=> out[m].told = {"rejected"})
    /\ \/ m < x.n
       \/ m = x.n /\ x.pc \in {"closing", "stopping", "idle", "review"}
       => out[m].cost = 1 \/ out[m].told = {"rejected"}

\* Every execution ends or stays open for review, whatever handler, browser,
\* human and database do, as long as no client of the pool is lost.
ExecutionEnds ==
  x.pc # "idle" ~> (x.pc \in {"idle", "review"} \/ Lost > 0)

\* Every request for a human comes to an end, also when two wait at once and
\* share one client with the cancel channel.
AskEnds ==
  LET Asking == \E c \in Calls : calls[c].pc \notin Over IN
  Asking ~> (~Asking \/ Lost > 0)

\* While the worker waits for a human the row says 'paused', which is what VALET
\* sees and what POST /valet/resume asks for.
WaitingIsVisible ==
  \A c \in Calls : WaitingForHuman(c) => row[c[1]] = "paused"
=============================================================================
