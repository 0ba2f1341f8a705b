------------------------------ MODULE JobQueue ------------------------------
(***************************************************************************)
(* The job queue of GhostHands: the rows of gh_automation_jobs, the worker *)
(* processes that claim them (workers/JobPoller.ts, workers/main.ts), the  *)
(* executions those workers run (workers/JobExecutor.ts, seen here only as *)
(* far as it reads and writes the row) and the API calls that change a row *)
(* from outside (api/controllers/jobs.ts, api/routes/valet.ts).            *)
(*                                                                         *)
(* A row is a column-wise set of functions of the job.  Every SQL          *)
(* statement of the code is one atomic action; whatever the code does      *)
(* after an `await` is another one, so all interleavings of workers,       *)
(* heartbeats and API calls are behaviours.                                *)
(*                                                                         *)
(* Abstracted: priority, created_at and the retry backoff (they decide     *)
(* which eligible row is taken and when, never whether it may be taken);   *)
(* payload columns; the content of the work a handler does.                *)
(***************************************************************************)
EXTENDS Naturals, FiniteSets

CONSTANTS
  Workers,      (* worker ids: one process each                             *)
  Jobs,         (* rows of gh_automation_jobs                               *)
  Attempts,     (* execution attempt ids (UUIDs); reused once forgotten     *)
  NoWorker, NoJob, NoAttempt,   (* SQL NULL / JavaScript null               *)
  Affinity,     (* worker_affinity of each job                              *)
  Target,       (* target_worker_id of each job                             *)
  MaxRetries,   (* max_retries of a job                                     *)
  RetryCap      (* bound: API retries stop once retry_count is this high    *)

ASSUME ConstantsAssumption ==
  /\ NoWorker \notin Workers
  /\ NoJob \notin Jobs
  /\ NoAttempt \notin Attempts
  /\ Affinity \in [Jobs -> {"any", "preferred", "strict"}]
  /\ Target \in [Jobs -> Workers \cup {NoWorker}]
  /\ MaxRetries \in Nat
  /\ RetryCap \in Nat

VARIABLES
  \* the rows
  status, worker_id, execution_attempt_id, retry_count,
  last_heartbeat,  (* "null", "fresh", or "stale": older than 120 seconds   *)
  progressed,      (* the job has an event that recovery takes as progress  *)
  \* the worker processes
  proc,            (* the life of the process, and how far stop() has got   *)
  pickup,          (* tryPickup()'s query: idle, sent, or a claimed row     *)
  active,          (* JobPoller.activeJobs                                  *)
  cancelled,       (* JobExecutor._cancelled, shared by all its executions  *)
  current,         (* JobExecutor._executionAttemptId                       *)
  recovery,        (* recoverStuckJobs(): rows left, row in hand, its events*)
  \* the executions and what they leave behind
  exec,            (* the execution of each attempt id                      *)
  hitl,            (* requestHumanIntervention() of a worker for a job      *)
  resumeCall       (* POST /valet/resume: how far the call for a job is     *)

rowVars == <<status, worker_id, execution_attempt_id, retry_count,
             last_heartbeat, progressed>>
procVars == <<proc, pickup, active, cancelled, current, recovery>>
humanVars == <<hitl, resumeCall>>
vars == <<rowVars, procVars, exec, humanVars>>

-----------------------------------------------------------------------------
Statuses == {"none", "pending", "queued", "running", "paused", "completed",
             "failed", "cancelled", "awaiting_user_review"}
Terminal == {"completed", "failed", "cancelled"}
Claimable == {"pending", "queued"}
InHand == {"queued", "running"}        \* what release and recovery look at
Cancellable == {"pending", "queued", "running", "paused"}
Retryable == {"failed", "cancelled"}

Phases == {"none", "stamp", "preflight", "setup", "handler", "review",
           "error", "asking", "failing", "closing"}

MaxConcurrent == 1

NoPickup == [state |-> "idle", job |-> NoJob, retries |-> 0]
NoExec == [phase |-> "none", worker |-> NoWorker, job |-> NoJob, retries |-> 0]
NoRecovery == [todo |-> {}, job |-> NoJob, progress |-> FALSE]
NoHitl == [j \in Jobs |-> "no"]

Live(a) == exec[a].phase # "none"
Running(w) == proc[w] = "up"           \* JobPoller.running
Alive(w) == proc[w] # "down"

MayClaim(w, j) ==
  \/ Affinity[j] = "any"
  \/ Affinity[j] = "preferred" /\ Target[j] \in {NoWorker, w}
  \/ Affinity[j] = "strict" /\ Target[j] = w

\* Mutant: only 'pending' rows are picked up.
EligiblePendingOnly(w) == {j \in Jobs : status[j] = "pending" /\ MayClaim(w, j)}

Eligible(w) == {j \in Jobs : status[j] \in Claimable /\ MayClaim(w, j)}

Stuck == {j \in Jobs : status[j] \in InHand /\ last_heartbeat[j] = "stale"}

\* An id no execution and no row remembers stands for a new UUID.
Fresh(a) ==
  /\ ~Live(a)
  /\ \A j \in Jobs : execution_attempt_id[j] # a

Goto(a, phase) == exec' = [exec EXCEPT ![a].phase = phase]

-----------------------------------------------------------------------------
(* The API and VALET.                                                      *)

\* createJob() inserts 'pending'; VALET's own insert is 'queued', unclaimed.
Submit(j) ==
  /\ status[j] = "none"
  /\ \E s \in Claimable : status' = [status EXCEPT ![j] = s]
  /\ UNCHANGED <<worker_id, execution_attempt_id, retry_count, last_heartbeat,
                 progressed, procVars, exec, humanVars>>

Cancel(j) ==
  /\ status[j] \in Cancellable
  /\ status' = [status EXCEPT ![j] = "cancelled"]
  /\ UNCHANGED <<worker_id, execution_attempt_id, retry_count, last_heartbeat,
                 progressed, procVars, exec, humanVars>>

Retry(j) ==
  /\ status[j] \in Retryable
  /\ retry_count[j] < RetryCap
  /\ status' = [status EXCEPT ![j] = "pending"]
  /\ retry_count' = [retry_count EXCEPT ![j] = @ + 1]
  /\ worker_id' = [worker_id EXCEPT ![j] = NoWorker]
  /\ last_heartbeat' = [last_heartbeat EXCEPT ![j] = "null"]
  /\ UNCHANGED <<execution_attempt_id, progressed, procVars, exec, humanVars>>

\* POST /valet/resume reads 'paused', sends the NOTIFY, then writes 'running':
\* three statements, and the last one does not look at the row again.
ResumeCheck(j) ==
  /\ resumeCall[j] = "no"
  /\ status[j] = "paused"
  /\ resumeCall' = [resumeCall EXCEPT ![j] = "checked"]
  /\ UNCHANGED <<rowVars, procVars, exec, hitl>>

\* Reaches every worker waiting for this job whose LISTEN is already in place.
ResumeNotify(j) ==
  /\ resumeCall[j] = "checked"
  /\ resumeCall' = [resumeCall EXCEPT ![j] = "notified"]
  /\ \E listening \in SUBSET {w \in Workers : hitl[w][j] = "waiting"} :
       hitl' = [w \in Workers |->
                  IF w \in listening THEN [hitl[w] EXCEPT ![j] = "answered"]
                  ELSE hitl[w]]
  /\ UNCHANGED <<rowVars, procVars, exec>>

ResumeWrite(j) ==
  /\ resumeCall[j] = "notified"
  /\ resumeCall' = [resumeCall EXCEPT ![j] = "no"]
  /\ status' = [status EXCEPT ![j] = "running"]
  /\ UNCHANGED <<worker_id, execution_attempt_id, retry_count, last_heartbeat,
                 progressed, procVars, exec, hitl>>

\* POST /valet/workers/deregister with cancel_active_jobs.
Deregister(w) ==
  /\ status' = [j \in Jobs |->
                  IF worker_id[j] = w /\ status[j] \in InHand \cup {"paused"}
                  THEN "failed" ELSE status[j]]
  /\ UNCHANGED <<worker_id, execution_attempt_id, retry_count, last_heartbeat,
                 progressed, procVars, exec, humanVars>>

\* 120 seconds pass with no heartbeat reaching the row, whatever the reason.
HeartbeatLapses(j) ==
  /\ status[j] \in InHand
  /\ last_heartbeat[j] = "fresh"
  /\ last_heartbeat' = [last_heartbeat EXCEPT ![j] = "stale"]
  /\ UNCHANGED <<status, worker_id, execution_attempt_id, retry_count,
                 progressed, procVars, exec, humanVars>>

-----------------------------------------------------------------------------
(* The worker process: start, claim, stop, die.                            *)

\* start(): running = true, then recoverStuckJobs() reads the stuck rows.
Start(w) ==
  /\ proc[w] = "down"
  /\ proc' = [proc EXCEPT ![w] = "up"]
  /\ recovery' = [recovery EXCEPT ![w].todo = Stuck]
  /\ UNCHANGED <<rowVars, pickup, active, cancelled, current, exec, humanVars>>

RecoverCount(w) ==
  /\ recovery[w].job = NoJob
  /\ \E j \in recovery[w].todo :
       recovery' = [recovery EXCEPT ![w] =
         [todo |-> @.todo \ {j}, job |-> j, progress |-> progressed[j]]]
  /\ UNCHANGED <<rowVars, proc, pickup, active, cancelled, current, exec, humanVars>>

\* The UPDATE names only the id: whatever happened since the SELECT is lost.
RecoverWrite(w) ==
  LET j == recovery[w].job IN
  /\ j # NoJob
  /\ status' = [status EXCEPT ![j] =
                  IF recovery[w].progress THEN "completed" ELSE "pending"]
  /\ worker_id' = [worker_id EXCEPT ![j] = NoWorker]
  /\ execution_attempt_id' = [execution_attempt_id EXCEPT ![j] = NoAttempt]
  /\ recovery' = [recovery EXCEPT ![w].job = NoJob, ![w].progress = FALSE]
  /\ UNCHANGED <<retry_count, last_heartbeat, progressed, proc, pickup, active,
                 cancelled, current, exec, humanVars>>

\* Mutant: without the maxConcurrent check.
TryPickupAlways(w) ==
  /\ Running(w)
  /\ pickup[w].state = "idle"
  /\ pickup' = [pickup EXCEPT ![w].state = "sent"]
  /\ UNCHANGED <<rowVars, proc, active, cancelled, current, recovery, exec, humanVars>>

TryPickup(w) ==
  /\ Running(w)
  /\ active[w] < MaxConcurrent
  /\ pickup[w].state = "idle"
  /\ pickup' = [pickup EXCEPT ![w].state = "sent"]
  /\ UNCHANGED <<rowVars, proc, active, cancelled, current, recovery, exec, humanVars>>

PickupEmpty(w) ==
  /\ pickup[w].state = "sent"
  /\ Eligible(w) = {}
  /\ pickup' = [pickup EXCEPT ![w] = NoPickup]
  /\ UNCHANGED <<rowVars, proc, active, cancelled, current, recovery, exec, humanVars>>

\* PICKUP_SQL: a 'queued' row is taken even when another worker holds it.
PickupClaim(w) ==
  /\ pickup[w].state = "sent"
  /\ \E j \in Eligible(w) :
       /\ status' = [status EXCEPT ![j] = "queued"]
       /\ worker_id' = [worker_id EXCEPT ![j] = w]
       /\ last_heartbeat' = [last_heartbeat EXCEPT ![j] = "fresh"]
       /\ pickup' = [pickup EXCEPT ![w] =
            [state |-> "claimed", job |-> j, retries |-> retry_count[j]]]
  /\ UNCHANGED <<execution_attempt_id, retry_count, progressed, proc, active,
                 cancelled, current, recovery, exec, humanVars>>

\* The query fails; the statement may have run and only its answer be lost, and
\* then the row is claimed by a worker that does not know of it.
PickupFails(w) ==
  /\ pickup[w].state = "sent"
  /\ pickup' = [pickup EXCEPT ![w] = NoPickup]
  /\ \/ UNCHANGED <<status, worker_id, last_heartbeat>>
     \/ \E j \in Eligible(w) :
          /\ status' = [status EXCEPT ![j] = "queued"]
          /\ worker_id' = [worker_id EXCEPT ![j] = w]
          /\ last_heartbeat' = [last_heartbeat EXCEPT ![j] = "fresh"]
  /\ UNCHANGED <<execution_attempt_id, retry_count, progressed, proc, active,
                 cancelled, current, recovery, exec, humanVars>>

\* Mutant: this.activeJobs++ is missing.
Uncounted(n) == n
Counted(n) == n + 1

\* tryPickup() gets its row and calls executor.execute(job).
BeginExecution(w) ==
  /\ pickup[w].state = "claimed"
  /\ \E a \in Attempts :
       /\ Fresh(a)
       /\ exec' = [exec EXCEPT ![a] =
            [phase |-> "stamp", worker |-> w, job |-> pickup[w].job,
             retries |-> pickup[w].retries]]
       /\ current' = [current EXCEPT ![w] = a]
  /\ cancelled' = [cancelled EXCEPT ![w] = FALSE]
  /\ active' = [active EXCEPT ![w] = Counted(@)]
  /\ pickup' = [pickup EXCEPT ![w] = NoPickup]
  /\ UNCHANGED <<rowVars, proc, recovery, humanVars>>

\* stop(), on SIGTERM or POST /worker/drain: running = false.
Stop(w) ==
  /\ proc[w] = "up"
  /\ proc' = [proc EXCEPT ![w] = "unlisten"]
  /\ UNCHANGED <<rowVars, pickup, active, cancelled, current, recovery, exec, humanVars>>

\* Mutant: stop() does not wait for the pickup in flight.
UnlistenedEarly(w) ==
  /\ proc[w] = "unlisten"
  /\ proc' = [proc EXCEPT ![w] = "drain"]
  /\ UNCHANGED <<rowVars, pickup, active, cancelled, current, recovery, exec, humanVars>>

\* UNLISTEN shares the pickup's connection, so its answer comes after the
\* pickup's and after the execution that answer starts.
Unlistened(w) ==
  /\ proc[w] = "unlisten"
  /\ pickup[w].state = "idle"
  /\ proc' = [proc EXCEPT ![w] = "drain"]
  /\ UNCHANGED <<rowVars, pickup, active, cancelled, current, recovery, exec, humanVars>>

\* Mutant: the release does not look at the status.
HeldWhatever(w) == {j \in Jobs : worker_id[j] = w}
Held(w) == {j \in Jobs : worker_id[j] = w /\ status[j] \in InHand}

\* Mutant: the owner stays.
ReleaseStatusOnly(w) ==
  /\ status' = [j \in Jobs |-> IF j \in Held(w) THEN "pending" ELSE status[j]]
  /\ UNCHANGED worker_id

ReleaseRows(w) ==
  /\ status' = [j \in Jobs |-> IF j \in Held(w) THEN "pending" ELSE status[j]]
  /\ worker_id' = [j \in Jobs |-> IF j \in Held(w) THEN NoWorker ELSE worker_id[j]]

\* No active job is left, or the 30 seconds are over: the code does the same.
ReleaseClaimedJobs(w) ==
  /\ proc[w] = "drain"
  /\ ReleaseRows(w)
  /\ proc' = [proc EXCEPT ![w] = "stopped"]
  /\ UNCHANGED <<execution_attempt_id, retry_count, last_heartbeat, progressed,
                 pickup, active, cancelled, current, recovery, exec, humanVars>>

\* The UPDATE fails: the error is caught and logged, and the worker goes on to its
\* exit with its rows as they are.
ReleaseFails(w) ==
  /\ proc[w] = "drain"
  /\ proc' = [proc EXCEPT ![w] = "unreleased"]
  /\ UNCHANGED <<rowVars, pickup, active, cancelled, current, recovery, exec, humanVars>>

\* A second signal: release at once (behind any pickup already sent), then exit.
\* Where this UPDATE fails too, the process just exits: Die.
ForceRelease(w) ==
  /\ proc[w] \in {"unlisten", "drain", "stopped", "unreleased"}
  /\ pickup[w].state # "sent"
  /\ ReleaseRows(w)
  /\ UNCHANGED <<execution_attempt_id, retry_count, last_heartbeat, progressed,
                 procVars, exec, humanVars>>

\* The process ends: after stop() or a second signal, or by crashing anywhere.
\* What it had in memory is gone, its rows stay as they are.
Die(w) ==
  /\ Alive(w)
  /\ proc' = [proc EXCEPT ![w] = "down"]
  /\ pickup' = [pickup EXCEPT ![w] = NoPickup]
  /\ active' = [active EXCEPT ![w] = 0]
  /\ cancelled' = [cancelled EXCEPT ![w] = FALSE]
  /\ current' = [current EXCEPT ![w] = NoAttempt]
  /\ recovery' = [recovery EXCEPT ![w] = NoRecovery]
  /\ exec' = [a \in Attempts |-> IF exec[a].worker = w THEN NoExec ELSE exec[a]]
  /\ hitl' = [hitl EXCEPT ![w] = NoHitl]
  /\ UNCHANGED <<rowVars, resumeCall>>

-----------------------------------------------------------------------------
(* JobExecutor.execute(), as far as the row sees it.                       *)

\* Every status write of the executor is `UPDATE ... WHERE id`, unguarded.
WriteStatus(j, s) == status' = [status EXCEPT ![j] = s]
WriteStatusAndBeat(j, s) ==
  /\ WriteStatus(j, s)
  /\ last_heartbeat' = [last_heartbeat EXCEPT ![j] = "fresh"]

Stamp(a) ==
  /\ exec[a].phase = "stamp"
  /\ execution_attempt_id' = [execution_attempt_id EXCEPT ![exec[a].job] = a]
  /\ Goto(a, "preflight")
  /\ UNCHANGED <<status, worker_id, retry_count, last_heartbeat, progressed,
                 procVars, humanVars>>

PreflightPasses(a) ==
  /\ exec[a].phase = "preflight"
  /\ WriteStatusAndBeat(exec[a].job, "running")
  /\ Goto(a, "setup")
  /\ UNCHANGED <<worker_id, execution_attempt_id, retry_count, progressed,
                 procVars, humanVars>>

\* Over budget before it starts, or input the handler rejects: failed, no retry.
Reject(a) ==
  /\ exec[a].phase \in {"preflight", "setup"}
  /\ WriteStatusAndBeat(exec[a].job, "failed")
  /\ Goto(a, "closing")
  /\ UNCHANGED <<worker_id, execution_attempt_id, retry_count, progressed,
                 procVars, humanVars>>

Launch(a) ==
  /\ exec[a].phase = "setup"
  /\ WriteStatusAndBeat(exec[a].job, "running")
  /\ Goto(a, "handler")
  /\ UNCHANGED <<worker_id, execution_attempt_id, retry_count, progressed,
                 procVars, humanVars>>

\* The browser is gone and a new one runs the handler again.  A cancellation
\* stops the browser, so this is also what a cancelled execution may do.  (The
\* code does it twice at most; the model does not count.)
BrowserRecovered(a) ==
  /\ exec[a].phase = "handler"
  /\ WriteStatusAndBeat(exec[a].job, "running")
  /\ UNCHANGED <<worker_id, execution_attempt_id, retry_count, progressed,
                 procVars, exec, humanVars>>

\* A step_completed, cookbook_step_completed or form_submitted event, from the
\* cookbook engine (still in setup) or from the handler.
StepCompleted(a) ==
  /\ exec[a].phase \in {"setup", "handler"}
  /\ progressed' = [progressed EXCEPT ![exec[a].job] = TRUE]
  /\ UNCHANGED <<status, worker_id, execution_attempt_id, retry_count,
                 last_heartbeat, procVars, exec, humanVars>>

Succeeds(a) ==
  /\ exec[a].phase \in {"setup", "handler"}
  /\ WriteStatus(exec[a].job, "completed")
  /\ Goto(a, "closing")
  /\ UNCHANGED <<worker_id, execution_attempt_id, retry_count, last_heartbeat,
                 progressed, procVars, humanVars>>

\* The browser stays open for the user; execute() never returns.
AwaitUserReview(a) ==
  /\ exec[a].phase = "handler"
  /\ WriteStatus(exec[a].job, "awaiting_user_review")
  /\ Goto(a, "review")
  /\ UNCHANGED <<worker_id, execution_attempt_id, retry_count, last_heartbeat,
                 progressed, procVars, humanVars>>

\* Something throws, the handler's timeout at the latest.  Only here does the
\* executor look at _cancelled: if set, the row is left as it is.  A human can
\* only be asked once there is an adapter, and the set-up makes it.
Throws(a) ==
  LET phase == exec[a].phase IN
  /\ phase \in {"stamp", "preflight", "setup", "handler"}
  /\ Goto(a, IF cancelled[exec[a].worker] THEN "closing"
             ELSE IF phase \in {"setup", "handler"} THEN "error" ELSE "failing")
  /\ UNCHANGED <<rowVars, procVars, humanVars>>

\* handleJobError(): back to the queue, counting from the claimed snapshot.
RetryLater(a) ==
  LET j == exec[a].job IN
  /\ exec[a].phase \in {"error", "failing"}
  /\ exec[a].retries < MaxRetries
  /\ WriteStatus(j, "pending")
  /\ retry_count' = [retry_count EXCEPT ![j] = exec[a].retries + 1]
  /\ worker_id' = [worker_id EXCEPT ![j] = NoWorker]
  /\ Goto(a, "closing")
  /\ UNCHANGED <<execution_attempt_id, last_heartbeat, progressed, procVars,
                 humanVars>>

\* Not a retryable error, or no retry left.
GiveUp(a) ==
  /\ exec[a].phase \in {"error", "failing"}
  /\ WriteStatus(exec[a].job, "failed")
  /\ Goto(a, "closing")
  /\ UNCHANGED <<worker_id, execution_attempt_id, retry_count, last_heartbeat,
                 progressed, procVars, humanVars>>

\* Mutant: the slot is not given back.
Kept(n) == n
GivenBack(n) == n - 1

\* The finally blocks of execute() and of tryPickup()'s background promise.
\* A requestHumanIntervention() still waiting is not told.
Close(a) ==
  LET w == exec[a].worker IN
  /\ exec[a].phase = "closing"
  /\ exec' = [exec EXCEPT ![a] = NoExec]
  /\ current' = [current EXCEPT ![w] = NoAttempt]
  /\ active' = [active EXCEPT ![w] = GivenBack(@)]
  /\ UNCHANGED <<rowVars, proc, pickup, cancelled, recovery, humanVars>>

-----------------------------------------------------------------------------
(* requestHumanIntervention().  During setup and the handler it runs beside *)
(* the execution (blocker checks are raced or not awaited at all), after an *)
(* error the execution waits for it.                                        *)

\* Bound: one call at a time for a worker and a job.
AskHuman(a) ==
  LET j == exec[a].job
      w == exec[a].worker IN
  /\ exec[a].phase \in {"setup", "handler", "error"}
  /\ hitl[w][j] = "no"
  /\ WriteStatus(j, "paused")
  /\ hitl' = [hitl EXCEPT ![w][j] = "waiting"]
  /\ exec' = [exec EXCEPT ![a].phase = IF @ = "error" THEN "asking" ELSE @]
  /\ UNCHANGED <<worker_id, execution_attempt_id, retry_count, last_heartbeat,
                 progressed, procVars, resumeCall>>

\* The execution of w that awaits the answer goes on in one of these phases.
AskedGoesTo(w, j, phases) ==
  \E p \in phases :
    exec' = [a \in Attempts |->
               IF exec[a].phase = "asking" /\ exec[a].worker = w /\ exec[a].job = j
               THEN [exec[a] EXCEPT !.phase = p] ELSE exec[a]]

\* After an error the execution then just returns, and the row stays 'running';
\* if it was checkForBlockers() that asked, it goes through the error again.
HumanResumed(w, j) ==
  /\ hitl[w][j] = "answered"
  /\ WriteStatus(j, "running")
  /\ hitl' = [hitl EXCEPT ![w][j] = "no"]
  /\ AskedGoesTo(w, j, {"closing", "error"})
  /\ UNCHANGED <<worker_id, execution_attempt_id, retry_count, last_heartbeat,
                 progressed, procVars, resumeCall>>

HumanTimeout(w, j) ==
  /\ hitl[w][j] = "waiting"
  /\ WriteStatus(j, "failed")
  /\ hitl' = [hitl EXCEPT ![w][j] = "no"]
  /\ AskedGoesTo(w, j, {"failing"})
  /\ UNCHANGED <<worker_id, execution_attempt_id, retry_count, last_heartbeat,
                 progressed, procVars, resumeCall>>

-----------------------------------------------------------------------------
(* What tells an execution to stop.                                        *)

\* Mutant: the heartbeat does not read the status.
SeesNothing(j) == FALSE
SeesCancelled(j) == status[j] = "cancelled"

\* The 10 second heartbeat: the UPDATE that refreshes the row also reads it.
\* (An answer that comes back during a later execution is not modelled.)
Heartbeat(a) ==
  LET j == exec[a].job
      w == exec[a].worker
      superseded == execution_attempt_id[j] \notin {NoAttempt, current[w]} IN
  /\ Live(a)
  /\ last_heartbeat' = [last_heartbeat EXCEPT ![j] = "fresh"]
  /\ cancelled' = [cancelled EXCEPT ![w] =
                     @ \/ SeesCancelled(j) \/ superseded]
  /\ UNCHANGED <<status, worker_id, execution_attempt_id, retry_count,
                 progressed, proc, pickup, active, current, recovery, exec,
                 humanVars>>

\* A NOTIFY on the job's cancel channel, or MAX_HEARTBEAT_FAILURES in a row.
ToldToStop(a) ==
  /\ Live(a)
  /\ cancelled' = [cancelled EXCEPT ![exec[a].worker] = TRUE]
  /\ UNCHANGED <<rowVars, proc, pickup, active, current, recovery, exec,
                 humanVars>>

-----------------------------------------------------------------------------
Init ==
  /\ status = [j \in Jobs |-> "none"]
  /\ worker_id = [j \in Jobs |-> NoWorker]
  /\ execution_attempt_id = [j \in Jobs |-> NoAttempt]
  /\ retry_count = [j \in Jobs |-> 0]
  /\ last_heartbeat = [j \in Jobs |-> "null"]
  /\ progressed = [j \in Jobs |-> FALSE]
  /\ proc = [w \in Workers |-> "down"]
  /\ pickup = [w \in Workers |-> NoPickup]
  /\ active = [w \in Workers |-> 0]
  /\ cancelled = [w \in Workers |-> FALSE]
  /\ current = [w \in Workers |-> NoAttempt]
  /\ recovery = [w \in Workers |-> NoRecovery]
  /\ exec = [a \in Attempts |-> NoExec]
  /\ hitl = [w \in Workers |-> NoHitl]
  /\ resumeCall = [j \in Jobs |-> "no"]

\* No execution of the job is alive to send its heartbeats.
Abandoned(j) == \A a \in Attempts : Live(a) => exec[a].job # j

\* What the workers, the clock and an API call in progress do by themselves.
Routine ==
  \/ \E j \in Jobs :
       \/ Submit(j) \/ ResumeNotify(j) \/ ResumeWrite(j)
       \/ Abandoned(j) /\ HeartbeatLapses(j)
  \/ \E w \in Workers :
       \/ Start(w) \/ RecoverCount(w) \/ RecoverWrite(w)
       \/ TryPickup(w) \/ PickupEmpty(w) \/ PickupClaim(w) \/ BeginExecution(w)
       \/ Unlistened(w) \/ ReleaseClaimedJobs(w) \/ ForceRelease(w)
       \/ ~Running(w) /\ Die(w)
  \/ \E a \in Attempts :
       \/ Stamp(a) \/ PreflightPasses(a) \/ Reject(a) \/ Launch(a)
       \/ BrowserRecovered(a) \/ StepCompleted(a) \/ Succeeds(a)
       \/ AwaitUserReview(a) \/ Throws(a) \/ RetryLater(a) \/ GiveUp(a)
       \/ Close(a) \/ Heartbeat(a)
  \/ \E w \in Workers, j \in Jobs : HumanResumed(w, j) \/ HumanTimeout(w, j)

\* What users, web sites, deployments and failures do to them.
Disturbance ==
  \/ \E j \in Jobs :
       Cancel(j) \/ Retry(j) \/ ResumeCheck(j) \/ HeartbeatLapses(j)
  \/ \E w \in Workers :
       Stop(w) \/ Die(w) \/ Deregister(w) \/ PickupFails(w) \/ ReleaseFails(w)
  \/ \E a \in Attempts : AskHuman(a) \/ ToldToStop(a)

Next == Routine \/ Disturbance

Spec == Init /\ [][Next]_vars

\* A live process keeps polling and executing, PostgreSQL does not refuse for ever
\* the pickup that is repeated every five seconds, the heartbeat interval keeps firing, a human's time runs out, and a dead container
\* is started again.  Nothing is assumed of how long a handler works, nor of
\* users, deployments and failures.
Fairness ==
  /\ \A j \in Jobs :
       /\ WF_vars(Abandoned(j) /\ HeartbeatLapses(j))
       /\ WF_vars(ResumeNotify(j)) /\ WF_vars(ResumeWrite(j))
  /\ \A w \in Workers :
       /\ WF_vars(Start(w)) /\ WF_vars(RecoverCount(w)) /\ WF_vars(RecoverWrite(w))
       /\ WF_vars(TryPickup(w)) /\ SF_vars(PickupEmpty(w) \/ PickupClaim(w))
       /\ WF_vars(BeginExecution(w))
       /\ WF_vars(Unlistened(w)) /\ WF_vars(ReleaseClaimedJobs(w))
       /\ \A j \in Jobs : WF_vars(HumanResumed(w, j)) /\ WF_vars(HumanTimeout(w, j))
  /\ \A a \in Attempts :
       /\ WF_vars(Stamp(a)) /\ WF_vars(PreflightPasses(a) \/ Reject(a))
       /\ WF_vars(Launch(a)) /\ WF_vars(RetryLater(a) \/ GiveUp(a))
       /\ WF_vars(Close(a)) /\ WF_vars(Heartbeat(a))

FairSpec == Spec /\ Fairness

-----------------------------------------------------------------------------
Pickup == [state : {"idle", "sent", "claimed"}, job : Jobs \cup {NoJob},
           retries : Nat]
Recovery == [todo : SUBSET Jobs, job : Jobs \cup {NoJob}, progress : BOOLEAN]
Execution == [phase : Phases, worker : Workers \cup {NoWorker},
              job : Jobs \cup {NoJob}, retries : Nat]

TypeOK ==
  /\ status \in [Jobs -> Statuses]
  /\ worker_id \in [Jobs -> Workers \cup {NoWorker}]
  /\ execution_attempt_id \in [Jobs -> Attempts \cup {NoAttempt}]
  /\ retry_count \in [Jobs -> Nat]
  /\ last_heartbeat \in [Jobs -> {"null", "fresh", "stale"}]
  /\ progressed \in [Jobs -> BOOLEAN]
  /\ proc \in [Workers -> {"down", "up", "unlisten", "drain", "stopped", "unreleased"}]
  /\ pickup \in [Workers -> Pickup]
  /\ active \in [Workers -> Nat]
  /\ cancelled \in [Workers -> BOOLEAN]
  /\ current \in [Workers -> Attempts \cup {NoAttempt}]
  /\ recovery \in [Workers -> Recovery]
  /\ exec \in [Attempts -> Execution]
  /\ hitl \in [Workers -> [Jobs -> {"no", "waiting", "answered"}]]
  /\ resumeCall \in [Jobs -> {"no", "checked", "notified"}]

\* A worker never has two executions, and none while a claim is on its way: the
\* executor's _cancelled, _activeAdapter and _executionAttemptId are one field
\* per worker, so a second execution would steal the first one's cancellation.
OneTaskPerWorker ==
  \A w \in Workers :
    /\ \A a, b \in Attempts :
         Live(a) /\ Live(b) /\ exec[a].worker = w /\ exec[b].worker = w => a = b
    /\ \A a \in Attempts :
         Live(a) /\ exec[a].worker = w => pickup[w].state = "idle"

\* The worker's fields agree with one another and with its executions.  This is
\* what makes OneTaskPerWorker inductive: activeJobs counts exactly the execution
\* the executor's fields belong to, and a pickup in flight holds the slot free.
SlotsAgree ==
  /\ \A w \in Workers :
       /\ active[w] = IF current[w] = NoAttempt THEN 0 ELSE 1
       /\ current[w] # NoAttempt =>
            Live(current[w]) /\ exec[current[w]].worker = w /\ Alive(w)
       /\ pickup[w].state # "idle" =>
            current[w] = NoAttempt /\ proc[w] \in {"up", "unlisten"}
       /\ pickup[w].state = "claimed" => pickup[w].job \in Jobs
  /\ \A a \in Attempts :
       Live(a) => /\ exec[a].worker \in Workers /\ exec[a].job \in Jobs
                  /\ current[exec[a].worker] = a

\* A worker whose release has gone through holds no row as 'queued', also none
\* that a pickup without an answer has left behind: the pickup in flight when
\* stop() was called is part of the release, and nothing is claimed after it.
\* Where the release itself failed ("unreleased") the rows stay claimed, and it
\* is QueuedIsServed that says what becomes of them.
NothingLeftClaimed ==
  \A w \in Workers, j \in Jobs :
    proc[w] = "stopped" /\ worker_id[j] = w => status[j] # "queued"

\* What a row that is not yet submitted says of its owner.
NewIsUnowned == \A j \in Jobs : status[j] = "none" => worker_id[j] = NoWorker

\* A row that waits for a worker belongs to none: whoever puts it back (retry,
\* recovery, release, API) also takes the owner away, so that a deregistration
\* or release of the previous owner does not touch it any more.
PendingIsUnowned ==
  \A j \in Jobs : status[j] = "pending" => worker_id[j] = NoWorker

\* Somebody holds the job in memory and may still write its row: an execution,
\* a wait for a human, a resume call, or a recovery that has listed it.
InFlight(j) ==
  \/ ~Abandoned(j)
  \/ resumeCall[j] # "no"
  \/ \E w \in Workers :
       hitl[w][j] # "no" \/ j \in recovery[w].todo \cup {recovery[w].job}

\* A row in a terminal state is left alone by everything but an API retry and
\* those that hold its job already: pickups, releases, deregistrations and
\* restarts of any worker never bring a finished job back.
LeavesFinishedAlone ==
  \A j \in Jobs :
    status[j] \in Terminal =>
      \/ InFlight(j)
      \/ status'[j] = status[j]
      \/ status[j] \in Retryable /\ status'[j] = "pending"
           /\ retry_count'[j] = retry_count[j] + 1

FinishedStaysFinished == [][LeavesFinishedAlone]_vars

\* WorkerSlots: one allowed job per worker, and none taken once stop() is past
\* its UNLISTEN.
SlotMode ==
  [w \in Workers |->
     IF proc[w] = "down" THEN "off"
     ELSE IF proc[w] \in {"up", "unlisten"} THEN "open" ELSE "closed"]
SlotTask ==
  [w \in Workers |->
     IF pickup[w].state = "claimed" THEN pickup[w].job
     ELSE IF current[w] # NoAttempt THEN exec[current[w]].job
     ELSE NoJob]

Slots == INSTANCE WorkerSlots WITH
  May <- {p \in Workers \X Jobs : MayClaim(p[1], p[2])},
  mode <- SlotMode,
  task <- SlotTask

ImplementsSlots == Slots!Spec

-----------------------------------------------------------------------------
(* Liveness under FairSpec.                                                *)

\* A cancelled job stops being worked on: its execution hears of it, or ends, or
\* the row stops being cancelled (an executor's write, or an API retry).
CancelReachesExecutor ==
  \A a \in Attempts :
    (exec[a].phase = "handler" /\ status[exec[a].job] = "cancelled")
      ~> \/ ~Live(a)
         \/ cancelled[exec[a].worker]
         \/ status[exec[a].job] # "cancelled"

\* createTimeout() ends what the handler does not end by itself.
HandlerEnds(a) == Throws(a) \/ Succeeds(a) \/ AwaitUserReview(a)

\* With the handler's timeout, a worker that takes a job gets its slot back, or
\* parks the job in front of its user: no exit of execute() leaks the slot.
SlotIsFreed ==
  (\A a \in Attempts : WF_vars(HandlerEnds(a)))
    => \A w \in Workers :
         active[w] > 0
           ~> active[w] = 0 \/ \E a \in Attempts :
                                  exec[a].worker = w /\ exec[a].phase = "review"

\* A job in the queue, a crashed worker's claim included, is taken as long as
\* some worker that may do it is polling and keeps its slot free.
QueuedIsServed ==
  \A j \in Jobs :
    status[j] \in Claimable /\ Abandoned(j)
      ~> \/ status[j] \notin Claimable \/ ~Abandoned(j)
         \/ \A w \in Workers : MayClaim(w, j) => ~Running(w) \/ active[w] > 0

-----------------------------------------------------------------------------
(* Statements of the project's documents and comments that fail.           *)

\* "Multiple workers calling concurrently never pick the same job."
NoTwoWorkersShareAJob ==
  \A a, b \in Attempts :
    Live(a) /\ Live(b) /\ exec[a].job = exec[b].job => a = b

\* "Job cancelled externally, stopping execution": once the executor has seen the
\* cancellation, the job it was running stays cancelled.
CancelledStaysCancelled ==
  [][\A a \in Attempts :
       exec[a].phase = "handler" /\ cancelled[exec[a].worker]
           /\ status[exec[a].job] = "cancelled"
         => status'[exec[a].job] = "cancelled"]_vars

\* "Jobs can get stuck if a worker crashes without cleanup.  The system handles
\* this automatically": a running row whose worker is dead does not stay so.
CrashedJobIsRecovered ==
  \A w \in Workers, j \in Jobs :
    (proc[w] = "down" /\ worker_id[j] = w /\ status[j] = "running" /\ Abandoned(j))
      ~> (status[j] # "running" \/ ~Abandoned(j))

\* "preferred (try target, fallback to any)": no pending job of preferred affinity
\* waits for good while some worker is polling with a free slot.
PreferredFallsBack ==
  \A j \in Jobs :
    (status[j] = "pending" /\ Affinity[j] = "preferred")
      ~> \/ status[j] # "pending"
         \/ \A w \in Workers : ~Running(w) \/ active[w] > 0

=============================================================================
