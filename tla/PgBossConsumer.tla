--------------------------- MODULE PgBossConsumer ---------------------------
(***************************************************************************)
(* Dispatch by pg-boss instead of polling (workers/PgBossConsumer.ts): one *)
(* worker, subscribed to two queues whose handlers may run at the same     *)
(* time.  VALET creates a row and sends a message for it; pg-boss gives a  *)
(* message to a handler once (retryLimit 0).  An execution is Executor's,  *)
(* here only how it leaves the row.                                        *)
(***************************************************************************)
EXTENDS Naturals, FiniteSets

CONSTANTS
  BossJobs,
  MaxSends        (* bound: messages, with those sent again *)

ASSUME BossAssumption == BossJobs # {} /\ MaxSends \in Nat

VARIABLES
  entry,      (* status in gh_automation_jobs                              *)
  message,    (* the messages: the job, the queue and where each is        *)
  sent,       (* how many there are                                        *)
  processing, (* the guard: the message being processed, or 0              *)
  consuming,  (* the worker takes messages                                 *)
  forsaken    (* history: jobs put back, or whose message was not sent again *)

bossVars == <<entry, message, sent, processing, consuming, forsaken>>

Queues == {"general", "targeted"}
Messages == 1..MaxSends
Claimable == {"pending", "queued"}
NoMessage == [job |-> CHOOSE j \in BossJobs : TRUE, queue |-> "general", at |-> "unsent"]

At(place) == {m \in Messages : message[m].at = place}
Move(m, place) == message' = [message EXCEPT ![m].at = place]
InHandler(m) == message[m].at \notin {"unsent", "queued", "done"}
JobOf(m) == message[m].job

-----------------------------------------------------------------------------
Submit(j, q) ==
  /\ entry[j] = "none" /\ sent < MaxSends
  /\ sent' = sent + 1
  /\ entry' = [entry EXCEPT ![j] = "queued"]
  /\ message' = [message EXCEPT ![sent'] = [job |-> j, queue |-> q, at |-> "queued"]]
  /\ UNCHANGED <<processing, consuming, forsaken>>

CancelEntry(j) ==
  /\ entry[j] \in Claimable \cup {"running"}
  /\ entry' = [entry EXCEPT ![j] = "cancelled"]
  /\ UNCHANGED <<message, sent, processing, consuming, forsaken>>

\* A queue's handler is given one message at a time.
Offered(m) ==
  /\ consuming /\ message[m].at = "queued"
  /\ \A n \in Messages : InHandler(n) => message[n].queue # message[m].queue

\* Mutant: the guard is not looked at.
TakeUnguarded(m) ==
  /\ Offered(m)
  /\ processing' = m
  /\ Move(m, "lookup")
  /\ UNCHANGED <<entry, sent, consuming, forsaken>>

Take(m) ==
  /\ Offered(m) /\ processing = 0
  /\ processing' = m
  /\ Move(m, "lookup")
  /\ UNCHANGED <<entry, sent, consuming, forsaken>>

TakeBusy(m) ==
  /\ Offered(m) /\ processing # 0
  /\ Move(m, "busy")
  /\ UNCHANGED <<entry, sent, processing, consuming, forsaken>>

\* Mutant: the handler waits for the row to be taken.
CheckBusyWaits(m) ==
  /\ message[m].at = "busy"
  /\ entry[JobOf(m)] \notin Claimable
  /\ Move(m, "done")
  /\ UNCHANGED <<entry, sent, processing, consuming, forsaken>>

\* Only a row that nobody may claim any more lets the message go.
CheckBusy(m) ==
  /\ message[m].at = "busy"
  /\ \/ Move(m, "resend")                 \* claimable, or the check failed
     \/ entry[JobOf(m)] \notin Claimable /\ Move(m, "done")
  /\ UNCHANGED <<entry, sent, processing, consuming, forsaken>>

\* Mutant: a message that comes while the worker is busy is thought done.
ResendNot(m) ==
  /\ message[m].at = "resend"
  /\ Move(m, "done")
  /\ UNCHANGED <<entry, sent, processing, consuming, forsaken>>

\* boss.send() may throw: pg-boss fails the message, the job stays behind.
Resend(m) ==
  /\ message[m].at = "resend" /\ sent < MaxSends
  /\ \/ /\ sent' = sent + 1
        /\ message' = [message EXCEPT ![m].at = "done",
                                      ![sent'] = [message[m] EXCEPT !.at = "queued"]]
        /\ UNCHANGED forsaken
     \/ /\ Move(m, "done")
        /\ forsaken' = forsaken \cup {JobOf(m)}
        /\ UNCHANGED sent
  /\ UNCHANGED <<entry, processing, consuming>>

\* The write of 'running' does not look at the status that was read.
ExecuteBossJob(m) ==
  /\ message[m].at = "lookup"
  /\ Move(m, "executing")
  /\ entry' = [entry EXCEPT ![JobOf(m)] = "running"]
  /\ UNCHANGED <<sent, processing, consuming, forsaken>>

\* A database error before execute(): the finally clause follows, the row stays.
LookupFails(m) ==
  /\ message[m].at = "lookup"
  /\ Move(m, "done")
  /\ processing' = 0
  /\ forsaken' = forsaken \cup {JobOf(m)}
  /\ UNCHANGED <<entry, sent, consuming>>

\* 'pending' is the retry JobExecutor leaves to a poller; no message goes with it.
ExecutionEnds(m) ==
  /\ message[m].at = "executing"
  /\ \E s \in {"completed", "failed", "pending", entry[JobOf(m)]} :
       /\ entry' = [entry EXCEPT ![JobOf(m)] = s]
       /\ forsaken' = forsaken \cup (IF s = "pending" THEN {JobOf(m)} ELSE {})
  /\ Move(m, "done")
  /\ processing' = 0
  /\ UNCHANGED <<sent, consuming>>

\* Shutdown: pg-boss is told that the message failed, the rows go back.
ReleaseClaimedJobs ==
  /\ consuming
  /\ consuming' = FALSE
  /\ LET mine == {JobOf(m) : m \in {n \in At("executing") : entry[JobOf(n)] = "running"}} IN
       /\ entry' = [j \in BossJobs |-> IF j \in mine THEN "pending" ELSE entry[j]]
       /\ forsaken' = forsaken \cup mine
  /\ UNCHANGED <<message, sent, processing>>

-----------------------------------------------------------------------------
BossInit ==
  /\ entry = [j \in BossJobs |-> "none"]
  /\ message = [m \in Messages |-> NoMessage]
  /\ sent = 0
  /\ processing = 0
  /\ consuming = TRUE
  /\ forsaken = {}

Handle(m) ==
  \/ Take(m) \/ TakeBusy(m) \/ CheckBusy(m) \/ Resend(m)
  \/ ExecuteBossJob(m) \/ LookupFails(m) \/ ExecutionEnds(m)

BossNext ==
  \/ \E j \in BossJobs : CancelEntry(j) \/ \E q \in Queues : Submit(j, q)
  \/ \E m \in Messages : Handle(m)
  \/ ReleaseClaimedJobs

BossSpec == BossInit /\ [][BossNext]_bossVars

-----------------------------------------------------------------------------
BossTypeOK ==
  /\ entry \in [BossJobs -> {"none", "pending", "queued", "running", "completed", "failed", "cancelled"}]
  /\ message \in [Messages -> [job : BossJobs, queue : Queues,
       at : {"unsent", "queued", "lookup", "busy", "resend", "executing", "done"}]]
  /\ sent \in 0..MaxSends
  /\ processing \in 0..MaxSends
  /\ consuming \in BOOLEAN
  /\ forsaken \subseteq BossJobs

\* Two subscriptions, one executor: it never has two jobs, and the guard is held
\* exactly while it has one.
ExecutorIsAlone == At("lookup") \cup At("executing") = {processing} \ {0}

\* Messages that come while the worker is busy are neither lost nor doubled: a
\* queued row has a message on its way, as long as no call failed, and no row two.
QueuedHasMessage ==
  \A j \in BossJobs :
    LET live == {m \in Messages : JobOf(m) = j /\ message[m].at \notin {"unsent", "done"}} IN
    /\ Cardinality(live) <= 1
    /\ entry[j] = "queued" => live # {} \/ j \in forsaken

\* A queued job that still has to get to execute(): its message may go round while the
\* worker is busy, but the worker runs and no call has failed.
Waits(j) == entry[j] = "queued" /\ j \notin forsaken /\ consuming /\ sent < MaxSends
=============================================================================
