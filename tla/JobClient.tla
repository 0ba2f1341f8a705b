----------------------------- MODULE JobClient ------------------------------
(***************************************************************************)
(* The client library that VALET calls (client/GhostHandsClient.ts,        *)
(* realtimeSubscriber.ts) in DB mode, where it works on the table itself:  *)
(* several calls for one job, while a worker changes the row.              *)
(***************************************************************************)
EXTENDS Naturals, Sequences, FiniteSets

CONSTANTS
  JobCalls,     (* the calls made, one operation each                       *)
  MaxUpdates,   (* bound: updates of the row by the worker                  *)
  MaxPolls      (* bound: rounds of a poll before its deadline              *)

ASSUME ClientAssumption == MaxUpdates \in Nat /\ MaxPolls \in Nat \ {0}

VARIABLES
  jobRow,      (* gh_automation_jobs: rows with the idempotency key, and    *)
               (* the status and retry_count of the (first) one             *)
  asking,      (* the calls: operation, progress, the row as last read,     *)
               (* result, its channel and the updates on their way to it    *)
  registered,  (* RealtimeSubscriber.channels: whose channel has the name   *)
  updates      (* updates by the worker so far                              *)

clientVars == <<jobRow, asking, registered, updates>>

TERMINAL_STATUSES == {"completed", "failed", "cancelled", "expired"}
CANCELLABLE_STATUSES == {"pending", "queued", "running", "paused"}
RowStatuses == TERMINAL_STATUSES \cup CANCELLABLE_STATUSES \cup {"none", "awaiting_user_review"}
Operations == {"create", "cancel", "retry", "wait", "poll"}
Results == {"none", "created", "duplicate", "cancelled", "refused", "retried",
            "resolved", "timeout", "error"}
NewCall == [op |-> "wait", pc |-> "begin", saw |-> 0, result |-> "none",
            polls |-> 1, channel |-> "none", feed |-> <<>>, late |-> FALSE]
Absent == [count |-> 0, status |-> "none", retries |-> 0]

\* What a worker makes of a row; nothing in this repository expires one.
WorkerSteps(status) ==
  CASE status = "pending" -> {"queued"}
    [] status = "queued" -> {"running", "pending"}
    [] status = "running" -> {"paused", "completed", "failed", "pending", "awaiting_user_review"}
    [] status = "paused" -> {"running", "failed"}
    [] OTHER -> {}

Asking(c, op, pc) == asking[c].op = op /\ asking[c].pc = pc
Comes(call, result) == [call EXCEPT !.pc = "over", !.result = result]
\* An update of the row goes to every channel that has joined.
Heard(status) ==
  [c \in JobCalls |-> IF asking[c].channel = "joined"
                        THEN [asking[c] EXCEPT !.feed = Append(@, status)] ELSE asking[c]]
Write(status, retries, c, call) ==
  /\ jobRow' = [jobRow EXCEPT !.status = status, !.retries = retries]
  /\ asking' = [Heard(status) EXCEPT ![c] = call]
  /\ UNCHANGED <<registered, updates>>
Only(c, call) == asking' = [asking EXCEPT ![c] = call] /\ UNCHANGED <<jobRow, registered, updates>>

-----------------------------------------------------------------------------
\* createJob() with an idempotency key: looked up, then inserted; the key is UNIQUE.
LookUpKey(c) ==
  /\ Asking(c, "create", "begin")
  /\ Only(c, IF jobRow.count > 0 THEN Comes(asking[c], "duplicate")
             ELSE [asking[c] EXCEPT !.pc = "insert"])

InsertJob(c) ==
  /\ Asking(c, "create", "insert")
  /\ IF jobRow.count > 0 THEN Only(c, Comes(asking[c], "duplicate"))
     ELSE /\ jobRow' = [count |-> 1, status |-> "pending", retries |-> 0]
          /\ asking' = [asking EXCEPT ![c] = Comes(@, "created")]
          /\ UNCHANGED <<registered, updates>>

\* getJob() at the start of cancelJob() and retryJob()
ReadJob(c) ==
  /\ Asking(c, "cancel", "begin") \/ Asking(c, "retry", "begin")
  /\ LET fit == IF asking[c].op = "cancel" THEN CANCELLABLE_STATUSES ELSE {"failed", "cancelled"}
     IN Only(c, IF jobRow.count = 0 THEN Comes(asking[c], "error")
                ELSE IF jobRow.status \in fit
                  THEN [asking[c] EXCEPT !.pc = "write", !.saw = jobRow.retries]
                ELSE Comes(asking[c], "refused"))

\* Mutant: the status read is relied upon.
CancelAsRead(c) ==
  /\ Asking(c, "cancel", "write")
  /\ Write("cancelled", jobRow.retries, c, Comes(asking[c], "cancelled"))

\* The update asks for the status again; what fails is refused with a status read anew.
Cancel(c) ==
  /\ Asking(c, "cancel", "write")
  /\ IF jobRow.status \in CANCELLABLE_STATUSES
       THEN Write("cancelled", jobRow.retries, c, Comes(asking[c], "cancelled"))
       ELSE Only(c, Comes(asking[c], "refused"))

\* Mutant: the status read is relied upon.
RetryAsRead(c) ==
  /\ Asking(c, "retry", "write")
  /\ Write("pending", asking[c].saw + 1, c, Comes(asking[c], "retried"))

\* retry_count is the one read, plus one.
Retry(c) ==
  /\ Asking(c, "retry", "write")
  /\ IF jobRow.status \in {"failed", "cancelled"}
       THEN Write("pending", asking[c].saw + 1, c, Comes(asking[c], "retried"))
       ELSE Only(c, Comes(asking[c], "refused"))

-----------------------------------------------------------------------------
\* subscribeToJobStatus(): a later call of the same job takes the name in the map.
Subscribe(c) ==
  /\ Asking(c, "wait", "begin")
  /\ asking' = [asking EXCEPT ![c].pc = "waiting", ![c].channel = "joining",
                              ![c].late = jobRow.status \in TERMINAL_STATUSES]
  /\ registered' = c
  /\ UNCHANGED <<jobRow, updates>>

Join(c) ==
  /\ asking[c].channel = "joining"
  /\ Only(c, [asking[c] EXCEPT !.channel = "joined",
                               !.late = jobRow.status \in TERMINAL_STATUSES])

\* CHANNEL_ERROR: the wait is rejected, and the channel left as it is.
ChannelFails(c) ==
  /\ Asking(c, "wait", "waiting") /\ asking[c].channel = "joining"
  /\ Only(c, Comes([asking[c] EXCEPT !.channel = "failed"], "error"))

\* removeChannel(name): the channel that the map has under the name, whoever asked.
RemoveChannel(calls) ==
  /\ asking' = IF registered = "none" THEN calls
               ELSE [calls EXCEPT ![registered].channel = "removed", ![registered].feed = <<>>]
  /\ registered' = "none"

\* Mutant: only a completed job counts as ended.
OnUpdateCompleted(c) ==
  /\ asking[c].channel = "joined" /\ asking[c].feed # <<>>
  /\ LET status == Head(asking[c].feed)
         call == [asking[c] EXCEPT !.feed = Tail(@)]
     IN IF status = "completed"
          THEN RemoveChannel([asking EXCEPT
                 ![c] = IF call.pc = "waiting" THEN Comes(call, "resolved") ELSE call])
          ELSE asking' = [asking EXCEPT ![c] = call] /\ UNCHANGED registered
  /\ UNCHANGED <<jobRow, updates>>

\* The callback of the channel and, at the end of the job, the automatic unsubscription.
OnUpdate(c) ==
  /\ asking[c].channel = "joined" /\ asking[c].feed # <<>>
  /\ LET status == Head(asking[c].feed)
         call == [asking[c] EXCEPT !.feed = Tail(@)]
     IN IF status \in TERMINAL_STATUSES
          THEN RemoveChannel([asking EXCEPT
                 ![c] = IF call.pc = "waiting" THEN Comes(call, "resolved") ELSE call])
          ELSE asking' = [asking EXCEPT ![c] = call] /\ UNCHANGED registered
  /\ UNCHANGED <<jobRow, updates>>

WaitTimesOut(c) ==
  /\ Asking(c, "wait", "waiting")
  /\ RemoveChannel([asking EXCEPT ![c] = Comes(@, "timeout")])
  /\ UNCHANGED <<jobRow, updates>>

\* pollForCompletion(): one round of the loop, and its deadline.
Poll(c) ==
  /\ Asking(c, "poll", "begin")
  /\ Only(c, IF jobRow.count = 0 THEN Comes(asking[c], "error")
             ELSE IF jobRow.status \in TERMINAL_STATUSES THEN Comes(asking[c], "resolved")
             ELSE [asking[c] EXCEPT !.pc = "asleep"])

PollAgain(c) ==
  /\ Asking(c, "poll", "asleep")
  /\ Only(c, IF asking[c].polls = MaxPolls THEN Comes(asking[c], "timeout")
             ELSE [asking[c] EXCEPT !.pc = "begin", !.polls = @ + 1])

-----------------------------------------------------------------------------
WorkerUpdates(status) ==
  /\ status \in WorkerSteps(jobRow.status) /\ updates < MaxUpdates
  /\ updates' = updates + 1
  /\ jobRow' = [jobRow EXCEPT !.status = status]
  /\ asking' = Heard(status)
  /\ UNCHANGED registered

\* The calls are made in any order, on a job that is there or yet to be created.
ClientInit ==
  /\ jobRow \in {Absent} \cup {[Absent EXCEPT !.count = 1, !.status = s] : s \in {"running", "failed"}}
  /\ \E ops \in [JobCalls -> Operations] :
       asking = [c \in JobCalls |-> [NewCall EXCEPT !.op = ops[c]]]
  /\ registered = "none" /\ updates = 0

Wait(c) == Subscribe(c) \/ Join(c) \/ OnUpdate(c) \/ WaitTimesOut(c)
ClientStep(c) ==
  \/ LookUpKey(c) \/ InsertJob(c) \/ ReadJob(c) \/ Cancel(c) \/ Retry(c)
  \/ Wait(c) \/ Poll(c) \/ PollAgain(c)

ClientNext ==
  \/ \E c \in JobCalls : ClientStep(c) \/ ChannelFails(c)
  \/ \E status \in RowStatuses : WorkerUpdates(status)

\* The library goes on by itself; the timers of a wait and of a poll strike in the end.
ClientFairness == \A c \in JobCalls : WF_clientVars(ClientStep(c))
ClientSpec == ClientInit /\ [][ClientNext]_clientVars /\ ClientFairness

AskStates ==
  [op : Operations, saw : Nat, result : Results, late : BOOLEAN, polls : 1..MaxPolls,
   pc : {"begin", "insert", "write", "waiting", "asleep", "over"},
   channel : {"none", "joining", "joined", "failed", "removed"}, feed : Seq(RowStatuses)]

\* The state has its types.
ClientTypeOK ==
  /\ jobRow \in [count : 0..1, status : RowStatuses, retries : Nat]
  /\ asking \in [JobCalls -> AskStates]
  /\ registered \in JobCalls \cup {"none"} /\ updates \in 0..MaxUpdates

\* Of several creations with one key one is told that it created the job, and the others
\* that they did not.
OneCreates ==
  \A c, d \in JobCalls : asking[c].result = "created" /\ asking[d].result = "created" => c = d

\* Checked and written in two statements, a cancellation still never takes a job that has
\* ended, nor a retry one that has not.
EndRespected ==
  /\ (jobRow'.status = "cancelled" /\ jobRow.status # "cancelled")
       => jobRow.status \in CANCELLABLE_STATUSES
  /\ (jobRow'.status = "pending" /\ updates' = updates)
       => jobRow.status \in {"none", "pending", "failed", "cancelled"}
CallsRespectTheEnd == [][EndRespected]_clientVars

\* A wait with its channel that hears nothing of a job that has ended either joined after
\* the end (no row is fetched then), or another wait for the job removed its channel.
SilenceHasReason ==
  \A c \in JobCalls :
    (Asking(c, "wait", "waiting") /\ asking[c].channel \in {"joined", "removed"} /\ asking[c].feed = <<>>
       /\ jobRow.status \in TERMINAL_STATUSES)
    => asking[c].late \/ (asking[c].channel = "removed" /\ \E d \in JobCalls \ {c} :
                            asking[d].op = "wait" /\ asking[d].pc = "over")
=============================================================================
