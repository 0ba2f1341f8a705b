------------------------------ MODULE Callbacks -----------------------------
(***************************************************************************)
(* The reports on a job that the executor sends to VALET's callback URL    *)
(* (workers/callbackNotifier.ts).  Nobody awaits them: a report that has   *)
(* to be sent again does so while the job goes on and makes others.        *)
(***************************************************************************)
EXTENDS Naturals, Sequences

CONSTANTS
  MAX_RETRIES,   (* sendings after the first                                *)
  MaxReports     (* bound: reports of a job, with those of its retries      *)

CallbackAssumption == MAX_RETRIES \in Nat
ASSUME CallbackAssumption

VARIABLES
  reports,     (* the reports made, in order: where each is, how often sent *)
               (* and arrived, requests aborted but on their way, and       *)
               (* (history) whether the notifier has had VALET's OK         *)
  valet,       (* the status that VALET was told last                       *)
  overlapping   (* history: a report was made before all earlier ones had    *)
               (* their OK, or with one of their requests on its way        *)

callbackVars == <<reports, valet, overlapping>>

CallbackStatuses == {"running", "needs_human", "resumed", "completed", "failed"}
Reports == 1..Len(reports)
Last == IF reports = <<>> THEN "none" ELSE reports[Len(reports)].status

\* What the executor reports next.  A blocker that nobody resolved, or whose check was
\* given up, leaves 'needs_human' the last word until the end; the end of an execution
\* is 'failed' too where the row goes back to the queue or was cancelled; a job that
\* waits for its user's review reports nothing.
NextStatuses ==
  CASE Last = "none" -> {"running", "failed"}
    [] Last \in {"running", "resumed"} -> {"needs_human", "completed", "failed"}
    [] Last = "needs_human" -> {"resumed", "completed", "failed"}
    [] Last = "failed" -> {"running"}
    [] OTHER -> {}

-----------------------------------------------------------------------------
\* notifyRunning(), notifyHumanNeeded(), notifyResumed(), notifyFromJob(): not awaited.
Notify(status) ==
  /\ status \in NextStatuses /\ Len(reports) < MaxReports
  /\ reports' = Append(reports, [status |-> status, at |-> "sending", sent |-> 1,
                                 arrived |-> 0, late |-> 0, ok |-> FALSE])
  /\ overlapping' = (overlapping \/ \E r \in Reports : ~reports[r].ok \/ reports[r].late > 0)
  /\ UNCHANGED valet

Arrives(r) == valet' = reports[r].status

\* An attempt failed: another one after a delay, or none.
NextAttempt(report) ==
  [report EXCEPT !.at = IF report.sent <= MAX_RETRIES THEN "backoff" ELSE "given up"]

\* Mutant: the loop goes on after an OK.
AcknowledgedAndOn(r) ==
  /\ reports[r].at = "sending"
  /\ Arrives(r)
  /\ reports' = [reports EXCEPT ![r] =
                   NextAttempt([reports[r] EXCEPT !.arrived = @ + 1, !.ok = TRUE])]
  /\ UNCHANGED overlapping

Acknowledged(r) ==
  /\ reports[r].at = "sending"
  /\ Arrives(r)
  /\ reports' = [reports EXCEPT ![r] = [reports[r] EXCEPT !.at = "acknowledged", !.ok = TRUE,
                                                          !.arrived = @ + 1]]
  /\ UNCHANGED overlapping

\* The request failed, or VALET's answer was not OK, was lost, or came after TIMEOUT_MS.
NotAcknowledged(r) ==
  /\ reports[r].at = "sending"
  /\ \/ /\ Arrives(r)
        /\ reports' = [reports EXCEPT ![r] = NextAttempt([reports[r] EXCEPT !.arrived = @ + 1])]
     \/ UNCHANGED valet /\ reports' = [reports EXCEPT ![r] = NextAttempt(@)]
  /\ UNCHANGED overlapping

\* The request is aborted after TIMEOUT_MS, but not lost: VALET takes it up later.
Aborted(r) ==
  /\ reports[r].at = "sending"
  /\ reports' = [reports EXCEPT ![r] = NextAttempt([reports[r] EXCEPT !.late = @ + 1])]
  /\ UNCHANGED <<valet, overlapping>>

ArrivesLate(r) ==
  /\ reports[r].late > 0
  /\ Arrives(r)
  /\ reports' = [reports EXCEPT ![r] = [reports[r] EXCEPT !.late = @ - 1, !.arrived = @ + 1]]
  /\ UNCHANGED overlapping

SendAgain(r) ==
  /\ reports[r].at = "backoff"
  /\ reports' = [reports EXCEPT ![r] = [reports[r] EXCEPT !.at = "sending", !.sent = @ + 1]]
  /\ UNCHANGED <<valet, overlapping>>

-----------------------------------------------------------------------------
CallbackInit == reports = <<>> /\ valet = "none" /\ overlapping = FALSE

\* sendWithRetry() of one report
SendWithRetry(r) == Acknowledged(r) \/ NotAcknowledged(r) \/ Aborted(r) \/ SendAgain(r)

CallbackNext ==
  \/ \E status \in CallbackStatuses : Notify(status)
  \/ \E r \in Reports : SendWithRetry(r) \/ ArrivesLate(r)

\* A timer ends each attempt and each delay.
CallbackFairness == \A r \in 1..MaxReports : WF_callbackVars(r \in Reports /\ SendWithRetry(r))
CallbackSpec == CallbackInit /\ [][CallbackNext]_callbackVars /\ CallbackFairness

CallbackReports ==
  [status : CallbackStatuses, at : {"sending", "backoff", "acknowledged", "given up"},
   sent : 1..(MAX_RETRIES + 1), arrived : Nat, late : Nat, ok : BOOLEAN]

\* The state has its types.
CallbackTypeOK ==
  /\ reports \in Seq(CallbackReports)
  /\ valet \in {"none"} \cup CallbackStatuses
  /\ overlapping \in BOOLEAN

\* Where the reports do not overlap, VALET's last word is that of the last report which
\* reached it: sending again must not bring back an old status.
LastWordIsLast ==
  (~overlapping /\ reports # <<>> /\ reports[Len(reports)].arrived > 0)
  => valet = Last

\* A report is not given up before its last attempt, nor sent more often; and VALET
\* hears of it no more often than it was sent.
AttemptsAddUp ==
  \A r \in Reports :
    /\ reports[r].arrived + reports[r].late <= reports[r].sent
    /\ (reports[r].at = "given up") => reports[r].sent = MAX_RETRIES + 1 /\ ~reports[r].ok

=============================================================================
