------------------------------ MODULE Progress ------------------------------
(***************************************************************************)
(* What a job tells of its progress (workers/progressTracker.ts, as the    *)
(* executor, the handler and the agent's events call it).  Each report     *)
(* goes to a Redis stream and then into gh_job_events.  The executor and   *)
(* the handler await their reports, the listeners of the agent's events    *)
(* do not; a handler that ran out of time, and an act that did, go on      *)
(* while the executor ends the job.                                        *)
(***************************************************************************)
EXTENDS Integers, Sequences, Functions

CONSTANTS
  MaxAgentActions, (* bound: actions of the agent                           *)
  MaxHandlerSteps, (* bound: setStep() by the handler                       *)
  MaxEmits,        (* bound: emits under way when another action begins     *)
  ActionEstimate,  (* estimatedTotalActions                                 *)
  WithRedis,       (* whether the tracker has a Redis client                *)
  HandlerSteps,    (* the steps a handler sets                              *)
  Variants,        (* the agent's actions: "click" (or type, ...), "goto", ... *)
  Thoughts         (* what its latest thought speaks of: "resume", "submit", *)
                   (* "question", "review", "navigate", "none"              *)

VARIABLES
  progress,  (* ProgressTracker: currentStep, actionIndex,                  *)
             (* whether the last emit was within throttleMs, pendingEmit    *)
  emits,     (* the emits under way, in the order they were made            *)
  said,      (* history: what the last of all emits said                    *)
  streamed,  (* the last entry of the stream, and whether one since failed  *)
  stored,    (* the ends told in gh_job_events, and those whose write failed *)
  flow       (* the executor: where it is, the step it ends with, ...       *)

progressVars == <<progress, emits, said, streamed, stored, flow>>

STEP_ORDER ==
  <<"queued", "initializing", "navigating", "analyzing", "filling", "uploading",
    "answering", "reviewing", "submitting", "extracting", "awaiting", "completed">>
ProgressSteps == Range(STEP_ORDER) \cup {"failed"}
EndSteps == {"completed", "awaiting", "failed"}

\* That a job has completed or failed only the executor says.
ASSUME ProgressAssumption ==
  /\ ActionEstimate \in Nat \ {0} /\ WithRedis \in BOOLEAN
  /\ MaxAgentActions \in Nat /\ MaxHandlerSteps \in Nat
  /\ HandlerSteps \subseteq ProgressSteps \ {"completed", "failed"}

\* indexOf(): the failed step is in no place.
Place(step) == IF step = "failed" THEN -1
               ELSE (CHOOSE i \in 1..Len(STEP_ORDER) : STEP_ORDER[i] = step) - 1

\* inferStepFromAction()
InferStep(variant, thought, step) ==
  CASE variant = "upload" \/ thought = "resume" -> "uploading"
    [] variant # "upload" /\ thought = "submit" -> "submitting"
    [] variant # "upload" /\ thought = "question" -> "answering"
    [] variant # "upload" /\ thought = "review" -> "reviewing"
    [] thought = "navigate" \/ (variant = "goto" /\ thought = "none") -> "navigating"
    [] variant = "click" /\ thought = "none" /\ Place(step) < Place("filling") -> "filling"
    [] OTHER -> step

\* calculatePct(): six tenths by the step, four by the actions, rounded.
Percent(step, index) ==
  LET whole == Len(STEP_ORDER) - 1
      done == IF index < ActionEstimate THEN index ELSE ActionEstimate
      place == IF step = "failed" THEN 0 ELSE Place(step)
      pct == (2 * (60 * place * ActionEstimate + 40 * done * whole) + whole * ActionEstimate)
               \div (2 * whole * ActionEstimate)
  IN IF step = "completed" THEN 100 ELSE IF pct < 99 THEN pct ELSE 99

Snapshot(p) == [step |-> p.step, index |-> p.index]
Awaited(caller) == \A i \in 1..Len(emits) : emits[i].by # caller

-----------------------------------------------------------------------------
\* emit(), up to its first await.
Emit(p, caller) ==
  /\ progress' = [p EXCEPT !.recent = TRUE, !.pending = FALSE]
  /\ emits' = Append(emits, [says |-> Snapshot(p), by |-> caller,
                             at |-> IF WithRedis THEN "redis" ELSE "row"])
  /\ said' = Snapshot(p)

SetStep(step, caller) == Emit([progress EXCEPT !.step = step], caller)

\* Mutant: what comes within throttleMs is dropped.
EmitOrDrop(p) ==
  IF p.recent THEN progress' = p /\ UNCHANGED <<emits, said>> ELSE Emit(p, "event")

\* The snapshot kept is never sent: whoever emits next takes a new one.
EmitThrottled(p) ==
  IF p.recent THEN progress' = [p EXCEPT !.pending = TRUE] /\ UNCHANGED <<emits, said>>
  ELSE Emit(p, "event")

\* The agent acts; its listeners do not await the tracker.  The latest thought is any.
\* Mutant: the step is the one the action suggests, be it behind the current one.
OnActionStartedAnew(variant, thought) ==
  /\ flow.act = "idle" /\ progress.index < MaxAgentActions /\ Len(emits) < MaxEmits
  /\ EmitThrottled([progress EXCEPT !.index = @ + 1,
                                    !.step = InferStep(variant, thought, @)])
  /\ flow' = [flow EXCEPT !.act = "doing"]
  /\ UNCHANGED <<streamed, stored>>

OnActionStarted(variant, thought) ==
  LET inferred == InferStep(variant, thought, progress.step)
      step == IF Place(inferred) > Place(progress.step) THEN inferred ELSE progress.step
  IN /\ flow.act = "idle" /\ progress.index < MaxAgentActions /\ Len(emits) < MaxEmits
     /\ EmitThrottled([progress EXCEPT !.index = @ + 1, !.step = step])
     /\ flow' = [flow EXCEPT !.act = "doing"]
     /\ UNCHANGED <<streamed, stored>>

OnActionDone ==
  /\ flow.act = "doing"
  /\ EmitThrottled(progress)
  /\ flow' = [flow EXCEPT !.act = "idle"]
  /\ UNCHANGED <<streamed, stored>>

ThrottleEnds ==
  /\ progress.recent /\ progress' = [progress EXCEPT !.recent = FALSE]
  /\ UNCHANGED <<emits, said, streamed, stored, flow>>

-----------------------------------------------------------------------------
\* XADD: one connection, in the order of the calls.  A failure is logged.
XAdd(i) ==
  /\ i \in 1..Len(emits) /\ emits[i].at = "redis"
  /\ \A k \in 1..(i - 1) : emits[k].at # "redis"
  /\ emits' = [emits EXCEPT ![i].at = "row"]
  /\ streamed' \in {[says |-> emits[i].says, missed |-> FALSE], [streamed EXCEPT !.missed = TRUE]}
  /\ UNCHANGED <<progress, said, stored, flow>>

\* The insert into gh_job_events: a request of its own, and answered in any order.
InsertRow(i) ==
  /\ i \in 1..Len(emits) /\ emits[i].at = "row"
  /\ emits' = [k \in 1..(Len(emits) - 1) |-> IF k < i THEN emits[k] ELSE emits[k + 1]]
  /\ LET end == {emits[i].says.step} \cap EndSteps
     IN stored' \in {[stored EXCEPT !.told = @ \cup end], [stored EXCEPT !.missed = @ \cup end]}
  /\ UNCHANGED <<progress, said, streamed, flow>>

-----------------------------------------------------------------------------
\* The executor's own thread.
InitializingStep ==
  /\ flow.pc = "queued" /\ SetStep("initializing", "executor")
  /\ flow' = [flow EXCEPT !.pc = "initializing"]
  /\ UNCHANGED <<streamed, stored>>

NavigatingStep ==
  /\ flow.pc = "initializing" /\ Awaited("executor")
  /\ SetStep("navigating", "executor")
  /\ flow' = [flow EXCEPT !.pc = "navigating"]
  /\ UNCHANGED <<streamed, stored>>

\* A failed preflight or validation, and a resume by a human after an error, say no more.
LeaveSilently ==
  /\ flow.pc \in {"queued", "initializing", "handling"} /\ Awaited("executor")
  /\ \E left \in (IF flow.pc = "handling" THEN BOOLEAN ELSE {FALSE}) :
       /\ left \/ Awaited("handler")
       /\ flow' = [flow EXCEPT !.pc = "over", !.left = left]
  /\ UNCHANGED <<progress, emits, said, streamed, stored>>

\* The listeners are set up, and the handler is called.
Delegate ==
  /\ flow.pc = "navigating" /\ Awaited("executor")
  /\ flow' = [flow EXCEPT !.pc = "handling", !.act = "idle"]
  /\ UNCHANGED <<progress, emits, said, streamed, stored>>

HandlerStep(step) ==
  /\ flow.pc = "handling" \/ flow.left
  /\ Awaited("handler") /\ flow.steps < MaxHandlerSteps
  /\ SetStep(step, "handler")
  /\ flow' = [flow EXCEPT !.steps = @ + 1]
  /\ UNCHANGED <<streamed, stored>>

\* The result, of the cookbook or of the handler.
Succeed(end) ==
  /\ \/ flow.pc = "navigating" /\ end = "completed"
     \/ flow.pc = "handling" /\ Awaited("handler")
  /\ Awaited("executor")
  /\ SetStep(end, "executor")
  /\ flow' = [flow EXCEPT !.pc = "ending", !.end = end]
  /\ UNCHANGED <<streamed, stored>>

\* An error, a cancellation, or the race that the handler lost: it goes on.
Fail ==
  /\ flow.pc \in {"initializing", "navigating", "handling"} /\ Awaited("executor")
  /\ SetStep("failed", "executor")
  /\ \E left \in (IF flow.pc = "handling" THEN BOOLEAN ELSE {FALSE}) :
       /\ left \/ Awaited("handler")
       /\ flow' = [flow EXCEPT !.pc = "ending", !.end = "failed", !.left = left]
  /\ UNCHANGED <<streamed, stored>>

\* Mutant: the end of the job is not awaited.
FlushAtOnce ==
  /\ flow.pc \in {"ending", "flushing"}
  /\ flow' = [flow EXCEPT !.pc = "over"]
  /\ UNCHANGED <<progress, emits, said, streamed, stored>>

\* flush(); the time the stream has to live is left out.
Flush ==
  /\ flow.pc \in {"ending", "flushing"} /\ Awaited("executor")
  /\ IF flow.pc = "ending" /\ progress.pending
       THEN Emit(progress, "executor") /\ flow' = [flow EXCEPT !.pc = "flushing"]
       ELSE flow' = [flow EXCEPT !.pc = "over"] /\ UNCHANGED <<progress, emits, said>>
  /\ UNCHANGED <<streamed, stored>>

\* The end is written to the row, and the browser closed, unless a user is to review.
StopAdapter ==
  /\ flow.pc = "over" /\ flow.end # "awaiting"
  /\ flow' = [flow EXCEPT !.pc = "stopped", !.act = "none"]
  /\ UNCHANGED <<progress, emits, said, streamed, stored>>

HandlerGivesUp ==
  /\ flow.left /\ Awaited("handler")
  /\ flow' = [flow EXCEPT !.left = FALSE]
  /\ UNCHANGED <<progress, emits, said, streamed, stored>>

-----------------------------------------------------------------------------
ProgressInit ==
  /\ progress = [step |-> "queued", index |-> 0,
                 recent |-> FALSE, pending |-> FALSE]
  /\ emits = <<>> /\ said = Snapshot(progress)
  /\ streamed = [says |-> said, missed |-> FALSE]
  /\ stored = [told |-> {}, missed |-> {}]
  /\ flow = [pc |-> "queued", end |-> "none", steps |-> 0, act |-> "none", left |-> FALSE]

ProgressNext ==
  \/ \E variant \in Variants, thought \in Thoughts : OnActionStarted(variant, thought)
  \/ OnActionDone \/ ThrottleEnds
  \/ \E i \in 1..Len(emits) : XAdd(i) \/ InsertRow(i)
  \/ InitializingStep \/ NavigatingStep \/ Delegate
  \/ \E step \in HandlerSteps : HandlerStep(step)
  \/ \E end \in {"completed", "awaiting"} : Succeed(end)
  \/ Fail \/ LeaveSilently \/ Flush \/ StopAdapter \/ HandlerGivesUp

ProgressSpec == ProgressInit /\ [][ProgressNext]_progressVars

Snapshots == [step : ProgressSteps, index : 0..MaxAgentActions]
ProgressStates == [step : ProgressSteps, index : 0..MaxAgentActions, recent : BOOLEAN, pending : BOOLEAN]
EmitStates == [says : Snapshots, by : {"executor", "handler", "event"}, at : {"redis", "row"}]
FlowStates ==
  [pc : {"queued", "initializing", "navigating", "handling", "ending", "flushing", "over", "stopped"},
   end : {"none"} \cup EndSteps, steps : 0..MaxHandlerSteps, act : {"none", "idle", "doing"}, left : BOOLEAN]

\* The state has its types.
ProgressTypeOK ==
  /\ progress \in ProgressStates /\ emits \in Seq(EmitStates) /\ said \in Snapshots
  /\ streamed \in [says : Snapshots, missed : BOOLEAN]
  /\ stored \in [told : SUBSET EndSteps, missed : SUBSET EndSteps]
  /\ flow \in FlowStates

\* What is not yet said of step and actions is marked pending, for the flush to say: a
\* report within the two seconds of the throttle must not vanish.
NothingIsWithheld == ~progress.pending => said = Snapshot(progress)

\* Whoever reads the stream has the present state, once all that was said is through.
StreamIsCurrent ==
  (WithRedis /\ ~progress.pending /\ ~streamed.missed
     /\ \A i \in 1..Len(emits) : emits[i].at = "row")
  => streamed.says = Snapshot(progress)

\* When the executor goes on to end the row, the timeline has the end, unless a write failed.
EndIsStored ==
  (flow.pc \in {"over", "stopped"} /\ flow.end # "none")
  => flow.end \in stored.told \cup stored.missed

\* A completed job's progress stays, whatever an act left behind tells; a failed one's
\* may leave the failed step only by an act or a handler that goes on.
EndStays ==
  /\ (progress.step = "completed") => progress'.step = "completed"
  /\ (progress.step = "failed" /\ progress'.step # "failed") => flow.act # "none" \/ flow.left
EndIsFinal == [][EndStays]_progressVars

\* The percentage falls only where the step goes back, which only setStep() does.
PercentFalls ==
  Percent(progress'.step, progress'.index) < Percent(progress.step, progress.index)
  => /\ Place(progress'.step) < Place(progress.step)
     /\ Len(emits') > Len(emits) /\ emits'[Len(emits')].by # "event"
PercentKeepsUp == [][PercentFalls]_progressVars
=============================================================================
