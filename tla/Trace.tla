------------------------------- MODULE Trace --------------------------------
(***************************************************************************)
(* The recording of a run (engine/TraceRecorder.ts).  For a click the page *)
(* is asked which element is at its place, and nobody awaits the answer;   *)
(* keys are recorded at once, for the element last clicked.  An element is *)
(* the number of the click it was looked up for; 0 is the body.            *)
(***************************************************************************)
EXTENDS Naturals, Sequences

CONSTANT MaxEvents      (* bound: actionDone events *)

ASSUME TraceAssumption == MaxEvents \in Nat

VARIABLES
  events,     (* history: the kinds of actions done, in order              *)
  asked,      (* lookups on their way: the event, and steps.length by then *)
  lastClick,  (* lastClickInfo                                             *)
  steps,      (* the steps recorded, with (history) the event of each      *)
  recorder    (* "on", "off"                                               *)

traceVars == <<events, asked, lastClick, steps, recorder>>

\* "type" and "press" need no lookup; "move" is one that is not recorded.
ActionKinds == {"click", "scroll", "type", "press", "load", "move"}
Push(order, action, locator, e) ==
  steps' = Append(steps, [order |-> order, action |-> action, locator |-> locator, of |-> e])

-----------------------------------------------------------------------------
Happens(kind) == Len(events) < MaxEvents /\ events' = Append(events, kind)

\* handleActionDone(), as far as it gets before an await.
ActionDone(kind) ==
  /\ Happens(kind)
  /\ IF recorder = "off" \/ kind = "move" \/ (kind = "type" /\ lastClick = 0)
       THEN UNCHANGED <<asked, steps>>
       ELSE IF kind \in {"click", "scroll"}
         THEN asked' = asked \cup {[of |-> Len(events'), length |-> Len(steps)]} /\ UNCHANGED steps
         ELSE /\ Push(Len(steps), kind, IF kind = "load" THEN 0 ELSE lastClick, Len(events'))
              /\ UNCHANGED asked
  /\ UNCHANGED <<lastClick, recorder>>

\* Mutant: the step's number is taken before the page is asked.
LookedUpEarly(q) ==
  /\ q \in asked /\ asked' = asked \ {q}
  /\ Push(q.length, events[q.of], q.of, q.of)
  /\ lastClick' = IF events[q.of] = "click" THEN q.of ELSE lastClick
  /\ UNCHANGED <<events, recorder>>

\* No element, or a page that is gone: the action is left out.
LookedUp(q) ==
  /\ q \in asked /\ asked' = asked \ {q}
  /\ \/ /\ Push(Len(steps), events[q.of], q.of, q.of)
        /\ lastClick' = IF events[q.of] = "click" THEN q.of ELSE lastClick
     \/ UNCHANGED <<steps, lastClick>>
  /\ UNCHANGED <<events, recorder>>

\* Lookups on their way still record.
StopRecording ==
  /\ recorder = "on"
  /\ recorder' = "off"
  /\ UNCHANGED <<events, asked, lastClick, steps>>

-----------------------------------------------------------------------------
TraceInit ==
  /\ events = <<>> /\ asked = {} /\ lastClick = 0 /\ steps = <<>> /\ recorder = "on"

TraceNext ==
  \/ \E kind \in ActionKinds : ActionDone(kind)
  \/ \E q \in asked : LookedUp(q)
  \/ StopRecording

TraceSpec == TraceInit /\ [][TraceNext]_traceVars

-----------------------------------------------------------------------------
TraceSteps == [order : 0..MaxEvents, action : ActionKinds, locator : 0..MaxEvents, of : 1..MaxEvents]

TraceTypeOK ==
  /\ events \in Seq(ActionKinds)
  /\ asked \subseteq [of : 1..MaxEvents, length : 0..MaxEvents]
  /\ lastClick \in 0..MaxEvents
  /\ steps \in Seq(TraceSteps)
  /\ recorder \in {"on", "off"}

\* In whatever order the lookups are answered, a replay, which sorts by "order", plays
\* the steps as they were recorded: the numbers have no gap and no double, no action
\* is recorded twice, and text goes to an element that had been clicked before.
TraceIsReplayable ==
  \A k \in DOMAIN steps :
    /\ steps[k].order = k - 1
    /\ \A l \in DOMAIN steps : steps[l].of = steps[k].of => l = k
    /\ steps[k].action = "type" => steps[k].locator \in 1..(steps[k].of - 1)
=============================================================================
