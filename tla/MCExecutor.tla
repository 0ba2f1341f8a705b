----------------------------- MODULE MCExecutor -----------------------------
(***************************************************************************)
(* Executor on small instances.  A scenario is chosen at the start; each   *)
(* bounds what happens in another direction (see the README): two requests *)
(* for a human in one execution; a request, or a heartbeat, that outlives  *)
(* its execution; a cancellation or the death of a browser; browsers that  *)
(* failed starts and stops leave.                                          *)
(***************************************************************************)
EXTENDS Executor

CONSTANT Scenarios
VARIABLES scenario, disturbances

Scenario(ends, asks, beats, crashes, kept, outside) ==
  {[executions |-> ends, asks |-> asks, beats |-> beats, crashes |-> crashes,
    leaks |-> kept, disturbances |-> outside]}
TwoAsks == Scenario(1, <<2, 0>>, FALSE, 0, 1, 0)
LateCall == Scenario(2, <<1, 0>>, FALSE, 0, 0, 0)
LateBeat == Scenario(2, <<0, 0>>, TRUE, 1, 1, 0)
Disturbed == Scenario(1, <<1, 0>>, TRUE, 1, 0, 1)
LeftBehind == Scenario(1, <<0, 0>>, TRUE, 1, 2, 1)
AllScenarios == TwoAsks \cup LateCall \cup LateBeat \cup Disturbed \cup LeftBehind

mcvars == <<vars, scenario, disturbances>>
MCInit ==
  /\ Init /\ disturbances = 0
  /\ scenario \in Scenarios
  /\ row = [m \in Execs |-> IF m <= scenario.executions THEN "queued" ELSE "pending"]
MCNext ==
  /\ UNCHANGED scenario
  /\ \/ Routine /\ UNCHANGED disturbances
     \/ /\ disturbances < scenario.disturbances
        /\ Disturbance
        /\ disturbances' = disturbances + 1
  /\ x'.asks = (IF x'.n = 0 THEN 0 ELSE scenario.asks[x'.n])
  /\ x'.recoveries <= scenario.crashes
  /\ Cardinality(leaks') <= scenario.leaks
  /\ scenario.beats \/ beat' = NoBeat
MCSpec == MCInit /\ [][MCNext]_mcvars
MCFairSpec == MCSpec /\ Fairness
=============================================================================
