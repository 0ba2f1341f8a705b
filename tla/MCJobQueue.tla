----------------------------- MODULE MCJobQueue -----------------------------
(***************************************************************************)
(* JobQueue on small instances.  Disturbances (cancellations, API retries, *)
(* deregistrations, shutdowns, crashes, lost heartbeats) are counted and   *)
(* bounded; everything the workers do by themselves is not.                *)
(***************************************************************************)
EXTENDS JobQueue, TLC

CONSTANTS MaxDisturbances,   (* bound: disturbances in a behaviour           *)
          w1, w2             (* two of the Workers                           *)

VARIABLE disturbances

AnyAffinity == [j \in Jobs |-> "any"]
PreferredAffinity == [j \in Jobs |-> "preferred"]
NoTarget == [j \in Jobs |-> NoWorker]
TargetW2 == [j \in Jobs |-> w2]

\* Sound where all jobs have the same affinity and target.
Symmetry == Permutations(Attempts) \cup Permutations(Workers) \cup Permutations(Jobs)

mcvars == <<vars, disturbances>>

MCInit == Init /\ disturbances = 0
MCNext ==
  \/ Routine /\ UNCHANGED disturbances
  \/ /\ disturbances < MaxDisturbances
     /\ Disturbance
     /\ disturbances' = disturbances + 1

MCSpec == MCInit /\ [][MCNext]_mcvars
MCFairSpec == MCSpec /\ Fairness
=============================================================================
