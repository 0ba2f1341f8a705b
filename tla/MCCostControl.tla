---------------------------- MODULE MCCostControl ----------------------------
(***************************************************************************)
(* CostControl on a small instance: a job type whose budget override is    *)
(* above what the preflight asks for, an agent job, two workers and a turn *)
(* of the month.                                                           *)
(***************************************************************************)
EXTENDS CostControl, TLC

CONSTANTS MaxJobs,      (* bound: executions begun in a behaviour            *)
          apply, agent  (* the Kinds                                         *)

VARIABLE begun

AskedFor == [k \in Kinds |-> 1]
Enforced == apply :> 2 @@ agent :> 1

Symmetry == Permutations(Workers)

mcvars == <<vars, begun>>

MCInit == Init /\ begun = 0
MCNext ==
  \/ begun < MaxJobs /\ Begins /\ begun' = begun + 1
  \/ Continues /\ UNCHANGED begun

MCSpec == MCInit /\ [][MCNext]_mcvars
=============================================================================
