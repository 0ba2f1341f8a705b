------------------------------ MODULE CookbookV3 ------------------------------
(***************************************************************************)
(* The v3 engine (engine/v3/V3ExecutionEngine.ts) and its replay of a      *)
(* cookbook page (engine/v3/CookbookExecutorV3.ts): actions one after the  *)
(* other, by DOM and then by GUI, some of them skipped; the count at the   *)
(* end decides whether the layers are needed.                              *)
(***************************************************************************)
EXTENDS Integers

CONSTANTS
  MaxActions,     (* bound: actions of a cookbook page                      *)
  MaxInARow       (* DEFAULT_MAX_CONSECUTIVE_FAILURES                       *)

ASSUME CookbookAssumption == MaxActions \in Nat /\ MaxInARow \in Nat \ {0}

VARIABLES
  v3,         (* where execute() is: its mode, and how the job ends     *)
  total,          (* actions of the page                                    *)
  replay,         (* the counts of CookbookV3Result                         *)
  inARow          (* consecutiveFailures                                    *)

engineVars == <<v3, total, replay, inARow>>

Modes == {"auto", "hybrid", "ai_only", "cookbook_only"}
Nothing == [attempted |-> 0, succeeded |-> 0, failed |-> 0, skipped |-> 0, gui |-> 0]
Enter3(pc) == v3' = [v3 EXCEPT !.pc = pc]

\* Mutant: skips are not held against the page.
SufficesOfTried == replay.succeeded > 0 /\ 10 * replay.failed <= 3 * replay.succeeded

\* More than 3/4 attempted, at least one success, failures at most 3/10 of them.
Suffices ==
  /\ 4 * replay.attempted > 3 * total
  /\ replay.succeeded > 0
  /\ 10 * replay.failed <= 3 * replay.succeeded

-----------------------------------------------------------------------------
Start3 ==
  /\ v3.pc = "start"
  /\ Enter3(CASE v3.mode \in {"auto", "cookbook_only"} /\ v3.cookbook -> "replay"
              [] v3.mode = "cookbook_only" /\ ~v3.cookbook -> "failed"
              [] OTHER -> "layers")
  /\ UNCHANGED <<total, replay, inARow>>

More == v3.pc = "replay" /\ replay.attempted + replay.skipped < total /\ inARow < MaxInARow

\* Its health is too low, or the user data have no value for it.
SkipAction ==
  /\ More
  /\ replay' = [replay EXCEPT !.skipped = @ + 1]
  /\ UNCHANGED <<v3, total, inARow>>

\* Done by DOM, or by GUI, which costs.
ActionSucceeds ==
  /\ More
  /\ \E gui \in {0, 1} :
       replay' = [replay EXCEPT !.attempted = @ + 1, !.succeeded = @ + 1, !.gui = @ + gui]
  /\ inARow' = 0
  /\ UNCHANGED <<v3, total>>

ActionFails ==
  /\ More
  /\ replay' = [replay EXCEPT !.attempted = @ + 1, !.failed = @ + 1]
  /\ inARow' = inARow + 1
  /\ UNCHANGED <<v3, total>>

\* Too many failures in a row are no success, whatever the counts say.
ReplayEnds ==
  /\ v3.pc = "replay"
  /\ \/ inARow < MaxInARow /\ replay.attempted + replay.skipped = total /\ Suffices
        /\ Enter3("cookbook")
     \/ inARow < MaxInARow /\ replay.attempted + replay.skipped = total /\ ~Suffices
        /\ Enter3(IF v3.mode = "cookbook_only" THEN "failed" ELSE "layers")
     \/ inARow = MaxInARow /\ Enter3(IF v3.mode = "cookbook_only" THEN "failed" ELSE "layers")
  /\ UNCHANGED <<total, replay, inARow>>

\* The orchestrator has what the budget has left.
LayersEnd ==
  /\ v3.pc = "layers"
  /\ Enter3("orchestrated") \/ Enter3("failed")
  /\ UNCHANGED <<total, replay, inARow>>

-----------------------------------------------------------------------------
EngineInit ==
  /\ v3 \in [pc : {"start"}, mode : Modes, cookbook : BOOLEAN]
  /\ total \in 0..MaxActions
  /\ replay = Nothing
  /\ inARow = 0

EngineNext == Start3 \/ SkipAction \/ ActionSucceeds \/ ActionFails \/ ReplayEnds \/ LayersEnd

EngineSpec == EngineInit /\ [][EngineNext]_engineVars

-----------------------------------------------------------------------------
EngineTypeOK ==
  /\ v3 \in [pc : {"start", "replay", "layers", "cookbook", "orchestrated", "failed"},
                 mode : Modes, cookbook : BOOLEAN]
  /\ total \in 0..MaxActions
  /\ replay \in [attempted : Nat, succeeded : Nat, failed : Nat, skipped : Nat, gui : Nat]
  /\ inARow \in 0..MaxInARow

\* A replay that counts as success filled more than half of the page: neither skipped
\* actions nor failures may add up to the other half (CookbookExecutorV3.ts, "This
\* prevents half the page skipped from being treated as success").
MoreThanHalf == v3.pc = "cookbook" => 2 * replay.succeeded > total
=============================================================================
