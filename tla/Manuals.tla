------------------------------ MODULE Manuals -------------------------------
(***************************************************************************)
(* Manuals: recorded runs that later jobs replay without an LLM            *)
(* (engine/ManualStore.ts, ExecutionEngine.ts, CookbookExecutor.ts, and    *)
(* the recording in workers/JobExecutor.ts).  Jobs of several workers, for *)
(* the same kind of page, share the manuals' rows: each outcome is a read, *)
(* and a write computed from what was read.  The Supabase client reports   *)
(* failures, which are not looked at.                                      *)
(***************************************************************************)
EXTENDS Integers, FiniteSets

CONSTANTS
  Engines,            (* jobs at work                                        *)
  MaxManuals,         (* bound: rows                                         *)
  MaxOutcomes,        (* bound: outcomes recorded for a manual               *)
  Steps,              (* bound: steps of a manual                            *)
  MaxHealth, Bonus, Penalty, SeverePenalty, SevereAfter,
  MinUsable           (* MIN_HEALTH_THRESHOLD                                *)

ASSUME ManualAssumption ==
  /\ IsFiniteSet(Engines) /\ Engines # {}
  /\ {MaxManuals, MaxOutcomes, Steps, Bonus, SeverePenalty, SevereAfter, MinUsable} \subseteq Nat
  /\ MaxHealth \in Nat /\ Penalty \in Nat /\ Penalty < MaxHealth /\ Penalty <= SeverePenalty

VARIABLES
  manual,     (* gh_action_manuals: health and counters; 0 health: no row  *)
  engine,     (* what each job is doing with which manual                  *)
  outcome     (* history: how the replays of each manual really ended      *)

manualVars == <<manual, engine, outcome>>

Ids == 1..MaxManuals
NoRow == [health |-> 0, successes |-> 0, failures |-> 0, start |-> 0]
Off == [pc |-> "off", id |-> 0, step |-> 0, read |-> NoRow]
Exists(i) == manual[i].start > 0
Living == {i \in Ids : manual[i].health > 0}

EngineAt(e, pc) == engine' = [engine EXCEPT ![e].pc = pc]
Least(a, b) == IF a < b THEN a ELSE b
Most(a, b) == IF a > b THEN a ELSE b
Outcomes(i) == outcome[i].good + outcome[i].bad

-----------------------------------------------------------------------------
\* Mutant: any row will do.
LookupAny(e) ==
  /\ engine[e].pc = "off"
  /\ \/ \E i \in Living : engine' = [engine EXCEPT ![e] = [Off EXCEPT !.id = i, !.pc = "replay"]]
     \/ Living = {} /\ EngineAt(e, "handler")
  /\ UNCHANGED <<manual, outcome>>

\* The healthiest row; too low a health, or none, is the handler's.
Lookup(e) ==
  /\ engine[e].pc = "off"
  /\ \/ \E i \in Living :
          /\ \A k \in Living : manual[k].health <= manual[i].health
          /\ engine' = [engine EXCEPT ![e] = [Off EXCEPT !.id = i,
               !.pc = IF manual[i].health > MinUsable THEN "replay" ELSE "handler"]]
     \/ Living = {} /\ EngineAt(e, "handler")
  /\ UNCHANGED <<manual, outcome>>

\* The steps are played in order, up to the first that fails.
ReplayStep(e) ==
  LET i == engine[e].id IN
  /\ engine[e].pc = "replay" /\ Outcomes(i) < MaxOutcomes
  /\ \/ engine[e].step < Steps /\ engine' = [engine EXCEPT ![e].step = @ + 1] /\ UNCHANGED outcome
     \/ engine[e].step = Steps /\ EngineAt(e, "success") /\ outcome' = [outcome EXCEPT ![i].good = @ + 1]
     \/ engine[e].step < Steps /\ EngineAt(e, "failure") /\ outcome' = [outcome EXCEPT ![i].bad = @ + 1]
  /\ UNCHANGED manual

\* getRow(); a failed read records nothing.
ReadRow(e) ==
  /\ engine[e].pc \in {"success", "failure"}
  /\ \/ engine' = [engine EXCEPT ![e].read = manual[engine[e].id],
         ![e].pc = IF @ = "success" THEN "raise" ELSE "lower"]
     \/ engine' = [engine EXCEPT ![e] = IF @.pc = "success" THEN Off ELSE [@ EXCEPT !.pc = "handler"]]
  /\ UNCHANGED <<manual, outcome>>

\* Mutant: a success makes up for everything.
RecordSuccessAfresh(e) ==
  LET r == engine[e].read IN
  /\ engine[e].pc = "raise"
  /\ manual' = [manual EXCEPT ![engine[e].id] =
       [@ EXCEPT !.successes = r.successes + 1, !.health = MaxHealth]]
  /\ engine' = [engine EXCEPT ![e] = Off]
  /\ UNCHANGED outcome

\* Mutant: the health is not capped.
RecordSuccessUncapped(e) ==
  LET r == engine[e].read IN
  /\ engine[e].pc = "raise"
  /\ manual' = [manual EXCEPT ![engine[e].id] =
       [@ EXCEPT !.successes = r.successes + 1, !.health = r.health + Bonus]]
  /\ engine' = [engine EXCEPT ![e] = Off]
  /\ UNCHANGED outcome

RecordSuccess(e) ==
  LET r == engine[e].read IN
  /\ engine[e].pc = "raise"
  /\ \/ manual' = [manual EXCEPT ![engine[e].id] =
         [@ EXCEPT !.successes = r.successes + 1, !.health = Least(MaxHealth, r.health + Bonus)]]
     \/ UNCHANGED manual                                    \* the write failed
  /\ engine' = [engine EXCEPT ![e] = Off]
  /\ UNCHANGED outcome

RecordFailure(e) ==
  LET r == engine[e].read
      penalty == IF r.failures + 1 > SevereAfter THEN SeverePenalty ELSE Penalty IN
  /\ engine[e].pc = "lower"
  /\ \/ manual' = [manual EXCEPT ![engine[e].id] =
         [@ EXCEPT !.failures = r.failures + 1, !.health = Most(0, r.health - penalty)]]
     \/ UNCHANGED manual
  /\ EngineAt(e, "handler")
  /\ UNCHANGED outcome

\* The handler runs with a recorder; when it has not thrown, its trace, if there is
\* one, becomes a manual, beside those there are.
HandlerEnds(e) ==
  /\ engine[e].pc = "handler"
  /\ engine' = [engine EXCEPT ![e] = Off]
  /\ \/ \E i \in Ids :
          /\ ~Exists(i) /\ \A k \in 1..(i - 1) : Exists(k)
          /\ manual' = [manual EXCEPT ![i] = [NoRow EXCEPT !.health = MaxHealth, !.start = MaxHealth]]
     \/ UNCHANGED manual
  /\ UNCHANGED outcome

\* seedPlatform() of the action book: a manual that starts with less.
SaveFromActionBook(i) ==
  /\ ~Exists(i) /\ \A k \in 1..(i - 1) : Exists(k)
  /\ manual' = [manual EXCEPT ![i] = [NoRow EXCEPT !.health = MaxHealth - Penalty, !.start = MaxHealth - Penalty]]
  /\ UNCHANGED <<engine, outcome>>

-----------------------------------------------------------------------------
ManualInit ==
  /\ manual = [i \in Ids |-> NoRow]
  /\ engine = [e \in Engines |-> Off]
  /\ outcome = [i \in Ids |-> [good |-> 0, bad |-> 0]]

EngineStep(e) ==
  Lookup(e) \/ ReplayStep(e) \/ ReadRow(e) \/ RecordSuccess(e) \/ RecordFailure(e) \/ HandlerEnds(e)

ManualNext ==
  \/ \E e \in Engines : EngineStep(e)
  \/ \E i \in Ids : SaveFromActionBook(i)

ManualSpec == ManualInit /\ [][ManualNext]_manualVars

-----------------------------------------------------------------------------
Row == [health : 0..MaxHealth, successes : 0..MaxOutcomes, failures : 0..MaxOutcomes, start : 0..MaxHealth]

EngineStates == [pc : {"off", "replay", "success", "failure", "raise", "lower", "handler"},
                 id : 0..MaxManuals, step : 0..Steps, read : Row]

ManualTypeOK ==
  /\ manual \in [Ids -> Row]
  /\ engine \in [Engines -> EngineStates]
  /\ outcome \in [Ids -> [good : 0..MaxOutcomes, bad : 0..MaxOutcomes]]

\* Whatever updates the workers overwrite, a manual's record is never better or worse
\* than its replays: it counts none that did not happen, gained no more health than
\* its successes are worth and lost none without a failure.
HealthIsEarned ==
  \A i \in Ids :
    LET m == manual[i] IN
    /\ m.successes <= outcome[i].good
    /\ m.failures <= outcome[i].bad
    /\ m.health <= m.start + Bonus * outcome[i].good
    /\ m.health >= m.start - SeverePenalty * outcome[i].bad

Replays(i) == {e \in Engines : engine[e].id = i /\ engine[e].pc \notin {"off", "handler"}}

Retired(i) == Exists(i) /\ manual[i].health <= MinUsable /\ Replays(i) = {}

\* A manual that has become unfit for use stays so: replays that had begun before may
\* still bring it back, by an outcome computed from the row as it was read earlier,
\* but once they have ended nothing does, and no job begins another.
UnfitStaysUnfit == [][ \A i \in Ids : Retired(i) => Retired(i)' ]_manualVars
=============================================================================
