------------------------- MODULE SectionOrchestrator -------------------------
(***************************************************************************)
(* The page loop of the v3 engine (engine/v3/SectionOrchestrator.ts):      *)
(* sections one after the other, each field tried by layers that cost more *)
(* and more, new observations for the fields that a fill brings up, then   *)
(* the submit button or the next page.  Values and selectors are left out: *)
(* a field holds a value or not, and the layers that fill it (see V3Field) *)
(* read back that it does or fail, at any cost: MagnitudeHand charges what *)
(* the calls of its act() have cost, and an attempt that throws its        *)
(* layer's estimate too.                                                   *)
(***************************************************************************)
EXTENDS Integers, FiniteSets

CONSTANTS
  SectionOf,      (* [field -> section number]; 0: brought up by fills only *)
  Shifting,       (* fields whose fingerprint may change while others come  *)
                  (* and go: it has their place (domOrdinal)                *)
  LastSection,    (* number of sections on a page                           *)
  MostCharged,    (* bound: the cost of one action, or of one click         *)
  MaxPasses,      (* MAX_CONDITIONAL_DEPTH                                  *)
  MaxStuck,       (* MAX_STUCK_COUNT                                        *)
  MaxOrchPages,   (* MAX_PAGES                                              *)
  RunBudget       (* ctx.budgetRemaining at the start                       *)

VARIABLES
  orch,           (* where run() is, with its counters                      *)
  left,           (* ctx.budgetRemaining                                    *)
  cost,           (* of the page, not yet taken from it                     *)
  charged,        (* history: what the last action cost, and the click, if  *)
                  (* there was one since                                    *)
  todo,           (* fields whose actions are planned                       *)
  won,            (* fields verified since `todo' was planned               *)
  seen,           (* fields that the page's first observation found empty   *)
  full,           (* fields that hold a value                               *)
  known,          (* knownFieldFingerprints                                 *)
  tries           (* history: how often each field was worked on, this page *)

fieldVars == <<todo, won, seen, full, known, tries>>
orchVars == <<orch, left, cost, charged, fieldVars>>

OrchFields == DOMAIN SectionOf
Untried == [f \in OrchFields |-> 0]
\* Conditional fields are on the page once something holds a value.
Visible == {f \in OrchFields : SectionOf[f] > 0 \/ full # {}}

GoOn(pc) == orch' = [orch EXCEPT !.pc = pc]
NextSection == orch' = [orch EXCEPT !.pc = "section", !.section = @ + 1]
End(how) == orch' = [orch EXCEPT !.pc = "end", !.result = how]

Charges == 0..MostCharged

ASSUME OrchAssumption ==
  /\ SectionOf \in [OrchFields -> Nat] /\ IsFiniteSet(OrchFields) /\ LastSection \in Nat
  /\ MaxPasses \in Nat \ {0} /\ MaxStuck \in Nat \ {0} /\ MaxOrchPages \in Nat
  /\ RunBudget \in Nat \ {0}
  /\ Shifting \subseteq OrchFields /\ MostCharged \in Nat

-----------------------------------------------------------------------------
\* Mutant: a page that the run has been on before is not counted.
NextPageUncounted ==
  /\ orch.pc = "page" /\ orch.page < MaxOrchPages
  /\ \/ ~orch.same /\ orch' = [orch EXCEPT !.pc = "observe", !.stuck = 0]
     \/ orch.same /\ orch.stuck + 1 < MaxStuck /\ orch' = [orch EXCEPT !.pc = "observe", !.stuck = @ + 1]
  /\ UNCHANGED <<left, cost, charged, fieldVars>>

\* Head of the loop: the URL and the fields tell whether the page is a new one.
NextPage ==
  /\ orch.pc = "page" /\ orch.page < MaxOrchPages
  /\ \/ ~orch.same /\ orch' = [orch EXCEPT !.pc = "observe", !.page = @ + 1, !.stuck = 0]
     \/ orch.same /\ orch.stuck + 1 < MaxStuck
        /\ orch' = [orch EXCEPT !.pc = "observe", !.page = @ + 1, !.stuck = @ + 1]
  /\ UNCHANGED <<left, cost, charged, fieldVars>>

NoMorePages ==
  /\ orch.pc = "page"
  /\ \/ orch.page = MaxOrchPages /\ End("too many pages")
     \/ orch.page < MaxOrchPages /\ orch.same /\ orch.stuck + 1 >= MaxStuck /\ End("stuck")
  /\ UNCHANGED <<left, cost, charged, fieldVars>>

\* The DOM is observed for free; a captcha or a login ends the run.
Observe ==
  /\ orch.pc = "observe"
  /\ IF left <= 0 THEN End("exhausted")
     ELSE orch' = [orch EXCEPT !.pc = "section", !.section = 1] \/ End("blocked")
  /\ seen' = Visible \ full /\ known' = {} /\ tries' = Untried
  /\ UNCHANGED <<left, cost, charged, todo, won, full>>

\* A section's actions are planned from the first observation; hidden fields are
\* pruned, and fields without a match left alone.
PlanSection ==
  /\ orch.pc = "section" /\ orch.section <= LastSection
  /\ todo' \in SUBSET {f \in seen : SectionOf[f] = orch.section}
  /\ won' = {}
  /\ IF todo' = {} THEN NextSection ELSE GoOn("act")
  /\ UNCHANGED <<left, cost, charged, seen, full, known, tries>>

\* executeWithEscalation: one field, through the layers.
Work(f, success) ==
  /\ \E c \in Charges : cost' = cost + c /\ charged' = c
  /\ todo' = todo \ {f}
  /\ tries' = [tries EXCEPT ![f] = @ + 1]
  /\ IF success
     THEN won' = won \cup {f} /\ full' = full \cup {f}
     ELSE won' = won /\ full' \in {full, full \cup {f}}
  /\ orch' = [orch EXCEPT !.verified = @ \/ success]
  /\ UNCHANGED <<left, seen, known>>

Act ==
  /\ orch.pc = "act" /\ left - cost > 0
  /\ \E f \in todo, success \in BOOLEAN : Work(f, success)

ActExhausted ==
  /\ orch.pc = "act" /\ todo # {} /\ left - cost <= 0
  /\ End("exhausted") /\ left' = left - cost /\ cost' = 0
  /\ UNCHANGED <<charged, fieldVars>>

SectionEnds ==
  /\ orch.pc = "act" /\ todo = {}
  /\ known' = known \cup won
  /\ IF won = {} THEN NextSection ELSE orch' = [orch EXCEPT !.pc = "discover", !.pass = 1]
  /\ UNCHANGED <<left, cost, charged, todo, won, seen, full, tries>>

\* Mutant: what was discovered is not remembered.
DiscoverForgets ==
  /\ orch.pc = "discover"
  /\ todo' \in SUBSET ((Visible \ known) \ full)
  /\ won' = {} /\ known' = known
  /\ IF todo' = {} THEN NextSection ELSE GoOn("pass")
  /\ UNCHANGED <<left, cost, charged, seen, full, tries>>

\* Every field whose fingerprint is not known is new, those of later sections too; it is
\* worked on if it is empty and has a match.  An observation that fails ends the discovery.
Discover ==
  /\ orch.pc = "discover"
  /\ todo' \in SUBSET ((Visible \ (known \ Shifting)) \ full)
  /\ won' = {} /\ known' \in {known \cup Visible} \cup (IF todo' = {} THEN {known} ELSE {})
  /\ IF todo' = {} THEN NextSection ELSE GoOn("pass")
  /\ UNCHANGED <<left, cost, charged, seen, full, tries>>

\* Mutant: the guard looks at the cost of the discovery only.
PassActUnguarded ==
  /\ orch.pc = "pass" /\ left > 0
  /\ \E f \in todo, success \in BOOLEAN : Work(f, success)

PassAct ==
  /\ orch.pc = "pass" /\ left - cost > 0
  /\ \E f \in todo, success \in BOOLEAN : Work(f, success)

\* All done, or the budget is: the page goes on either way.
PassEnds ==
  /\ orch.pc = "pass" /\ (todo = {} \/ left - cost <= 0)
  /\ IF won # {} /\ orch.pass < MaxPasses
     THEN orch' = [orch EXCEPT !.pc = "discover", !.pass = @ + 1]
     ELSE NextSection
  /\ UNCHANGED <<left, cost, charged, fieldVars>>

-----------------------------------------------------------------------------
\* The page has a submit button only, and something was filled on the way here.
ClickSubmit ==
  /\ orch.pc = "section" /\ orch.section > LastSection /\ orch.verified
  /\ \E c \in Charges : left' = left - cost - c /\ charged' = charged + c
  /\ cost' = 0
  /\ End("success") \/ End("not submitted")
  /\ UNCHANGED fieldVars

\* The click led to another page, to something taken for one, or nowhere.
Navigate ==
  /\ orch.pc = "section" /\ orch.section > LastSection
  /\ \E c \in Charges : left' = left - cost - c /\ charged' = charged + c
  /\ cost' = 0
  /\ \/ orch' = [orch EXCEPT !.pc = "page", !.same = FALSE]
        /\ full' \in SUBSET {f \in OrchFields : SectionOf[f] > 0}
     \/ orch' = [orch EXCEPT !.pc = "page", !.same = TRUE] /\ full' = full
     \/ End("not navigated") /\ full' = full
  /\ UNCHANGED <<todo, won, seen, known, tries>>

\* The browser is gone: the page's cost is never taken from the budget.
BrowserGone ==
  /\ orch.pc \in {"observe", "section", "discover"}
  /\ End("error")
  /\ UNCHANGED <<left, cost, charged, fieldVars>>

-----------------------------------------------------------------------------
OrchInit ==
  /\ orch = [pc |-> "page", page |-> 0, stuck |-> 0, same |-> FALSE, section |-> 1,
             pass |-> 1, verified |-> FALSE, result |-> "none"]
  /\ left = RunBudget /\ cost = 0 /\ charged = 0
  /\ todo = {} /\ won = {} /\ seen = {} /\ known = {} /\ tries = Untried
  /\ full \in SUBSET {f \in OrchFields : SectionOf[f] > 0}

OrchNext ==
  \/ NextPage \/ NoMorePages \/ Observe
  \/ PlanSection \/ Act \/ ActExhausted \/ SectionEnds
  \/ Discover \/ PassAct \/ PassEnds
  \/ ClickSubmit \/ Navigate \/ BrowserGone

-----------------------------------------------------------------------------
OrchStates ==
  [pc : {"page", "observe", "section", "act", "discover", "pass", "end"},
   page : 0..MaxOrchPages, stuck : 0..(MaxStuck - 1), same : BOOLEAN,
   section : 1..(LastSection + 1), pass : 1..MaxPasses, verified : BOOLEAN,
   result : {"none", "too many pages", "stuck", "exhausted", "blocked", "success",
             "not submitted", "not navigated", "error"}]

OrchTypeOK ==
  /\ orch \in OrchStates
  /\ left \in Int /\ cost \in Nat /\ charged \in Nat
  /\ {todo, won, seen, full, known} \subseteq SUBSET OrchFields
  /\ tries \in [OrchFields -> Nat]

\* The budget is looked at before each action, never before its layers or the way on: as
\* long as there are actions to take, what is overdrawn was charged by the last one, and by
\* the click on the page's button after it, whatever they cost and whoever runs them.
OverrunIsBounded == left - cost + charged > 0

\* However fields come and go, each costs its layers at most twice per page: in its own
\* section, and once where it was found new; one whose fingerprint changes is found new
\* again, but only once in each round of discovery.
TriesAreFew ==
  \A f \in OrchFields : tries[f] <= IF f \in Shifting THEN 1 + LastSection * MaxPasses ELSE 2

\* The most steps that a round over the fields takes, a section with its rounds of
\* discovery, and a page; and that the run has left where it is.
RoundSteps == Cardinality(OrchFields) + 2
SectionSteps == (MaxPasses + 1) * RoundSteps
PageSteps == LastSection * SectionSteps + 3
RoundsLeft ==
  CASE orch.pc = "act"      -> MaxPasses * RoundSteps + Cardinality(todo) + 1
    [] orch.pc = "discover" -> (MaxPasses - orch.pass) * RoundSteps + RoundSteps
    [] orch.pc = "pass"     -> (MaxPasses - orch.pass) * RoundSteps + Cardinality(todo) + 1
SectionsLeft ==
  CASE orch.pc = "page"    -> 1
    [] orch.pc = "observe" -> PageSteps
    [] orch.pc = "section" -> (LastSection + 1 - orch.section) * SectionSteps + 2
    [] OTHER               -> (LastSection - orch.section) * SectionSteps + 2 + RoundsLeft
StepsLeft ==
  IF orch.pc = "end" THEN 0 ELSE (MaxOrchPages - orch.page) * PageSteps + SectionsLeft

\* A run ends by itself: over discoveries that feed on each other, pages that come again
\* and fields that come and go, each of its steps leaves fewer to take.
RunsOut == [][StepsLeft' \in Nat /\ StepsLeft' < StepsLeft]_orchVars
=============================================================================
