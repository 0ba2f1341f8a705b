---------------------------- MODULE EngineProofs ----------------------------
(***************************************************************************)
(* The execution engines: the v3 engine's page loop, its cookbook, its     *)
(* field layers and the turn of a page; the manuals and the recorded       *)
(* trace.                                                                  *)
(***************************************************************************)
EXTENDS SectionOrchestrator, CookbookV3, V3Field, PageTurn,
        Manuals, Trace, Sums, FiniteSetTheorems, TLAPS

-----------------------------------------------------------------------------
(* The page loop of the v3 engine: its budget is overdrawn by no more than *)
(* the last action and one click, and no field of a page costs it a third  *)
(* try, one whose fingerprint changes no more than a try in each round.    *)

\* At most one try of a field in its own section, and one where it was found new.
OwnTries(f) ==
  IF \/ SectionOf[f] < orch.section
     \/ SectionOf[f] = orch.section /\ (orch.pc \in {"discover", "pass"} \/ (orch.pc = "act" /\ f \notin todo))
  THEN 1 ELSE 0
NewTries(f) == IF f \in known /\ ~(orch.pc = "pass" /\ f \in todo) THEN 1 ELSE 0

\* The rounds of discovery in the sections before; and those in which a field has had its turn.
RoundsBefore(section) == (section - 1) * MaxPasses
RoundsOver(f) ==
  CASE orch.pc = "discover" -> RoundsBefore(orch.section) + (orch.pass - 1)
    [] orch.pc = "pass"     -> RoundsBefore(orch.section) + orch.pass - (IF f \in todo THEN 1 ELSE 0)
    [] OTHER                -> RoundsBefore(orch.section)
TurnsAreCounted ==
  \A f \in OrchFields :
    /\ tries[f] <= 1 + LastSection * MaxPasses
    /\ orch.pc \in {"section", "act", "discover", "pass"} => tries[f] <= OwnTries(f) + RoundsOver(f)

TriesAreCounted ==
  \A f \in OrchFields \ Shifting :
    /\ tries[f] <= 2
    /\ orch.pc \in {"section", "act", "discover", "pass"} => tries[f] <= OwnTries(f) + NewTries(f)

\* What is planned is of the section, or known by then.
PlannedIsOwn ==
  /\ orch.pc = "act" => \A f \in todo : SectionOf[f] = orch.section
  /\ orch.pc = "pass" => todo \subseteq known
  /\ orch.pc \in {"act", "discover", "pass"} => orch.section <= LastSection

\* Where the run is, how much is overdrawn.
BudgetLasts ==
  /\ orch.pc \in {"page", "observe"} => cost = 0
  /\ left - cost + charged > 0

\* The inductive invariant.
OrchInv == OrchTypeOK /\ TriesAreCounted /\ TurnsAreCounted /\ PlannedIsOwn /\ BudgetLasts

\* A section adds its rounds to those before it.
LEMMA RoundsAdd ==
  /\ LastSection * MaxPasses \in Nat
  /\ \A n \in 1..(LastSection + 1) : RoundsBefore(n) \in Nat /\ RoundsBefore(n) <= LastSection * MaxPasses
  /\ \A n \in 1..LastSection : RoundsBefore(n + 1) = RoundsBefore(n) + MaxPasses
<1>1. LastSection \in Nat /\ MaxPasses \in Nat
  BY OrchAssumption
<1>2. LastSection * MaxPasses \in Nat
  BY <1>1, Times
<1>3. ASSUME NEW n \in 1..(LastSection + 1)
      PROVE  RoundsBefore(n) \in Nat /\ RoundsBefore(n) <= LastSection * MaxPasses
  <2>1. PICK k \in Nat : k = n - 1 /\ k <= LastSection
    BY <1>1
  <2>2. k * MaxPasses \in Nat /\ k * MaxPasses <= LastSection * MaxPasses
    BY <1>1, <2>1, Times
  <2>. QED
    BY <2>1, <2>2, Zenon DEF RoundsBefore
<1>4. ASSUME NEW n \in 1..LastSection
      PROVE  RoundsBefore(n + 1) = RoundsBefore(n) + MaxPasses
  <2>1. PICK k \in Nat : k = n - 1 /\ k <= k /\ (n + 1) - 1 = k + 1
    BY <1>1
  <2>2. (k + 1) * MaxPasses = k * MaxPasses + MaxPasses
    BY <1>1, <2>1, Times
  <2>. QED
    BY <2>1, <2>2, Zenon DEF RoundsBefore
<1>. QED
  BY <1>2, <1>3, <1>4

\* The run starts with its whole budget and nothing planned.
LEMMA OrchStart == OrchInit => OrchInv
<1>. SUFFICES ASSUME OrchInit PROVE OrchInv
  OBVIOUS
<1>1. orch \in OrchStates /\ orch.pc = "page"
  <2>1. 0 \in 0..MaxOrchPages /\ 0 \in 0..(MaxStuck - 1) /\ 1 \in 1..(LastSection + 1) /\ 1 \in 1..MaxPasses
    BY OrchAssumption
  <2>2. orch = [pc |-> "page", page |-> 0, stuck |-> 0, same |-> FALSE, section |-> 1,
                pass |-> 1, verified |-> FALSE, result |-> "none"]
    BY DEF OrchInit
  <2>. QED
    BY <2>1, <2>2 DEF OrchStates
<1>2. left = RunBudget /\ cost = 0 /\ charged = 0 /\ tries \in [OrchFields -> Nat] /\ \A f \in OrchFields : tries[f] = 0
  BY DEF OrchInit, Untried
<1>3. {todo, won, seen, full, known} \subseteq SUBSET OrchFields
  BY DEF OrchInit
<1>4. OrchTypeOK
  BY <1>1, <1>2, <1>3, OrchAssumption DEF OrchTypeOK
<1>5. BudgetLasts
  BY <1>1, <1>2, OrchAssumption DEF BudgetLasts
<1>6. TurnsAreCounted
  BY <1>1, <1>2, RoundsAdd DEF TurnsAreCounted
<1>. QED
  BY <1>1, <1>2, <1>4, <1>5, <1>6 DEF OrchInv, TriesAreCounted, PlannedIsOwn

\* Every step of the page loop keeps OrchInv.
LEMMA OrchStep == OrchInv /\ [OrchNext]_orchVars => OrchInv'
<1>. SUFFICES ASSUME OrchInv, [OrchNext]_orchVars PROVE OrchInv'
  OBVIOUS
<1>t. /\ orch \in OrchStates /\ left \in Int /\ cost \in Nat /\ charged \in Nat /\ tries \in [OrchFields -> Nat]
      /\ todo \subseteq OrchFields /\ won \subseteq OrchFields /\ seen \subseteq OrchFields
      /\ full \subseteq OrchFields /\ known \subseteq OrchFields
  BY DEF OrchInv, OrchTypeOK
<1>o. /\ orch.page \in 0..MaxOrchPages /\ orch.stuck \in 0..(MaxStuck - 1) /\ orch.section \in 1..(LastSection + 1)
      /\ orch.pass \in 1..MaxPasses /\ orch.section \in Nat
      /\ orch.pc \in {"page", "observe", "section", "act", "discover", "pass", "end"}
  <2>1. /\ orch.page \in 0..MaxOrchPages /\ orch.stuck \in 0..(MaxStuck - 1) /\ orch.section \in 1..(LastSection + 1)
        /\ orch.pass \in 1..MaxPasses
        /\ orch.pc \in {"page", "observe", "section", "act", "discover", "pass", "end"}
    BY <1>t DEF OrchStates
  <2>2. orch.section \in Nat
    BY <2>1, OrchAssumption
  <2>. QED
    BY <2>1, <2>2
<1>n. /\ LastSection \in Nat /\ MaxPasses \in Nat /\ MaxPasses >= 1 /\ MaxStuck \in Nat /\ MaxStuck >= 1
      /\ MaxOrchPages \in Nat /\ Charges \subseteq Nat
      /\ \A f \in OrchFields : SectionOf[f] \in Nat
  BY OrchAssumption DEF Charges
<1>r. /\ orch.section <= LastSection => RoundsBefore(orch.section + 1) = RoundsBefore(orch.section) + MaxPasses
      /\ RoundsBefore(orch.section) \in Nat /\ RoundsBefore(orch.section) <= LastSection * MaxPasses
      /\ orch.section <= LastSection =>
           RoundsBefore(orch.section) + MaxPasses <= LastSection * MaxPasses
      /\ LastSection * MaxPasses \in Nat
  <2>1. orch.section <= LastSection => orch.section \in 1..LastSection /\ orch.section + 1 \in 1..(LastSection + 1)
    BY <1>o, <1>n
  <2>2. orch.section <= LastSection =>
          /\ RoundsBefore(orch.section + 1) = RoundsBefore(orch.section) + MaxPasses
          /\ RoundsBefore(orch.section + 1) <= LastSection * MaxPasses
    BY <2>1, RoundsAdd
  <2>. QED
    BY <1>o, <2>2, RoundsAdd
\* No field has had more turns than the rounds allow.
<1>b. ASSUME NEW f \in OrchFields, orch.pc \in {"section", "act", "discover", "pass"}
      PROVE  /\ tries[f] \in Nat /\ tries[f] <= OwnTries(f) + RoundsOver(f)
             /\ tries[f] <= 1 + LastSection * MaxPasses
             /\ OwnTries(f) \in {0, 1} /\ RoundsOver(f) \in Nat
  <2>1. RoundsOver(f) \in Nat
    BY <1>o, <1>r DEF RoundsOver
  <2>. QED
    BY <1>t, <1>b, <2>1 DEF OrchInv, TurnsAreCounted, OwnTries
\* A step that works on no field, and leaves each its rounds.
<1>k. ASSUME UNCHANGED tries, orch.pc \in {"section", "act", "discover", "pass"},
             \A f \in OrchFields : /\ OwnTries(f) <= OwnTries(f)' /\ RoundsOver(f) <= RoundsOver(f)'
                                   /\ OwnTries(f)' \in Nat /\ RoundsOver(f)' \in Nat
      PROVE  TurnsAreCounted'
  <2>. SUFFICES ASSUME NEW f \in OrchFields
                PROVE  tries[f] <= 1 + LastSection * MaxPasses /\ tries[f] <= OwnTries(f)' + RoundsOver(f)'
    BY <1>k DEF TurnsAreCounted
  <2>. QED
    BY <1>b, <1>k
<1>v. Visible \subseteq OrchFields
  BY DEF Visible
<1>g. ASSUME NEW pc \in {"page", "observe", "section", "act", "discover", "pass", "end"}, GoOn(pc)
      PROVE  /\ orch' \in OrchStates /\ orch'.pc = pc /\ orch'.section = orch.section
  BY <1>g, <1>t DEF GoOn, OrchStates
<1>e. ASSUME NEW how \in {"too many pages", "stuck", "exhausted", "blocked", "success",
                          "not submitted", "not navigated", "error"}, End(how)
      PROVE  /\ orch' \in OrchStates /\ orch'.pc = "end" /\ orch'.section = orch.section
  BY <1>e, <1>t DEF End, OrchStates
<1>x. ASSUME NextSection, orch.section <= LastSection
      PROVE  /\ orch' \in OrchStates /\ orch'.pc = "section" /\ orch'.section = orch.section + 1
  <2>1. orch.section + 1 \in 1..(LastSection + 1)
    BY <1>x, <1>o, <1>n
  <2>. QED
    BY <1>x, <1>t, <2>1 DEF NextSection, OrchStates
\* A step by which the loop leaves its work, and the fields alone.
<1>l. ASSUME orch' \in OrchStates, orch'.pc \in {"page", "observe", "end"}, UNCHANGED fieldVars
      PROVE  TriesAreCounted' /\ TurnsAreCounted' /\ PlannedIsOwn'
  BY <1>l DEF OrchInv, TriesAreCounted, TurnsAreCounted, PlannedIsOwn, fieldVars
<1>1. CASE NextPage
  <2>1. /\ UNCHANGED <<left, cost, charged, fieldVars>> /\ orch.pc = "page" /\ orch'.pc = "observe"
        /\ orch' \in OrchStates
    <3>1. orch.page + 1 \in 0..MaxOrchPages /\ 0 \in 0..(MaxStuck - 1)
      BY <1>1, <1>o, <1>n DEF NextPage
    <3>2. orch.same /\ orch.stuck + 1 < MaxStuck => orch.stuck + 1 \in 0..(MaxStuck - 1)
      BY <1>o, <1>n
    <3>. QED
      BY <1>1, <1>t, <3>1, <3>2 DEF NextPage, OrchStates
  <2>2. OrchTypeOK' /\ BudgetLasts'
    BY <1>t, <2>1 DEF OrchInv, OrchTypeOK, BudgetLasts, fieldVars
  <2>. QED
    BY <1>l, <2>1, <2>2 DEF OrchInv
<1>2. CASE NoMorePages
  <2>1. /\ UNCHANGED <<left, cost, charged, fieldVars>> /\ orch'.pc = "end" /\ orch' \in OrchStates
    BY <1>2, <1>e DEF NoMorePages
  <2>2. OrchTypeOK' /\ BudgetLasts'
    BY <1>t, <2>1 DEF OrchInv, OrchTypeOK, BudgetLasts, fieldVars
  <2>. QED
    BY <1>l, <2>1, <2>2 DEF OrchInv
<1>3. CASE Observe
  <2>1. /\ UNCHANGED <<left, cost, charged, todo, won, full>> /\ seen' = Visible \ full /\ known' = {} /\ tries' = Untried
        /\ orch.pc = "observe"
    BY <1>3 DEF Observe
  <2>2. /\ orch' \in OrchStates
        /\ orch'.pc = "end" \/ (left > 0 /\ orch'.pc = "section")
    <3>1. 1 \in 1..(LastSection + 1)
      BY <1>n
    <3>2. CASE left <= 0
      BY <1>3, <1>e, <3>2 DEF Observe
    <3>3. CASE ~(left <= 0) /\ End("blocked")
      BY <1>e, <3>3
    <3>4. CASE ~(left <= 0) /\ orch' = [orch EXCEPT !.pc = "section", !.section = 1]
      <4>1. orch' \in OrchStates /\ orch'.pc = "section"
        BY <1>t, <3>1, <3>4 DEF OrchStates
      <4>2. left > 0
        BY <1>t, <3>4
      <4>. QED
        BY <4>1, <4>2
    <3>. QED
      BY <1>3, <3>2, <3>3, <3>4 DEF Observe
  <2>3. tries' \in [OrchFields -> Nat] /\ \A f \in OrchFields : tries'[f] = 0
    BY <2>1 DEF Untried
  <2>4. OrchTypeOK'
    BY <1>t, <1>v, <2>1, <2>2, <2>3 DEF OrchTypeOK
  <2>5. TriesAreCounted'
    BY <2>3 DEF TriesAreCounted, OwnTries, NewTries
  <2>6. BudgetLasts'
    BY <1>t, <1>n, <2>1, <2>2 DEF OrchInv, BudgetLasts
  <2>7. TurnsAreCounted'
    <3>1. ASSUME NEW f \in OrchFields
          PROVE  tries'[f] <= 1 + LastSection * MaxPasses
      BY <1>r, <2>3
    <3>2. ASSUME NEW f \in OrchFields, orch'.pc = "section"
          PROVE  tries'[f] <= OwnTries(f)' + RoundsOver(f)'
      <4>1. orch'.section \in 1..(LastSection + 1)
        BY <2>2 DEF OrchStates
      <4>2. RoundsOver(f)' \in Nat
        BY <3>2, <4>1, RoundsAdd DEF RoundsOver
      <4>. QED
        BY <2>3, <4>2 DEF OwnTries
    <3>. QED
      BY <2>2, <3>1, <3>2 DEF TurnsAreCounted
  <2>. QED
    BY <2>2, <2>4, <2>5, <2>6, <2>7 DEF OrchInv, PlannedIsOwn
<1>4. CASE PlanSection
  <2>1. /\ orch.pc = "section" /\ orch.section <= LastSection
        /\ todo' \subseteq seen /\ \A f \in todo' : SectionOf[f] = orch.section
        /\ won' = {} /\ UNCHANGED <<left, cost, charged, seen, full, known, tries>>
    BY <1>4 DEF PlanSection
  <2>2. /\ orch' \in OrchStates
        /\ \/ todo' = {} /\ orch'.pc = "section" /\ orch'.section = orch.section + 1
           \/ orch'.pc = "act" /\ orch'.section = orch.section
    BY <1>4, <1>x, <1>g, <2>1 DEF PlanSection
  <2>3. OrchTypeOK'
    BY <1>t, <2>1, <2>2 DEF OrchTypeOK
  <2>4. TriesAreCounted'
    <3>. SUFFICES ASSUME NEW f \in OrchFields \ Shifting
                  PROVE  tries[f] <= 2 /\ tries[f] <= OwnTries(f)' + NewTries(f)'
      BY <2>1, <2>2 DEF TriesAreCounted
    <3>1. tries[f] <= 2 /\ tries[f] <= OwnTries(f) + NewTries(f) /\ tries[f] \in Nat
      BY <1>t, <2>1 DEF OrchInv, TriesAreCounted
    <3>2. NewTries(f)' = NewTries(f)
      BY <2>1, <2>2 DEF NewTries
    <3>3. OwnTries(f) <= OwnTries(f)' /\ OwnTries(f) \in Nat /\ OwnTries(f)' \in Nat /\ NewTries(f) \in Nat
      BY <1>o, <1>n, <2>1, <2>2 DEF OwnTries, NewTries
    <3>. QED
      BY <3>1, <3>2, <3>3
  <2>5. BudgetLasts'
    BY <2>1, <2>2 DEF OrchInv, BudgetLasts
  <2>6. PlannedIsOwn'
    BY <2>1, <2>2 DEF PlannedIsOwn
  <2>7. TurnsAreCounted'
    <3>1. ASSUME NEW f \in OrchFields
          PROVE  /\ OwnTries(f) <= OwnTries(f)' /\ RoundsOver(f) <= RoundsOver(f)'
                 /\ OwnTries(f)' \in Nat /\ RoundsOver(f)' \in Nat
      <4>1. OwnTries(f) <= OwnTries(f)' /\ OwnTries(f)' \in Nat
        BY <1>o, <1>n, <2>1, <2>2 DEF OwnTries
      <4>2. RoundsOver(f) = RoundsBefore(orch.section) /\ RoundsOver(f)' = RoundsBefore(orch'.section)
        BY <2>1, <2>2 DEF RoundsOver
      <4>. QED
        BY <1>n, <1>r, <2>1, <2>2, <4>1, <4>2
    <3>. QED
      BY <1>k, <2>1, <3>1
  <2>. QED
    BY <2>3, <2>4, <2>5, <2>6, <2>7 DEF OrchInv
\* One field, through the layers, in its section or where it was found.
<1>w. ASSUME NEW f \in todo, NEW success \in BOOLEAN, Work(f, success), left - cost > 0,
             orch.pc \in {"act", "pass"}
      PROVE  OrchInv'
  <2>1. PICK c \in Charges : cost' = cost + c /\ charged' = c
    BY <1>w DEF Work
  <2>2. c \in Nat
    BY <1>n
  <2>3. /\ todo' = todo \ {f} /\ tries' = [tries EXCEPT ![f] = @ + 1] /\ UNCHANGED <<left, seen, known>>
        /\ won' \subseteq OrchFields /\ full' \subseteq OrchFields /\ f \in OrchFields
    BY <1>w, <1>t DEF Work
  <2>4. orch' \in OrchStates /\ orch'.pc = orch.pc /\ orch'.section = orch.section /\ orch'.pass = orch.pass
    BY <1>w, <1>t DEF Work, OrchStates
  <2>5. /\ tries'[f] = tries[f] + 1 /\ tries' \in [OrchFields -> Nat]
        /\ \A g \in OrchFields : g # f => tries'[g] = tries[g]
    BY <1>t, <2>3
  <2>6. OrchTypeOK'
    BY <1>t, <2>1, <2>2, <2>3, <2>4, <2>5 DEF OrchTypeOK
  <2>7. BudgetLasts'
    BY <1>t, <1>n, <1>w, <2>1, <2>2, <2>3, <2>4 DEF BudgetLasts
  <2>8. PlannedIsOwn'
    BY <2>3, <2>4 DEF OrchInv, PlannedIsOwn
  <2>9. TriesAreCounted'
    <3>1. ASSUME NEW g \in OrchFields \ Shifting
          PROVE  /\ tries[g] \in Nat /\ tries[g] <= OwnTries(g) + NewTries(g)
                 /\ OwnTries(g) \in {0, 1} /\ NewTries(g) \in {0, 1}
                 /\ OwnTries(g)' \in {0, 1} /\ NewTries(g)' \in {0, 1}
      BY <1>t, <1>w DEF OrchInv, TriesAreCounted, OwnTries, NewTries
    <3>2. ASSUME NEW g \in OrchFields, g # f
          PROVE  OwnTries(g)' = OwnTries(g) /\ NewTries(g)' = NewTries(g)
      BY <2>3, <2>4, <3>2 DEF OwnTries, NewTries
    <3>3. CASE orch.pc = "act"
      <4>1. OwnTries(f) = 0 /\ OwnTries(f)' = 1 /\ NewTries(f)' = NewTries(f)
        BY <1>w, <1>n, <2>3, <2>4, <3>3 DEF OrchInv, PlannedIsOwn, OwnTries, NewTries
      <4>. QED
        BY <2>5, <3>1, <3>2, <4>1 DEF TriesAreCounted
    <3>4. CASE orch.pc = "pass"
      <4>1. NewTries(f) = 0 /\ NewTries(f)' = 1 /\ OwnTries(f)' = OwnTries(f)
        BY <1>w, <2>3, <2>4, <3>4 DEF OrchInv, PlannedIsOwn, OwnTries, NewTries
      <4>. QED
        BY <2>5, <3>1, <3>2, <4>1 DEF TriesAreCounted
    <3>. QED
      BY <1>w, <3>3, <3>4
  <2>10. TurnsAreCounted'
    <3>. SUFFICES ASSUME NEW g \in OrchFields
                  PROVE  tries'[g] <= 1 + LastSection * MaxPasses /\ tries'[g] <= OwnTries(g)' + RoundsOver(g)'
      BY DEF TurnsAreCounted
    <3>1. /\ tries[g] \in Nat /\ tries[g] <= OwnTries(g) + RoundsOver(g)
          /\ OwnTries(g) \in {0, 1} /\ RoundsOver(g) \in Nat
      BY <1>w, <1>b
    <3>2. orch.section <= LastSection
      BY <1>w DEF OrchInv, PlannedIsOwn
    <3>3. /\ tries'[g] <= OwnTries(g)' + RoundsOver(g)'
          /\ OwnTries(g)' \in {0, 1} /\ RoundsOver(g)' \in Nat
      <4>1. CASE orch.pc = "act"
        <5>1. RoundsOver(g)' = RoundsOver(g)
          BY <2>4, <4>1 DEF RoundsOver
        <5>2. (OwnTries(g) = 0 /\ OwnTries(g)' = 1) \/ (g # f /\ OwnTries(g)' = OwnTries(g))
          BY <1>w, <1>n, <2>3, <2>4, <4>1 DEF OrchInv, PlannedIsOwn, OwnTries
        <5>. QED
          BY <2>5, <3>1, <5>1, <5>2
      <4>2. CASE orch.pc = "pass"
        <5>1. OwnTries(g)' = OwnTries(g)
          BY <2>4, <4>2 DEF OwnTries
        <5>2. \/ g = f /\ RoundsOver(g)' = RoundsOver(g) + 1
              \/ g # f /\ RoundsOver(g)' = RoundsOver(g)
          BY <1>w, <1>o, <1>r, <2>3, <2>4, <4>2 DEF RoundsOver
        <5>. QED
          BY <2>5, <3>1, <5>1, <5>2
      <4>. QED
        BY <1>w, <4>1, <4>2
    <3>4. RoundsOver(g)' <= LastSection * MaxPasses
      <4>1. RoundsOver(g)' <= RoundsBefore(orch.section) + MaxPasses
        BY <1>w, <1>o, <1>n, <1>r, <2>4 DEF RoundsOver
      <4>. QED
        BY <1>n, <1>r, <3>2, <3>3, <4>1
    <3>. QED
      BY <1>r, <2>5, <3>3, <3>4
  <2>. QED
    BY <2>6, <2>7, <2>8, <2>9, <2>10 DEF OrchInv
<1>5. CASE Act
  BY <1>5, <1>w DEF Act
<1>6. CASE PassAct
  BY <1>6, <1>w DEF PassAct
<1>7. CASE ActExhausted
  <2>1. /\ UNCHANGED <<charged, fieldVars>> /\ orch'.pc = "end" /\ orch' \in OrchStates
        /\ left' = left - cost /\ cost' = 0
    BY <1>7, <1>e DEF ActExhausted
  <2>2. OrchTypeOK' /\ BudgetLasts'
    BY <1>t, <2>1 DEF OrchInv, OrchTypeOK, BudgetLasts, fieldVars
  <2>. QED
    BY <1>l, <2>1, <2>2 DEF OrchInv
<1>8. CASE SectionEnds
  <2>1. /\ orch.pc = "act" /\ todo = {} /\ known' = known \cup won
        /\ UNCHANGED <<left, cost, charged, todo, won, seen, full, tries>>
    BY <1>8 DEF SectionEnds
  <2>2. orch.section <= LastSection
    BY <2>1 DEF OrchInv, PlannedIsOwn
  <2>3. /\ orch' \in OrchStates
        /\ \/ orch'.pc = "section" /\ orch'.section = orch.section + 1
           \/ orch'.pc = "discover" /\ orch'.section = orch.section /\ orch'.pass = 1
    <3>1. 1 \in 1..MaxPasses
      BY <1>n
    <3>. QED
      BY <1>8, <1>x, <1>t, <2>2, <3>1 DEF SectionEnds, OrchStates
  <2>4. OrchTypeOK'
    BY <1>t, <2>1, <2>3 DEF OrchTypeOK
  <2>5. TriesAreCounted'
    <3>. SUFFICES ASSUME NEW f \in OrchFields \ Shifting
                  PROVE  tries[f] <= 2 /\ tries[f] <= OwnTries(f)' + NewTries(f)'
      BY <2>1, <2>3 DEF TriesAreCounted
    <3>1. tries[f] <= 2 /\ tries[f] <= OwnTries(f) + NewTries(f) /\ tries[f] \in Nat
      BY <1>t, <2>1 DEF OrchInv, TriesAreCounted
    <3>2. NewTries(f) <= NewTries(f)' /\ NewTries(f) \in Nat /\ NewTries(f)' \in Nat
      BY <2>1, <2>3 DEF NewTries
    <3>3. OwnTries(f) <= OwnTries(f)' /\ OwnTries(f) \in Nat /\ OwnTries(f)' \in Nat
      BY <1>o, <1>n, <2>1, <2>3 DEF OwnTries
    <3>. QED
      BY <3>1, <3>2, <3>3
  <2>6. BudgetLasts'
    BY <2>1, <2>3 DEF OrchInv, BudgetLasts
  <2>7. TurnsAreCounted'
    <3>1. ASSUME NEW f \in OrchFields
          PROVE  /\ OwnTries(f) <= OwnTries(f)' /\ RoundsOver(f) <= RoundsOver(f)'
                 /\ OwnTries(f)' \in Nat /\ RoundsOver(f)' \in Nat
      <4>1. OwnTries(f) <= OwnTries(f)' /\ OwnTries(f)' \in Nat
        BY <1>o, <1>n, <2>1, <2>3 DEF OwnTries
      <4>2. /\ RoundsOver(f) = RoundsBefore(orch.section)
            /\ RoundsOver(f)' \in {RoundsBefore(orch.section), RoundsBefore(orch.section + 1)}
        BY <1>r, <2>1, <2>3 DEF RoundsOver
      <4>. QED
        BY <1>n, <1>r, <2>2, <4>1, <4>2
    <3>. QED
      BY <1>k, <2>1, <3>1
  <2>. QED
    BY <2>2, <2>1, <2>3, <2>4, <2>5, <2>6, <2>7 DEF OrchInv, PlannedIsOwn
<1>9. CASE Discover
  <2>1. /\ orch.pc = "discover" /\ todo' \subseteq Visible /\ todo' \cap known \subseteq Shifting /\ won' = {}
        /\ known' \in {known \cup Visible, known} /\ (todo' # {} => known' = known \cup Visible)
        /\ UNCHANGED <<left, cost, charged, seen, full, tries>>
    BY <1>9 DEF Discover
  <2>2. orch.section <= LastSection
    BY <2>1 DEF OrchInv, PlannedIsOwn
  <2>3. /\ orch' \in OrchStates
        /\ \/ todo' = {} /\ orch'.pc = "section" /\ orch'.section = orch.section + 1
           \/ todo' # {} /\ orch'.pc = "pass" /\ orch'.section = orch.section /\ orch'.pass = orch.pass
    <3>1. GoOn("pass") => orch'.pass = orch.pass
      BY <1>t DEF GoOn, OrchStates
    <3>. QED
      BY <1>9, <1>x, <1>g, <2>2, <3>1 DEF Discover
  <2>4. OrchTypeOK'
    BY <1>t, <1>v, <2>1, <2>3 DEF OrchTypeOK
  <2>5. TriesAreCounted'
    <3>. SUFFICES ASSUME NEW f \in OrchFields \ Shifting
                  PROVE  tries[f] <= 2 /\ tries[f] <= OwnTries(f)' + NewTries(f)'
      BY <2>1, <2>3 DEF TriesAreCounted
    <3>1. tries[f] <= 2 /\ tries[f] <= OwnTries(f) + NewTries(f) /\ tries[f] \in Nat
      BY <1>t, <2>1 DEF OrchInv, TriesAreCounted
    <3>2. NewTries(f) <= NewTries(f)' /\ NewTries(f) \in Nat /\ NewTries(f)' \in Nat
      BY <2>1, <2>3 DEF NewTries
    <3>3. OwnTries(f) <= OwnTries(f)' /\ OwnTries(f) \in Nat /\ OwnTries(f)' \in Nat
      BY <1>o, <1>n, <2>1, <2>3 DEF OwnTries
    <3>. QED
      BY <3>1, <3>2, <3>3
  <2>6. BudgetLasts'
    BY <2>1, <2>3 DEF OrchInv, BudgetLasts
  <2>7. PlannedIsOwn'
    BY <2>1, <2>2, <2>3 DEF PlannedIsOwn
  <2>8. TurnsAreCounted'
    <3>1. ASSUME NEW f \in OrchFields
          PROVE  /\ OwnTries(f) <= OwnTries(f)' /\ RoundsOver(f) <= RoundsOver(f)'
                 /\ OwnTries(f)' \in Nat /\ RoundsOver(f)' \in Nat
      <4>1. OwnTries(f) <= OwnTries(f)' /\ OwnTries(f)' \in Nat
        BY <1>o, <1>n, <2>1, <2>3 DEF OwnTries
      <4>2. RoundsOver(f) = RoundsBefore(orch.section) + (orch.pass - 1)
        BY <2>1 DEF RoundsOver
      <4>3. \/ RoundsOver(f)' = RoundsBefore(orch.section + 1)
            \/ /\ RoundsOver(f)' = RoundsBefore(orch.section) + orch.pass - (IF f \in todo' THEN 1 ELSE 0)
               /\ orch.pass >= 1
        BY <1>o, <2>1, <2>3 DEF RoundsOver
      <4>. QED
        BY <1>n, <1>o, <1>r, <2>2, <4>1, <4>2, <4>3
    <3>. QED
      BY <1>k, <2>1, <3>1
  <2>. QED
    BY <2>4, <2>5, <2>6, <2>7, <2>8 DEF OrchInv
<1>10. CASE PassEnds
  <2>1. orch.pc = "pass" /\ UNCHANGED <<left, cost, charged, fieldVars>>
    BY <1>10 DEF PassEnds
  <2>2. orch.section <= LastSection
    BY <2>1 DEF OrchInv, PlannedIsOwn
  <2>3. /\ orch' \in OrchStates
        /\ \/ orch'.pc = "section" /\ orch'.section = orch.section + 1
           \/ orch'.pc = "discover" /\ orch'.section = orch.section /\ orch'.pass = orch.pass + 1
    <3>1. CASE won # {} /\ orch.pass < MaxPasses
      <4>1. orch.pass + 1 \in 1..MaxPasses
        BY <1>o, <1>n, <3>1
      <4>. QED
        BY <1>10, <1>t, <3>1, <4>1 DEF PassEnds, OrchStates
    <3>2. CASE ~(won # {} /\ orch.pass < MaxPasses)
      BY <1>10, <1>x, <2>2, <3>2 DEF PassEnds
    <3>. QED
      BY <3>1, <3>2
  <2>4. OrchTypeOK'
    BY <1>t, <2>1, <2>3 DEF OrchTypeOK, fieldVars
  <2>5. TriesAreCounted'
    <3>. SUFFICES ASSUME NEW f \in OrchFields \ Shifting
                  PROVE  tries[f] <= 2 /\ tries[f] <= OwnTries(f)' + NewTries(f)'
      BY <2>1, <2>3 DEF TriesAreCounted, fieldVars
    <3>1. tries[f] <= 2 /\ tries[f] <= OwnTries(f) + NewTries(f) /\ tries[f] \in Nat
      BY <1>t, <2>1 DEF OrchInv, TriesAreCounted
    <3>2. NewTries(f) <= NewTries(f)' /\ NewTries(f) \in Nat /\ NewTries(f)' \in Nat
      BY <2>1, <2>3 DEF NewTries, fieldVars
    <3>3. OwnTries(f) <= OwnTries(f)' /\ OwnTries(f) \in Nat /\ OwnTries(f)' \in Nat
      BY <1>o, <1>n, <2>1, <2>3 DEF OwnTries
    <3>. QED
      BY <3>1, <3>2, <3>3
  <2>6. BudgetLasts'
    BY <2>1, <2>3 DEF OrchInv, BudgetLasts
  <2>7. TurnsAreCounted'
    <3>1. ASSUME NEW f \in OrchFields
          PROVE  /\ OwnTries(f) <= OwnTries(f)' /\ RoundsOver(f) <= RoundsOver(f)'
                 /\ OwnTries(f)' \in Nat /\ RoundsOver(f)' \in Nat
      <4>1. OwnTries(f) <= OwnTries(f)' /\ OwnTries(f)' \in Nat
        BY <1>o, <1>n, <2>1, <2>3 DEF OwnTries
      <4>2. RoundsOver(f) = RoundsBefore(orch.section) + orch.pass - (IF f \in todo THEN 1 ELSE 0)
        BY <2>1 DEF RoundsOver
      <4>3. \/ RoundsOver(f)' = RoundsBefore(orch.section + 1)
            \/ RoundsOver(f)' = RoundsBefore(orch.section) + orch.pass
        BY <1>o, <1>r, <2>1, <2>3 DEF RoundsOver
      <4>. QED
        BY <1>n, <1>o, <1>r, <2>2, <4>1, <4>2, <4>3
    <3>. QED
      BY <1>k, <2>1, <3>1 DEF fieldVars
  <2>. QED
    BY <2>1, <2>2, <2>3, <2>4, <2>5, <2>6, <2>7 DEF OrchInv, PlannedIsOwn
\* The page's cost, with that of the click, is taken from the budget.
<1>p. ASSUME orch.pc = "section", NEW c \in Charges, left' = left - cost - c, charged' = charged + c, cost' = 0,
             orch' \in OrchStates, orch'.pc \in {"page", "end"}
      PROVE  BudgetLasts' /\ left' \in Int /\ cost' \in Nat /\ charged' \in Nat
  <2>1. left \in Int /\ cost \in Nat /\ charged \in Nat /\ c \in Nat /\ left - cost + charged > 0
    BY <1>t, <1>n, <1>p DEF OrchInv, BudgetLasts
  <2>2. left' \in Int /\ cost' \in Nat /\ charged' \in Nat /\ left' - cost' + charged' > 0
    BY <1>p, <2>1
  <2>. QED
    BY <1>p, <2>2 DEF BudgetLasts
<1>11. CASE ClickSubmit
  <2>1. orch.pc = "section" /\ UNCHANGED fieldVars /\ cost' = 0
    BY <1>11 DEF ClickSubmit
  <2>2. orch' \in OrchStates /\ orch'.pc = "end"
    BY <1>11, <1>e DEF ClickSubmit
  <2>3. BudgetLasts' /\ left' \in Int /\ cost' \in Nat /\ charged' \in Nat
    BY <1>11, <1>p, <2>1, <2>2 DEF ClickSubmit
  <2>4. OrchTypeOK'
    BY <1>t, <2>1, <2>2, <2>3 DEF OrchTypeOK, fieldVars
  <2>. QED
    BY <1>l, <2>1, <2>2, <2>3, <2>4 DEF OrchInv
<1>12. CASE Navigate
  <2>1. /\ orch.pc = "section" /\ UNCHANGED <<todo, won, seen, known, tries>> /\ cost' = 0
        /\ full' \subseteq OrchFields
    BY <1>12, <1>t DEF Navigate
  <2>2. orch' \in OrchStates /\ orch'.pc \in {"page", "end"}
    <3>1. CASE End("not navigated")
      BY <1>e, <3>1
    <3>2. CASE \E same \in BOOLEAN : orch' = [orch EXCEPT !.pc = "page", !.same = same]
      BY <1>t, <3>2 DEF OrchStates
    <3>. QED
      BY <1>12, <3>1, <3>2 DEF Navigate
  <2>3. BudgetLasts' /\ left' \in Int /\ cost' \in Nat /\ charged' \in Nat
    BY <1>12, <1>p, <2>1, <2>2 DEF Navigate
  <2>4. OrchTypeOK'
    BY <1>t, <2>1, <2>2, <2>3 DEF OrchTypeOK
  <2>5. TriesAreCounted' /\ TurnsAreCounted' /\ PlannedIsOwn'
    BY <2>1, <2>2 DEF OrchInv, TriesAreCounted, TurnsAreCounted, PlannedIsOwn
  <2>. QED
    BY <2>3, <2>4, <2>5 DEF OrchInv
<1>13. CASE BrowserGone
  <2>1. orch.pc \in {"observe", "section", "discover"} /\ UNCHANGED <<left, cost, charged, fieldVars>>
    BY <1>13 DEF BrowserGone
  <2>2. orch' \in OrchStates /\ orch'.pc = "end"
    BY <1>13, <1>e DEF BrowserGone
  <2>3. OrchTypeOK' /\ BudgetLasts'
    BY <1>t, <2>1, <2>2 DEF OrchInv, OrchTypeOK, BudgetLasts, fieldVars
  <2>. QED
    BY <1>l, <2>1, <2>2, <2>3 DEF OrchInv
<1>14. CASE UNCHANGED orchVars
  BY <1>14 DEF orchVars, fieldVars, OrchInv, OrchTypeOK, TriesAreCounted, OwnTries, NewTries,
               TurnsAreCounted, RoundsOver, PlannedIsOwn, BudgetLasts
<1>. QED
  BY <1>1, <1>2, <1>3, <1>4, <1>5, <1>6, <1>7, <1>8, <1>9, <1>10, <1>11, <1>12, <1>13, <1>14 DEF OrchNext

\* What the invariant says of the budget and of the tries.
LEMMA WorkBounds == OrchInv => OrchTypeOK /\ OverrunIsBounded /\ TriesAreFew
BY DEF OrchInv, BudgetLasts, TriesAreCounted, TurnsAreCounted, OverrunIsBounded, TriesAreFew

\* What a round, a section and a page cost in steps, and what each that begins takes
\* from those left: the measure is made of three countdowns.
LEMMA MeasureCounts ==
  /\ RoundSteps \in Nat /\ SectionSteps \in Nat /\ PageSteps \in Nat
  /\ RoundSteps > 0 /\ SectionSteps = MaxPasses * RoundSteps + RoundSteps
  /\ PageSteps = LastSection * SectionSteps + 3
  /\ \A n \in 0..MaxOrchPages : (MaxOrchPages - n) * PageSteps \in Nat
  /\ \A n \in 0..(MaxOrchPages - 1) :
       (MaxOrchPages - n) * PageSteps = (MaxOrchPages - (n + 1)) * PageSteps + PageSteps
  /\ \A n \in 0..(LastSection + 1) : (LastSection + 1 - n) * SectionSteps \in Nat
  /\ \A n \in 0..LastSection :
       (LastSection + 1 - n) * SectionSteps = (LastSection - n) * SectionSteps + SectionSteps
  /\ \A n \in 0..MaxPasses : (MaxPasses - n) * RoundSteps \in Nat
  /\ \A n \in 0..(MaxPasses - 1) :
       (MaxPasses - n) * RoundSteps = (MaxPasses - (n + 1)) * RoundSteps + RoundSteps
<1>1. LastSection \in Nat /\ MaxPasses \in Nat /\ MaxOrchPages \in Nat /\ IsFiniteSet(OrchFields)
  BY OrchAssumption
<1>2. RoundSteps \in Nat /\ RoundSteps > 0
  BY <1>1, FS_CardinalityType DEF RoundSteps
<1>3. ASSUME NEW a \in Nat, NEW n \in 0..a, NEW c \in Nat
      PROVE  /\ (a - n) * c \in Nat
             /\ n < a => (a - n) * c = (a - (n + 1)) * c + c
  <2>1. a - n \in Nat /\ a - n <= a - n
    OBVIOUS
  <2>2. (a - n) * c \in Nat
    BY <2>1, Times
  <2>3. ASSUME n < a PROVE (a - n) * c = (a - (n + 1)) * c + c
    <3>1. a - (n + 1) \in Nat /\ a - (n + 1) <= a - (n + 1) /\ (a - (n + 1)) + 1 = a - n
      BY <2>3
    <3>2. ((a - (n + 1)) + 1) * c = (a - (n + 1)) * c + c
      BY <3>1, Times
    <3>. QED
      BY <3>1, <3>2
  <2>. QED
    BY <2>2, <2>3
<1>4. SectionSteps \in Nat /\ SectionSteps = MaxPasses * RoundSteps + RoundSteps
  <2>1. MaxPasses <= MaxPasses
    BY <1>1
  <2>2. MaxPasses * RoundSteps \in Nat /\ (MaxPasses + 1) * RoundSteps = MaxPasses * RoundSteps + RoundSteps
    BY <1>1, <1>2, <2>1, Times
  <2>. QED
    BY <1>2, <2>2 DEF SectionSteps
<1>5. PageSteps \in Nat /\ PageSteps = LastSection * SectionSteps + 3
  <2>1. LastSection <= LastSection
    BY <1>1
  <2>2. LastSection * SectionSteps \in Nat
    BY <1>1, <1>4, <2>1, Times
  <2>. QED
    BY <2>2 DEF PageSteps
<1>6. /\ \A n \in 0..MaxOrchPages : (MaxOrchPages - n) * PageSteps \in Nat
      /\ \A n \in 0..(MaxOrchPages - 1) :
           (MaxOrchPages - n) * PageSteps = (MaxOrchPages - (n + 1)) * PageSteps + PageSteps
  <2>1. \A n \in 0..(MaxOrchPages - 1) : n \in 0..MaxOrchPages /\ n < MaxOrchPages
    BY <1>1
  <2>. QED
    BY <1>1, <1>3, <1>5, <2>1, Zenon
<1>7. /\ \A n \in 0..MaxPasses : (MaxPasses - n) * RoundSteps \in Nat
      /\ \A n \in 0..(MaxPasses - 1) :
           (MaxPasses - n) * RoundSteps = (MaxPasses - (n + 1)) * RoundSteps + RoundSteps
  <2>1. \A n \in 0..(MaxPasses - 1) : n \in 0..MaxPasses /\ n < MaxPasses
    BY <1>1
  <2>. QED
    BY <1>1, <1>2, <1>3, <2>1, Zenon
<1>8. ASSUME NEW n \in 0..(LastSection + 1)
      PROVE  (LastSection + 1 - n) * SectionSteps \in Nat
  <2>1. PICK k \in Nat : LastSection + 1 - n = k
    BY <1>1
  <2>2. k * SectionSteps \in Nat
    BY <1>4, <2>1, Times
  <2>. QED
    BY <2>1, <2>2, Zenon
<1>9. ASSUME NEW n \in 0..LastSection
      PROVE  (LastSection + 1 - n) * SectionSteps = (LastSection - n) * SectionSteps + SectionSteps
  <2>1. PICK k \in Nat : LastSection - n = k /\ LastSection + 1 - n = k + 1 /\ k <= k
    BY <1>1
  <2>2. (k + 1) * SectionSteps = k * SectionSteps + SectionSteps
    BY <1>4, <2>1, Times
  <2>. QED
    BY <2>1, <2>2, Zenon
<1>. QED
  BY <1>2, <1>4, <1>5, <1>6, <1>7, <1>8, <1>9, Zenon

\* Where the run is, what it has left: of the pages, of the sections, of the rounds.
PagesToGo == (MaxOrchPages - orch.page) * PageSteps
SectionsToGo == (LastSection - orch.section) * SectionSteps
RoundsToGo == (MaxPasses - orch.pass) * RoundSteps

\* The measure, place by place.
Measured ==
  /\ PagesToGo \in Nat /\ RoundsToGo \in Nat /\ Cardinality(todo) \in Nat
  /\ Cardinality(todo) + 2 <= RoundSteps
  /\ orch.section <= LastSection => SectionsToGo \in Nat
  /\ orch.pc = "end" => StepsLeft = 0
  /\ orch.pc = "page" => StepsLeft = PagesToGo + 1
  /\ orch.pc = "observe" => StepsLeft = PagesToGo + PageSteps
  /\ orch.pc = "section" /\ orch.section <= LastSection =>
       StepsLeft = PagesToGo + SectionsToGo + SectionSteps + 2
  /\ orch.pc = "section" /\ orch.section = LastSection + 1 => StepsLeft = PagesToGo + 2
  /\ orch.pc = "act" =>
       StepsLeft = PagesToGo + SectionsToGo + 2 + (MaxPasses * RoundSteps + Cardinality(todo) + 1)
  /\ orch.pc = "discover" => StepsLeft = PagesToGo + SectionsToGo + 2 + (RoundsToGo + RoundSteps)
  /\ orch.pc = "pass" =>
       StepsLeft = PagesToGo + SectionsToGo + 2 + (RoundsToGo + Cardinality(todo) + 1)

\* In every state of the run the measure is a number, that of the place where it is.
LEMMA MeasureByPlace == OrchInv => Measured
<1>. SUFFICES ASSUME OrchInv PROVE Measured
  OBVIOUS
<1>1. /\ orch.page \in 0..MaxOrchPages /\ orch.section \in 1..(LastSection + 1) /\ orch.pass \in 1..MaxPasses
      /\ todo \subseteq OrchFields
  BY DEF OrchInv, OrchTypeOK, OrchStates
<1>2. LastSection \in Nat /\ MaxPasses \in Nat /\ IsFiniteSet(OrchFields)
  BY OrchAssumption
<1>3. orch.pass \in 0..MaxPasses /\ (orch.section <= LastSection => orch.section \in 0..LastSection)
  BY <1>1, <1>2
<1>4. PagesToGo \in Nat /\ RoundsToGo \in Nat
  BY <1>1, <1>3, MeasureCounts, Zenon DEF PagesToGo, RoundsToGo
<1>5. Cardinality(todo) \in Nat /\ Cardinality(todo) + 2 <= RoundSteps
  <2>1. IsFiniteSet(todo) /\ Cardinality(todo) <= Cardinality(OrchFields)
    BY <1>1, <1>2, FS_Subset
  <2>2. Cardinality(todo) \in Nat /\ Cardinality(OrchFields) \in Nat
    BY <1>2, <2>1, FS_CardinalityType
  <2>. QED
    BY <2>1, <2>2 DEF RoundSteps
<1>6. ASSUME orch.section <= LastSection
      PROVE  /\ SectionsToGo \in Nat
             /\ (LastSection + 1 - orch.section) * SectionSteps = SectionsToGo + SectionSteps
  <2>1. LastSection - orch.section = LastSection + 1 - (orch.section + 1) /\ orch.section + 1 \in 0..(LastSection + 1)
    BY <1>1, <1>2, <1>6
  <2>2. (LastSection + 1 - (orch.section + 1)) * SectionSteps \in Nat
    BY <2>1, MeasureCounts, Zenon
  <2>. QED
    BY <1>3, <1>6, <2>1, <2>2, MeasureCounts, Zenon DEF SectionsToGo
<1>7. ASSUME orch.section = LastSection + 1
      PROVE  (LastSection + 1 - orch.section) * SectionSteps = 0
  <2>1. LastSection + 1 - orch.section = 0
    BY <1>2, <1>7
  <2>2. SectionSteps \in Nat
    BY MeasureCounts, Zenon
  <2>. QED
    BY <2>1, <2>2
<1>8. orch.pc \in {"act", "discover", "pass"} => orch.section <= LastSection
  BY DEF OrchInv, PlannedIsOwn
<1>9. /\ orch.pc = "end" => StepsLeft = 0
      /\ orch.pc # "end" => StepsLeft = PagesToGo + SectionsLeft
  BY DEF StepsLeft, PagesToGo
<1>10. /\ orch.pc = "page" => SectionsLeft = 1
       /\ orch.pc = "observe" => SectionsLeft = PageSteps
       /\ orch.pc = "section" => SectionsLeft = (LastSection + 1 - orch.section) * SectionSteps + 2
       /\ orch.pc \in {"act", "discover", "pass"} => SectionsLeft = SectionsToGo + 2 + RoundsLeft
  BY DEF SectionsLeft, SectionsToGo
<1>11. /\ orch.pc = "act" => RoundsLeft = MaxPasses * RoundSteps + Cardinality(todo) + 1
       /\ orch.pc = "discover" => RoundsLeft = RoundsToGo + RoundSteps
       /\ orch.pc = "pass" => RoundsLeft = RoundsToGo + Cardinality(todo) + 1
  BY DEF RoundsLeft, RoundsToGo
<1>12. /\ MaxPasses * RoundSteps \in Nat /\ RoundSteps \in Nat /\ SectionSteps \in Nat /\ PageSteps \in Nat
  BY <1>2, MeasureCounts, Times
<1>13. orch.pc = "section" /\ orch.section <= LastSection =>
         StepsLeft = PagesToGo + SectionsToGo + SectionSteps + 2
  BY <1>4, <1>6, <1>9, <1>10, <1>12
<1>14. orch.pc = "section" /\ orch.section = LastSection + 1 => StepsLeft = PagesToGo + 2
  BY <1>4, <1>7, <1>9, <1>10
<1>15. /\ orch.pc = "act" =>
            StepsLeft = PagesToGo + SectionsToGo + 2 + (MaxPasses * RoundSteps + Cardinality(todo) + 1)
       /\ orch.pc = "discover" => StepsLeft = PagesToGo + SectionsToGo + 2 + (RoundsToGo + RoundSteps)
       /\ orch.pc = "pass" =>
            StepsLeft = PagesToGo + SectionsToGo + 2 + (RoundsToGo + Cardinality(todo) + 1)
  BY <1>4, <1>5, <1>6, <1>8, <1>9, <1>10, <1>11, <1>12
<1>. QED
  BY <1>4, <1>5, <1>6, <1>9, <1>10, <1>13, <1>14, <1>15, Zenon DEF Measured

\* After a step too.
LEMMA MeasuredNext == OrchInv' => Measured'
BY MeasureByPlace, PTL

\* Each step of the run leaves fewer to take.
LEMMA OrchRunsOut ==
  OrchInv /\ [OrchNext]_orchVars => [StepsLeft' \in Nat /\ StepsLeft' < StepsLeft]_orchVars
<1>. SUFFICES ASSUME OrchInv, OrchNext PROVE StepsLeft' \in Nat /\ StepsLeft' < StepsLeft
  OBVIOUS
<1>i. OrchInv'
  BY OrchStep
<1>t. /\ orch \in OrchStates /\ orch.page \in 0..MaxOrchPages /\ orch.section \in 1..(LastSection + 1)
      /\ orch.pass \in 1..MaxPasses /\ todo \subseteq OrchFields
  BY DEF OrchInv, OrchTypeOK, OrchStates
<1>n. /\ LastSection \in Nat /\ MaxPasses \in Nat /\ MaxPasses >= 1 /\ MaxOrchPages \in Nat
      /\ IsFiniteSet(OrchFields)
  BY OrchAssumption
<1>c. /\ RoundSteps \in Nat /\ SectionSteps \in Nat /\ PageSteps \in Nat /\ RoundSteps > 0
      /\ MaxPasses * RoundSteps \in Nat /\ LastSection * SectionSteps \in Nat
      /\ SectionSteps = MaxPasses * RoundSteps + RoundSteps
      /\ PageSteps = LastSection * SectionSteps + 3
  BY <1>n, MeasureCounts, Times
<1>s. orch.pc \in {"act", "discover", "pass"} => orch.section <= LastSection
  BY DEF OrchInv, PlannedIsOwn
<1>m. Measured
  BY MeasureByPlace
\* The measure after the step.
<1>p. /\ PagesToGo' \in Nat /\ RoundsToGo' \in Nat /\ Cardinality(todo') \in Nat
      /\ Cardinality(todo') + 2 <= RoundSteps
      /\ orch'.section <= LastSection => SectionsToGo' \in Nat
      /\ orch'.pc = "end" => StepsLeft' = 0
      /\ orch'.pc = "page" => StepsLeft' = PagesToGo' + 1
      /\ orch'.pc = "observe" => StepsLeft' = PagesToGo' + PageSteps
      /\ orch'.pc = "section" /\ orch'.section <= LastSection =>
           StepsLeft' = PagesToGo' + SectionsToGo' + SectionSteps + 2
      /\ orch'.pc = "section" /\ orch'.section = LastSection + 1 => StepsLeft' = PagesToGo' + 2
      /\ orch'.pc = "act" =>
           StepsLeft' = PagesToGo' + SectionsToGo' + 2 + (MaxPasses * RoundSteps + Cardinality(todo') + 1)
      /\ orch'.pc = "discover" =>
           StepsLeft' = PagesToGo' + SectionsToGo' + 2 + (RoundsToGo' + RoundSteps)
      /\ orch'.pc = "pass" =>
           StepsLeft' = PagesToGo' + SectionsToGo' + 2 + (RoundsToGo' + Cardinality(todo') + 1)
  BY <1>i, MeasuredNext DEF Measured, RoundSteps, SectionSteps, PageSteps
\* What stays of the countdowns, and what is taken from them.
<1>a. /\ orch'.page = orch.page => PagesToGo' = PagesToGo
      /\ orch'.section = orch.section => SectionsToGo' = SectionsToGo
      /\ orch'.pass = orch.pass => RoundsToGo' = RoundsToGo
  BY DEF PagesToGo, SectionsToGo, RoundsToGo, PageSteps, SectionSteps, RoundSteps
<1>b. ASSUME orch'.page = orch.page + 1, orch.page < MaxOrchPages
      PROVE  PagesToGo = PagesToGo' + PageSteps
  <2>1. orch.page \in 0..(MaxOrchPages - 1)
    BY <1>b, <1>t, <1>n
  <2>2. PagesToGo = (MaxOrchPages - (orch.page + 1)) * PageSteps + PageSteps
    BY <2>1, MeasureCounts, Zenon DEF PagesToGo
  <2>3. PagesToGo' = (MaxOrchPages - (orch.page + 1)) * PageSteps
    BY <1>b DEF PagesToGo, PageSteps, SectionSteps, RoundSteps
  <2>. QED
    BY <2>2, <2>3, Zenon
<1>d. ASSUME orch'.section = orch.section + 1, orch.section < LastSection
      PROVE  SectionsToGo = SectionsToGo' + SectionSteps
  <2>1. PICK k \in Nat : LastSection - (orch.section + 1) = k /\ LastSection - orch.section = k + 1 /\ k <= k
    BY <1>d, <1>t, <1>n
  <2>2. (k + 1) * SectionSteps = k * SectionSteps + SectionSteps
    BY <1>c, <2>1, Times
  <2>3. SectionsToGo = (k + 1) * SectionSteps
    BY <2>1, Zenon DEF SectionsToGo
  <2>4. SectionsToGo' = (LastSection - (orch.section + 1)) * SectionSteps
    BY <1>d DEF SectionsToGo, SectionSteps, RoundSteps
  <2>. QED
    BY <2>1, <2>2, <2>3, <2>4, Zenon
<1>f. ASSUME orch'.pass = orch.pass + 1, orch.pass < MaxPasses
      PROVE  RoundsToGo = RoundsToGo' + RoundSteps
  <2>1. orch.pass \in 0..(MaxPasses - 1)
    BY <1>f, <1>t, <1>n
  <2>2. RoundsToGo = (MaxPasses - (orch.pass + 1)) * RoundSteps + RoundSteps
    BY <2>1, MeasureCounts, Zenon DEF RoundsToGo
  <2>3. RoundsToGo' = (MaxPasses - (orch.pass + 1)) * RoundSteps
    BY <1>f DEF RoundsToGo, RoundSteps
  <2>. QED
    BY <2>2, <2>3, Zenon
\* A run that ends had a step to take.
<1>e. ASSUME orch'.pc = "end", orch.pc # "end" PROVE StepsLeft' \in Nat /\ StepsLeft' < StepsLeft
  <2>1. orch.pc \in {"page", "observe", "section", "act", "discover", "pass"}
    BY <1>e, <1>t DEF OrchStates
  <2>2. orch.section <= LastSection \/ orch.section = LastSection + 1
    BY <1>t, <1>n
  <2>. QED
    BY <1>e, <1>m, <1>p, <1>c, <1>s, <2>1, <2>2 DEF Measured
\* Past a section, the next one has no more to take than what was left of them.
<1>x. ASSUME NextSection, orch.section <= LastSection, orch.pc \in {"section", "act", "discover", "pass"}
      PROVE  StepsLeft' \in Nat /\ StepsLeft' < StepsLeft
  <2>1. orch'.pc = "section" /\ orch'.section = orch.section + 1 /\ orch'.page = orch.page
    BY <1>x, <1>t DEF NextSection, OrchStates
  <2>2. StepsLeft \in Nat /\ StepsLeft > PagesToGo + SectionsToGo + 2
    BY <1>x, <1>m, <1>c, <1>n DEF Measured
  <2>3. CASE orch.section < LastSection
    <3>1. SectionsToGo = SectionsToGo' + SectionSteps /\ orch'.section <= LastSection
      BY <1>d, <1>t, <1>n, <2>1, <2>3
    <3>2. StepsLeft' = PagesToGo' + SectionsToGo' + SectionSteps + 2
      BY <1>p, <2>1, <3>1
    <3>. QED
      BY <1>a, <1>c, <1>m, <1>p, <2>1, <2>2, <3>1, <3>2 DEF Measured
  <2>4. CASE ~(orch.section < LastSection)
    <3>1. orch'.section = LastSection + 1
      BY <1>x, <1>t, <1>n, <2>1, <2>4
    <3>. QED
      BY <1>a, <1>m, <1>p, <1>x, <2>1, <2>2, <3>1 DEF Measured
  <2>. QED
    BY <2>3, <2>4
\* A field that was worked on is no longer planned.
<1>w. ASSUME NEW f \in todo, NEW success \in BOOLEAN, Work(f, success), orch.pc \in {"act", "pass"}
      PROVE  StepsLeft' \in Nat /\ StepsLeft' < StepsLeft
  <2>1. /\ orch'.pc = orch.pc /\ orch'.section = orch.section /\ orch'.page = orch.page /\ orch'.pass = orch.pass
        /\ todo' = todo \ {f}
    BY <1>w, <1>t DEF Work, OrchStates
  <2>2. IsFiniteSet(todo)
    BY <1>t, <1>n, FS_Subset
  <2>3. Cardinality(todo') = Cardinality(todo) - 1
    BY <2>1, <2>2, FS_RemoveElement
  <2>. QED
    BY <1>a, <1>c, <1>m, <1>p, <1>s, <1>w, <2>1, <2>3 DEF Measured
<1>1. CASE NextPage
  <2>1. orch.pc = "page" /\ orch.page < MaxOrchPages /\ orch'.pc = "observe" /\ orch'.page = orch.page + 1
    BY <1>1, <1>t DEF NextPage, OrchStates
  <2>. QED
    BY <1>b, <1>c, <1>m, <1>p, <2>1 DEF Measured
<1>2. CASE NoMorePages
  BY <1>2, <1>e, <1>t DEF NoMorePages, End, OrchStates
<1>3. CASE Observe
  <2>1. orch.pc = "observe"
    BY <1>3 DEF Observe
  <2>2. CASE orch' = [orch EXCEPT !.pc = "section", !.section = 1]
    <3>1. orch'.pc = "section" /\ orch'.section = 1 /\ orch'.page = orch.page
      BY <1>t, <2>2 DEF OrchStates
    <3>2. CASE LastSection >= 1
      <4>1. PICK k \in Nat : LastSection - 1 = k /\ LastSection = k + 1 /\ k <= k
        BY <1>n, <3>2
      <4>2. (k + 1) * SectionSteps = k * SectionSteps + SectionSteps
        BY <1>c, <4>1, Times
      <4>3. SectionsToGo' = (LastSection - 1) * SectionSteps
        BY <3>1 DEF SectionsToGo, SectionSteps, RoundSteps
      <4>4. LastSection * SectionSteps = SectionsToGo' + SectionSteps
        BY <4>1, <4>2, <4>3, Zenon
      <4>5. SectionsToGo' \in Nat /\ StepsLeft' = PagesToGo' + SectionsToGo' + SectionSteps + 2
        BY <1>p, <3>1, <3>2
      <4>. QED
        BY <1>a, <1>c, <1>m, <1>p, <2>1, <3>1, <4>4, <4>5 DEF Measured
    <3>3. CASE ~(LastSection >= 1)
      <4>1. orch'.section = LastSection + 1
        BY <1>n, <3>1, <3>3
      <4>. QED
        BY <1>a, <1>c, <1>m, <1>p, <2>1, <3>1, <4>1 DEF Measured
    <3>. QED
      BY <3>2, <3>3
  <2>3. CASE orch' # [orch EXCEPT !.pc = "section", !.section = 1]
    BY <1>3, <1>e, <1>t, <2>1, <2>3 DEF Observe, End, OrchStates
  <2>. QED
    BY <2>2, <2>3
<1>4. CASE PlanSection
  <2>1. orch.pc = "section" /\ orch.section <= LastSection
    BY <1>4 DEF PlanSection
  <2>2. CASE GoOn("act")
    <3>1. orch'.pc = "act" /\ orch'.section = orch.section /\ orch'.page = orch.page
      BY <1>t, <2>2 DEF GoOn, OrchStates
    <3>. QED
      BY <1>a, <1>c, <1>m, <1>p, <2>1, <3>1 DEF Measured
  <2>. QED
    BY <1>4, <1>x, <2>1, <2>2 DEF PlanSection
<1>5. CASE Act
  BY <1>5, <1>w DEF Act
<1>6. CASE PassAct
  BY <1>6, <1>w DEF PassAct
<1>7. CASE ActExhausted
  BY <1>7, <1>e, <1>t DEF ActExhausted, End, OrchStates
<1>8. CASE SectionEnds
  <2>1. orch.pc = "act" /\ orch.section <= LastSection /\ todo' = todo
    BY <1>8, <1>s DEF SectionEnds
  <2>2. CASE orch' = [orch EXCEPT !.pc = "discover", !.pass = 1]
    <3>1. orch'.pc = "discover" /\ orch'.section = orch.section /\ orch'.page = orch.page /\ orch'.pass = 1
      BY <1>t, <2>2 DEF OrchStates
    <3>2. PICK k \in Nat : MaxPasses - 1 = k /\ MaxPasses = k + 1 /\ k <= k
      BY <1>n
    <3>3. (k + 1) * RoundSteps = k * RoundSteps + RoundSteps
      BY <1>c, <3>2, Times
    <3>4. RoundsToGo' = (MaxPasses - 1) * RoundSteps
      BY <3>1 DEF RoundsToGo, RoundSteps
    <3>5. MaxPasses * RoundSteps = RoundsToGo' + RoundSteps
      BY <3>2, <3>3, <3>4, Zenon
    <3>. QED
      BY <1>a, <1>c, <1>m, <1>p, <2>1, <3>1, <3>5 DEF Measured
  <2>. QED
    BY <1>8, <1>x, <2>1, <2>2 DEF SectionEnds
<1>9. CASE Discover
  <2>1. orch.pc = "discover" /\ orch.section <= LastSection
    BY <1>9, <1>s DEF Discover
  <2>2. CASE GoOn("pass")
    <3>1. orch'.pc = "pass" /\ orch'.section = orch.section /\ orch'.page = orch.page /\ orch'.pass = orch.pass
      BY <1>t, <2>2 DEF GoOn, OrchStates
    <3>. QED
      BY <1>a, <1>c, <1>m, <1>p, <2>1, <3>1 DEF Measured
  <2>. QED
    BY <1>9, <1>x, <2>1, <2>2 DEF Discover
<1>10. CASE PassEnds
  <2>1. orch.pc = "pass" /\ orch.section <= LastSection
    BY <1>10, <1>s DEF PassEnds
  <2>2. CASE orch.pass < MaxPasses /\ orch' = [orch EXCEPT !.pc = "discover", !.pass = @ + 1]
    <3>1. orch'.pc = "discover" /\ orch'.section = orch.section /\ orch'.page = orch.page /\ orch'.pass = orch.pass + 1
      BY <1>t, <2>2 DEF OrchStates
    <3>2. RoundsToGo = RoundsToGo' + RoundSteps
      BY <1>f, <2>2, <3>1
    <3>. QED
      BY <1>a, <1>c, <1>m, <1>p, <2>1, <3>1, <3>2 DEF Measured
  <2>. QED
    BY <1>10, <1>x, <2>1, <2>2 DEF PassEnds
<1>11. CASE ClickSubmit
  BY <1>11, <1>e, <1>t DEF ClickSubmit, End, OrchStates
<1>12. CASE Navigate
  <2>. orch.pc = "section" /\ orch.section > LastSection
    BY <1>12, Zenon DEF Navigate
  <2>1. orch.section = LastSection + 1
    BY <1>t, <1>n
  <2>2. orch'.page = orch.page /\ orch'.pc \in {"page", "end"}
    BY <1>12, <1>t DEF Navigate, End, OrchStates
  <2>3. CASE orch'.pc = "page"
    BY <1>a, <1>m, <1>p, <2>1, <2>2, <2>3 DEF Measured
  <2>. QED
    BY <1>e, <2>1, <2>2, <2>3
<1>13. CASE BrowserGone
  BY <1>13, <1>e, <1>t DEF BrowserGone, End, OrchStates
<1>. QED
  BY <1>1, <1>2, <1>3, <1>4, <1>5, <1>6, <1>7, <1>8, <1>9, <1>10, <1>11, <1>12, <1>13 DEF OrchNext

-----------------------------------------------------------------------------
(* Of the replay of a cookbook page, for any number of actions and any     *)
(* limit of failures in a row: what counts as a success has filled more    *)
(* than half of the page.                                                  *)

ReplayCounts == [attempted : Nat, succeeded : Nat, failed : Nat, skipped : Nat, gui : Nat]

\* Every action is done, fails or is skipped, and only once.
ActionsAddUp ==
  /\ replay.attempted = replay.succeeded + replay.failed
  /\ replay.attempted + replay.skipped <= total

EngineInv ==
  /\ EngineTypeOK
  /\ ActionsAddUp
  /\ v3.pc = "cookbook" => Suffices

\* Nothing has been replayed.
LEMMA EngineStart == EngineInit => EngineInv
<1>. SUFFICES ASSUME EngineInit PROVE EngineInv
  OBVIOUS
<1>1. replay = [attempted |-> 0, succeeded |-> 0, failed |-> 0, skipped |-> 0, gui |-> 0]
  BY DEF EngineInit, Nothing
<1>2. replay \in ReplayCounts /\ replay.attempted = 0 /\ replay.succeeded = 0 /\ replay.failed = 0
      /\ replay.skipped = 0
  BY <1>1 DEF ReplayCounts
<1>3. total \in 0..MaxActions /\ inARow \in 0..MaxInARow
  BY CookbookAssumption DEF EngineInit
<1>4. /\ v3 \in [pc : {"start", "replay", "layers", "cookbook", "orchestrated", "failed"},
                 mode : Modes, cookbook : BOOLEAN]
      /\ v3.pc = "start"
  BY DEF EngineInit
<1>. QED
  BY <1>2, <1>3, <1>4, CookbookAssumption DEF EngineInv, EngineTypeOK, ActionsAddUp, ReplayCounts

\* Every step of the replay keeps EngineInv.
LEMMA CookbookStep == EngineInv /\ [EngineNext]_engineVars => EngineInv'
<1>. SUFFICES ASSUME EngineInv, [EngineNext]_engineVars
              PROVE  EngineInv'
  OBVIOUS
<1>. USE DEF EngineInv
<1>t. /\ v3 \in [pc : {"start", "replay", "layers", "cookbook", "orchestrated", "failed"},
                 mode : Modes, cookbook : BOOLEAN]
      /\ total \in 0..MaxActions /\ replay \in ReplayCounts /\ inARow \in 0..MaxInARow
  BY DEF EngineTypeOK, ReplayCounts
<1>n. /\ replay.attempted \in Nat /\ replay.succeeded \in Nat /\ replay.failed \in Nat
      /\ replay.skipped \in Nat /\ replay.gui \in Nat /\ total \in Nat
  BY <1>t, CookbookAssumption DEF ReplayCounts
<1>e. ASSUME NEW pc \in {"start", "replay", "layers", "cookbook", "orchestrated", "failed"}, Enter3(pc)
      PROVE  /\ v3' \in [pc : {"start", "replay", "layers", "cookbook", "orchestrated", "failed"},
                         mode : Modes, cookbook : BOOLEAN]
             /\ v3'.pc = pc
  BY <1>e, <1>t DEF Enter3
\* What is left to show of a step that moves on.
<1>g. ASSUME NEW pc \in {"start", "replay", "layers", "cookbook", "orchestrated", "failed"}, Enter3(pc),
             UNCHANGED <<total, replay, inARow>>, pc = "cookbook" => Suffices
      PROVE  EngineInv'
  BY <1>g, <1>t, <1>e DEF EngineTypeOK, ActionsAddUp, Suffices
<1>1. CASE Start3
  <2>. DEFINE pc == CASE v3.mode \in {"auto", "cookbook_only"} /\ v3.cookbook -> "replay"
                      [] v3.mode = "cookbook_only" /\ ~v3.cookbook -> "failed"
                      [] OTHER -> "layers"
  <2>1. pc \in {"replay", "failed", "layers"}
    OBVIOUS
  <2>2. Enter3(pc) /\ UNCHANGED <<total, replay, inARow>>
    BY <1>1 DEF Start3
  <2>. QED
    BY <2>1, <2>2, <1>g
<1>2. CASE SkipAction
  <2>1. /\ replay' \in ReplayCounts /\ replay'.skipped = replay.skipped + 1
        /\ replay'.attempted = replay.attempted /\ replay'.succeeded = replay.succeeded
        /\ replay'.failed = replay.failed
    BY <1>2, <1>t, <1>n DEF SkipAction, ReplayCounts
  <2>2. replay.attempted + replay.skipped < total /\ v3.pc = "replay" /\ UNCHANGED <<v3, total, inARow>>
    BY <1>2 DEF SkipAction, More
  <2>3. ActionsAddUp'
    BY <1>n, <2>1, <2>2 DEF ActionsAddUp
  <2>. QED
    BY <1>t, <2>1, <2>2, <2>3 DEF EngineTypeOK, ReplayCounts
<1>3. CASE ActionSucceeds
  <2>1. /\ replay' \in ReplayCounts /\ replay'.attempted = replay.attempted + 1
        /\ replay'.succeeded = replay.succeeded + 1
        /\ replay'.skipped = replay.skipped /\ replay'.failed = replay.failed
    <3>. PICK gui \in {0, 1} :
           replay' = [replay EXCEPT !.attempted = @ + 1, !.succeeded = @ + 1, !.gui = @ + gui]
      BY <1>3 DEF ActionSucceeds
    <3>1. replay.attempted + 1 \in Nat /\ replay.succeeded + 1 \in Nat /\ replay.gui + gui \in Nat
      BY <1>n
    <3>. QED
      BY <1>t, <3>1 DEF ReplayCounts
  <2>2. /\ replay.attempted + replay.skipped < total /\ v3.pc = "replay" /\ UNCHANGED <<v3, total>>
        /\ inARow' \in 0..MaxInARow
    BY <1>3, CookbookAssumption DEF ActionSucceeds, More
  <2>3. ActionsAddUp'
    BY <1>n, <2>1, <2>2 DEF ActionsAddUp
  <2>. QED
    BY <1>t, <2>1, <2>2, <2>3 DEF EngineTypeOK, ReplayCounts
<1>4. CASE ActionFails
  <2>1. /\ replay' \in ReplayCounts /\ replay'.attempted = replay.attempted + 1
        /\ replay'.succeeded = replay.succeeded
        /\ replay'.skipped = replay.skipped /\ replay'.failed = replay.failed + 1
    <3>1. replay.attempted + 1 \in Nat /\ replay.failed + 1 \in Nat
      BY <1>n
    <3>2. replay' = [replay EXCEPT !.attempted = @ + 1, !.failed = @ + 1]
      BY <1>4 DEF ActionFails
    <3>. QED
      BY <1>t, <3>1, <3>2 DEF ReplayCounts
  <2>2. /\ replay.attempted + replay.skipped < total /\ v3.pc = "replay" /\ UNCHANGED <<v3, total>>
        /\ inARow' \in 0..MaxInARow
    BY <1>4, <1>t, CookbookAssumption DEF ActionFails, More
  <2>3. ActionsAddUp'
    BY <1>n, <2>1, <2>2 DEF ActionsAddUp
  <2>. QED
    BY <1>t, <2>1, <2>2, <2>3 DEF EngineTypeOK, ReplayCounts
<1>5. CASE ReplayEnds
  <2>1. (IF v3.mode = "cookbook_only" THEN "failed" ELSE "layers") \in {"failed", "layers"}
    OBVIOUS
  <2>. QED
    BY <1>5, <2>1, <1>g DEF ReplayEnds
<1>6. CASE LayersEnd
  BY <1>6, <1>g DEF LayersEnd
<1>7. CASE UNCHANGED engineVars
  BY <1>7 DEF engineVars, EngineTypeOK, ActionsAddUp, Suffices
<1>. QED
  BY <1>1, <1>2, <1>3, <1>4, <1>5, <1>6, <1>7 DEF EngineNext

\* The variables of the v3 engine have their types.
THEOREM EngineTypes == EngineSpec => []EngineTypeOK
BY EngineStart, CookbookStep, PTL DEF EngineSpec, EngineInv

\* A replay that counts as a success filled more than half of the page.
THEOREM SuccessIsMost == EngineSpec => []MoreThanHalf
<1>1. EngineInv => MoreThanHalf
  <2>. SUFFICES ASSUME EngineInv, v3.pc = "cookbook"
                PROVE  2 * replay.succeeded > total
    BY DEF MoreThanHalf
  <2>1. replay.attempted \in Nat /\ replay.succeeded \in Nat /\ replay.failed \in Nat /\ total \in Nat
    BY CookbookAssumption DEF EngineInv, EngineTypeOK
  <2>2. 4 * replay.attempted > 3 * total /\ 10 * replay.failed <= 3 * replay.succeeded
        /\ replay.attempted = replay.succeeded + replay.failed
    BY DEF EngineInv, Suffices, ActionsAddUp
  <2>. QED
    BY <2>1, <2>2
<1>. QED
  BY <1>1, EngineStart, CookbookStep, PTL DEF EngineSpec

-----------------------------------------------------------------------------
(* Of one field in the v3 engine, for any number of tries: what counts as  *)
(* verified is there, and what the matcher takes is unanswered, but for    *)
(* what these properties tell of; the free layer keeps a right answer.     *)

AnyAnswer == {"none", "want", "near", "other"}
Waits4Try == {"scan", "match", "planned", "unseen", "unmatched", "taken"}
TaskPcs == Waits4Try \cup {"try", "review", "verified", "failed"}
Tasks == [pc : TaskPcs, layer : 1..3, tries : 0..MaxLayerTries, cost : 0..(2 * MaxLayerTries)]
Founds == [read : AnyAnswer, was : AnyAnswer]

\* What the scan reads where it finds that answer.
Reads(was) ==
  CASE widget.kind \in {"radio", "ariaRadio"} -> "none"
    [] widget.kind = "box" -> IF widget.prompt THEN "other" ELSE "none"
    [] widget.kind \in Lists /\ was = "none" /\ widget.prompt -> "other"
    [] OTHER -> was

\* What was read decides what becomes of the field.
ReadDecides ==
  /\ task.pc \notin {"scan", "unseen"} => found.read = Reads(found.was)
  /\ task.pc \in {"planned", "unmatched", "try", "review", "verified", "failed"} => found.read = "none"
  /\ task.pc = "taken" => found.read # "none"

\* The layers below the present one have cost no more than their tries.
CostOfLayers ==
  /\ task.pc \in Waits4Try => task.tries = 0 /\ task.cost = 0
  /\ task.pc = "try" => task.tries < MaxLayerTries
  /\ task.layer = 1 => task.cost = 0
  /\ task.layer = 2 => task.cost <= task.tries
  /\ task.layer = 3 => task.cost <= MaxLayerTries + task.tries

FieldInv ==
  /\ widget \in Widgets /\ held \in Values /\ found \in Founds /\ task \in Tasks
  /\ (widget.prompt => widget.kind \in Lists \cup {"box"})
  /\ ReadDecides
  /\ CostOfLayers
  /\ VerifiedIsThere

\* LAYER_ORDER.
LEMMA LayersAreThree == Len(LayerOrder) = 3 /\ LayerOrder[1] = "dom" /\ LayerOrder[2] = "stagehand"
                        /\ LayerOrder[3] = "magnitude"
BY DEF LayerOrder

\* The field has not been scanned.
LEMMA FieldStart == FieldInit => FieldInv
<1>. SUFFICES ASSUME FieldInit PROVE FieldInv
  OBVIOUS
<1>1. task = [pc |-> "scan", layer |-> 1, tries |-> 0, cost |-> 0]
      /\ found = [read |-> "none", was |-> "none"]
  BY DEF FieldInit
<1>2. task \in Tasks /\ found \in Founds /\ task.pc = "scan" /\ task.layer = 1 /\ task.tries = 0
      /\ task.cost = 0
  BY <1>1, V3FieldAssumption DEF Tasks, Founds, AnyAnswer, TaskPcs, Waits4Try
<1>3. widget \in Widgets /\ held \in Values /\ (widget.prompt => widget.kind \in Lists \cup {"box"})
  BY DEF FieldInit
<1>4. ReadDecides /\ CostOfLayers /\ VerifiedIsThere
  BY <1>2 DEF ReadDecides, CostOfLayers, VerifiedIsThere
<1>. QED
  BY <1>2, <1>3, <1>4 DEF FieldInv

\* The invariant is the types and what the properties say.
LEMMA FieldInvImplies == FieldInv => FieldTypeOK /\ OpenFieldsAreMatched
<1>. SUFFICES ASSUME FieldInv PROVE FieldTypeOK /\ OpenFieldsAreMatched
  OBVIOUS
<1>1. FieldTypeOK
  BY LayersAreThree DEF FieldInv, FieldTypeOK, Tasks, TaskPcs, Waits4Try, Founds, AnyAnswer
<1>2. widget.prompt \in BOOLEAN /\ found.was \in AnyAnswer
  BY DEF FieldInv, Widgets, Founds
<1>3. OpenFieldsAreMatched
  BY <1>2 DEF FieldInv, ReadDecides, Reads, OpenFieldsAreMatched, Lists
<1>. QED
  BY <1>1, <1>3

\* What the layers leave is an answer of the field, and a free one that was right stays.
LEMMA DomFills ==
  ASSUME widget \in Widgets, held \in Values
  PROVE  \A f \in FillByDom :
           /\ f.ok \in BOOLEAN /\ f.held \in Values
           /\ held = "want" /\ widget.kind \notin {"combo", "selectOne", "date"} => f.held = "want"
<1>1. widget.kind \in Kinds
  BY DEF Widgets
<1>2. /\ V2Type = "text" => widget.kind \in {"text", "rich"}
      /\ V2Type = "box" => widget.kind = "box"
      /\ V2Type = "date" => widget.kind = "date"
      /\ V2Type \in {"select", "radio"} => widget.kind \in {"select", "radio", "ariaRadio"}
      /\ V2Type = "custom_dropdown" => widget.kind \in {"combo", "selectOne"}
  BY <1>1 DEF V2Type, ToV2, ToV3, FieldType, Kinds
<1>3. widget.kind # "box" => Values = AnyAnswer
  BY DEF Values, AnyAnswer
<1>. TAKE f \in FillByDom
\* One outcome, or one of several.
<1>o. ASSUME NEW o \in BOOLEAN, NEW v \in Values, f = [ok |-> o, held |-> v],
             held = "want" /\ widget.kind \notin {"combo", "selectOne", "date"} => v = "want"
      PROVE  /\ f.ok \in BOOLEAN /\ f.held \in Values
             /\ held = "want" /\ widget.kind \notin {"combo", "selectOne", "date"} => f.held = "want"
  <2>1. f.ok = o /\ f.held = v
    BY <1>o
  <2>. QED
    BY <1>o, <2>1
<1>4. CASE f \in Error
  <2>1. f = [ok |-> FALSE, held |-> held]
    BY <1>4 DEF Error
  <2>. QED
    BY <1>o, <2>1
<1>5. CASE f \in SetText /\ V2Type = "text"
  <2>1. PICK v \in IF held = "want" THEN {held} ELSE {"want", "near", held} : f = [ok |-> TRUE, held |-> v]
    BY <1>5 DEF SetText
  <2>2. v \in Values /\ (held = "want" => v = "want")
    BY <1>2, <1>3, <1>5 DEF AnyAnswer
  <2>. QED
    BY <1>o, <2>1, <2>2
<1>6. CASE f \in TypeDate /\ V2Type = "date"
  <2>1. PICK v \in IF held = "none" THEN {"want", held} ELSE Values \ {"none"} : f = [ok |-> TRUE, held |-> v]
    BY <1>6 DEF TypeDate
  <2>2. v \in Values /\ widget.kind = "date"
    BY <1>2, <1>3, <1>6 DEF AnyAnswer
  <2>. QED
    BY <1>o, <2>1, <2>2
<1>7. CASE f \in PickOption /\ V2Type \in {"select", "radio"}
  <2>1. {"want", "near", "other", held} \subseteq Values
    BY <1>2, <1>3, <1>7 DEF AnyAnswer
  <2>2. CASE f = [ok |-> TRUE, held |-> "want"] \/ f = [ok |-> FALSE, held |-> held]
    BY <1>o, <2>1, <2>2
  <2>3. ASSUME NEW v \in IF held = "want" THEN {} ELSE
                         IF widget.kind = "radio" THEN {"near", "other"} ELSE {"near"},
               f = [ok |-> TRUE, held |-> v]
        PROVE  /\ f.ok \in BOOLEAN /\ f.held \in Values
               /\ held = "want" /\ widget.kind \notin {"combo", "selectOne", "date"} => f.held = "want"
    <3>1. v \in {"near", "other"} /\ held # "want"
      OBVIOUS
    <3>. QED
      BY <1>o, <2>1, <2>3, <3>1
  <2>. QED
    BY <1>7, <2>2, <2>3 DEF PickOption
<1>8. CASE f \in OpenAndClick /\ V2Type = "custom_dropdown"
  <2>1. {"want", "near", "other", held} \subseteq Values /\ widget.kind \in {"combo", "selectOne"}
    BY <1>2, <1>3, <1>8 DEF AnyAnswer
  <2>2. CASE f = [ok |-> FALSE, held |-> held]
    BY <1>o, <2>2
  <2>3. ASSUME NEW v \in {"want", "near", "other", held}, f = [ok |-> TRUE, held |-> v]
        PROVE  /\ f.ok \in BOOLEAN /\ f.held \in Values
               /\ held = "want" /\ widget.kind \notin {"combo", "selectOne", "date"} => f.held = "want"
    BY <1>o, <2>1, <2>3
  <2>. QED
    BY <1>8, <2>2, <2>3 DEF OpenAndClick
<1>9. CASE f \in Check /\ V2Type = "box"
  <2>1. PICK v \in {held} \cup (IF held = "want" THEN {} ELSE {"want"}) : f = [ok |-> TRUE, held |-> v]
    BY <1>9 DEF Check
  <2>2. v \in Values /\ (held = "want" => v = "want")
    BY <1>2, <1>9 DEF Values
  <2>. QED
    BY <1>o, <2>1, <2>2
<1>. QED
  BY <1>4, <1>5, <1>6, <1>7, <1>8, <1>9 DEF FillByDom

\* What the agent makes of a field is an answer.
LEMMA AgentFills == \A f \in FillByAgent : f.ok \in BOOLEAN /\ f.held \in Values
BY DEF FillByAgent

\* The next try, after one that has cost what its layer costs.
LEMMA NextTryIsATask ==
  ASSUME NEW t \in Tasks, NEW fast \in BOOLEAN, t.pc \in {"try", "review"},
         t.layer = 1 => t.cost = 0, t.layer = 2 => t.cost <= t.tries,
         t.layer = 3 => t.cost <= MaxLayerTries + t.tries
  PROVE  /\ NextTry(t, fast) \in Tasks
         /\ NextTry(t, fast).pc \in {"try", "failed"}
         /\ NextTry(t, fast).pc = "try" => NextTry(t, fast).tries < MaxLayerTries
         /\ NextTry(t, fast).layer = 1 => NextTry(t, fast).cost = 0
         /\ NextTry(t, fast).layer = 2 => NextTry(t, fast).cost <= NextTry(t, fast).tries
         /\ NextTry(t, fast).layer = 3 => NextTry(t, fast).cost <= MaxLayerTries + NextTry(t, fast).tries
<1>t. /\ t.layer \in 1..3 /\ t.tries \in 0..MaxLayerTries /\ t.cost \in 0..(2 * MaxLayerTries)
      /\ MaxLayerTries \in Nat \ {0}
  BY V3FieldAssumption DEF Tasks
<1>1. CASE t.tries < MaxLayerTries /\ ~fast
  <2>. DEFINE n == [t EXCEPT !.pc = "try"]
  <2>1. NextTry(t, fast) = n
    BY <1>1 DEF NextTry
  <2>2. n \in Tasks /\ n.pc = "try" /\ n.layer = t.layer /\ n.tries = t.tries /\ n.cost = t.cost
    BY DEF Tasks, TaskPcs
  <2>. HIDE DEF n
  <2>. QED
    BY <1>1, <2>1, <2>2
<1>2. CASE ~(t.tries < MaxLayerTries /\ ~fast) /\ t.layer < 3
  <2>. DEFINE n == [t EXCEPT !.pc = "try", !.layer = @ + 1, !.tries = 0]
  <2>1. NextTry(t, fast) = n
    BY <1>2, LayersAreThree DEF NextTry
  <2>2. t.layer + 1 \in 1..3 /\ 0 \in 0..MaxLayerTries
    BY <1>t, <1>2
  <2>3. n \in Tasks /\ n.pc = "try" /\ n.layer = t.layer + 1 /\ n.tries = 0 /\ n.cost = t.cost
    BY <2>2 DEF Tasks, TaskPcs
  <2>. HIDE DEF n
  <2>4. t.layer = 1 => n.layer = 2 /\ n.cost = 0
    BY <2>3
  <2>5. t.layer = 2 => n.layer = 3 /\ n.cost <= MaxLayerTries
    BY <1>t, <2>3
  <2>. QED
    BY <1>t, <1>2, <2>1, <2>3, <2>4, <2>5
<1>3. CASE ~(t.tries < MaxLayerTries /\ ~fast) /\ ~(t.layer < 3)
  <2>. DEFINE n == [t EXCEPT !.pc = "failed"]
  <2>1. NextTry(t, fast) = n
    BY <1>3, LayersAreThree DEF NextTry
  <2>2. n \in Tasks /\ n.pc = "failed" /\ n.layer = t.layer /\ n.tries = t.tries /\ n.cost = t.cost
    BY DEF Tasks, TaskPcs
  <2>. HIDE DEF n
  <2>. QED
    BY <2>1, <2>2
<1>. QED
  BY <1>1, <1>2, <1>3

\* What a try of any layer leaves.
LEMMA TryKeepsInv ==
  ASSUME FieldInv, task.pc = "try", NEW tried, Reviewed(tried),
         tried.held \in Values, tried.ok \in BOOLEAN, tried.fast \in BOOLEAN, tried.cost \in {0, 1},
         task.layer = 1 => tried.cost = 0
  PROVE  FieldInv'
<1>. DEFINE n == AfterTry(tried.cost)
<1>t. /\ task \in Tasks /\ task.layer \in 1..3 /\ task.tries \in 0..MaxLayerTries
      /\ task.cost \in 0..(2 * MaxLayerTries) /\ MaxLayerTries \in Nat \ {0}
      /\ task.tries < MaxLayerTries
  BY V3FieldAssumption DEF FieldInv, CostOfLayers, Tasks
<1>c. /\ task.layer = 1 => task.cost = 0
      /\ task.layer = 2 => task.cost <= task.tries
      /\ task.layer = 3 => task.cost <= MaxLayerTries + task.tries
  BY DEF FieldInv, CostOfLayers
<1>1. task.tries + 1 \in 0..MaxLayerTries /\ task.cost + tried.cost \in 0..(2 * MaxLayerTries)
  BY <1>t, <1>c
<1>2. /\ n \in Tasks /\ n.pc = "try" /\ n.layer = task.layer /\ n.tries = task.tries + 1
      /\ n.cost = task.cost + tried.cost
  BY <1>t, <1>1 DEF AfterTry, Tasks
<1>. HIDE DEF n
<1>3. /\ n.layer = 1 => n.cost = 0 
      /\ n.layer = 2 => n.cost <= n.tries
      /\ n.layer = 3 => n.cost <= MaxLayerTries + n.tries
  BY <1>t, <1>c, <1>2
<1>4. /\ task' \in Tasks /\ CostOfLayers' /\ task'.pc \in {"review", "try", "failed"}
  <2>1. CASE tried.ok
    <3>1. task' = [n EXCEPT !.pc = "review"]
      BY <2>1 DEF Reviewed, n
    <3>2. /\ task' \in Tasks /\ task'.pc = "review" /\ task'.layer = n.layer
          /\ task'.tries = n.tries /\ task'.cost = n.cost
      BY <1>2, <3>1 DEF Tasks, TaskPcs
    <3>. QED
      BY <1>3, <3>2 DEF CostOfLayers, Waits4Try
  <2>2. CASE ~tried.ok
    <3>1. task' = NextTry(n, tried.fast)
      BY <2>2 DEF Reviewed, n
    <3>. QED
      BY <1>2, <1>3, <3>1, NextTryIsATask DEF CostOfLayers, Waits4Try
  <2>. QED
    BY <2>1, <2>2
<1>5. UNCHANGED <<widget, found>> /\ held' = tried.held
  BY DEF Reviewed
<1>6. ReadDecides' /\ VerifiedIsThere'
  BY <1>4, <1>5 DEF FieldInv, ReadDecides, Reads, VerifiedIsThere
<1>. QED
  BY <1>4, <1>5, <1>6 DEF FieldInv, Values

\* Every step of the field keeps FieldInv.
LEMMA FieldStep == FieldInv /\ [FieldNext]_fieldV3Vars => FieldInv'
<1>. SUFFICES ASSUME FieldInv, [FieldNext]_fieldV3Vars
              PROVE  FieldInv'
  OBVIOUS
<1>t. /\ widget \in Widgets /\ held \in Values /\ found \in Founds /\ task \in Tasks
      /\ widget.kind \in Kinds /\ widget.prompt \in BOOLEAN
  BY DEF FieldInv, Widgets
<1>n. task.layer \in 1..3 /\ task.tries \in 0..MaxLayerTries /\ task.cost \in 0..(2 * MaxLayerTries)
  BY <1>t DEF Tasks
<1>1. CASE ScanField
  <2>1. Shows = Reads(held) /\ Shows \in AnyAnswer /\ held \in AnyAnswer
    BY <1>t DEF Shows, Reads, Values, AnyAnswer
  <2>2. CASE widget.kind = "selectOne" /\ held # "none"
    <3>1. task' = [task EXCEPT !.pc = "unseen"] /\ UNCHANGED <<widget, held, found>>
      BY <1>1, <2>2 DEF ScanField
    <3>2. task' \in Tasks /\ task'.pc = "unseen" /\ task'.layer = task.layer
          /\ task'.tries = task.tries /\ task'.cost = task.cost
      BY <1>t, <3>1 DEF Tasks, TaskPcs, Waits4Try
    <3>. QED
      BY <1>1, <3>1, <3>2
      DEF ScanField, FieldInv, ReadDecides, CostOfLayers, Waits4Try, VerifiedIsThere, Values
  <2>3. CASE ~(widget.kind = "selectOne" /\ held # "none")
    <3>1. task' = [task EXCEPT !.pc = "match"] /\ found' = [read |-> Shows, was |-> held]
          /\ UNCHANGED <<widget, held>>
      BY <1>1, <2>3 DEF ScanField
    <3>2. task' \in Tasks /\ task'.pc = "match" /\ task'.layer = task.layer
          /\ task'.tries = task.tries /\ task'.cost = task.cost
      BY <1>t, <3>1 DEF Tasks, TaskPcs, Waits4Try
    <3>3. found' \in Founds /\ found'.read = Reads(found'.was)
      BY <2>1, <3>1 DEF Founds
    <3>. QED
      BY <1>1, <3>1, <3>2, <3>3
      DEF ScanField, FieldInv, ReadDecides, Reads, CostOfLayers, Waits4Try, VerifiedIsThere, Values
  <2>. QED
    BY <2>2, <2>3
<1>2. CASE MatchField
  <2>1. UNCHANGED <<widget, held, found>> /\ task.pc = "match"
    BY <1>2 DEF MatchField
  <2>2. /\ task' \in Tasks /\ task'.pc \in {"planned", "unmatched", "taken"}
        /\ task'.tries = task.tries /\ task'.cost = task.cost
        /\ task'.pc = "taken" <=> found.read # "none"
    <3>1. CASE found.read = "none"
      <4>1. CASE \E s \in DOMAIN Strategies :
                   task' = [task EXCEPT !.pc = "planned", !.layer = PlannedLayer(Strategies[s])]
        <5>. PICK s \in DOMAIN Strategies :
               task' = [task EXCEPT !.pc = "planned", !.layer = PlannedLayer(Strategies[s])]
          BY <4>1
        <5>1. PlannedLayer(Strategies[s]) \in 1..3
          BY DEF PlannedLayer
        <5>. QED
          BY <1>t, <3>1, <5>1 DEF Tasks, TaskPcs, Waits4Try
      <4>2. CASE task' = [task EXCEPT !.pc = "unmatched"]
        BY <1>t, <3>1, <4>2 DEF Tasks, TaskPcs, Waits4Try
      <4>. QED
        BY <1>2, <3>1, <4>1, <4>2 DEF MatchField
    <3>2. CASE found.read # "none"
      BY <1>2, <1>t, <3>2 DEF MatchField, Tasks, TaskPcs, Waits4Try
    <3>. QED
      BY <3>1, <3>2
  <2>3. task.tries = 0 /\ task.cost = 0
    BY <2>1 DEF FieldInv, CostOfLayers, Waits4Try
  <2>4. CostOfLayers'
    BY <2>2, <2>3, V3FieldAssumption DEF CostOfLayers, Waits4Try
  <2>. QED
    BY <2>1, <2>2, <2>4 DEF FieldInv, ReadDecides, Reads, VerifiedIsThere, Values
<1>3. CASE Wait4Turn
  <2>. PICK s \in {FALSE, widget.stays} : widget' = [widget EXCEPT !.stays = s]
    BY <1>3 DEF Wait4Turn
  <2>1. /\ widget' \in Widgets /\ widget'.kind = widget.kind /\ widget'.prompt = widget.prompt
    BY <1>t DEF Widgets
  <2>2. held' \in Values /\ Values' = Values
    BY <1>3, <2>1 DEF Wait4Turn, Values
  <2>3. /\ task' \in Tasks /\ task'.pc = "try" /\ task.pc = "planned"
        /\ task'.layer = task.layer /\ task'.tries = task.tries /\ task'.cost = task.cost
    BY <1>3, <1>t DEF Wait4Turn, Tasks, TaskPcs
  <2>4. CostOfLayers'
    <3>1. task.tries = 0 /\ task.cost = 0
      BY <2>3 DEF FieldInv, CostOfLayers, Waits4Try
    <3>. QED
      BY <2>3, <3>1, V3FieldAssumption DEF CostOfLayers, Waits4Try
  <2>5. UNCHANGED found
    BY <1>3 DEF Wait4Turn
  <2>6. ReadDecides' /\ VerifiedIsThere'
    BY <2>1, <2>3, <2>5 DEF FieldInv, ReadDecides, Reads, VerifiedIsThere
  <2>. QED
    BY <2>1, <2>2, <2>3, <2>4, <2>5, <2>6 DEF FieldInv
<1>4. CASE TryDom
  <2>. PICK f \in FillByDom : Reviewed([ok |-> f.ok, held |-> f.held, cost |-> 0, fast |-> FALSE])
    BY <1>4 DEF TryDom
  <2>. QED
    BY <1>4, <1>t, DomFills, TryKeepsInv DEF TryDom
<1>5. CASE TryStagehand
  <2>1. task.layer # 1 /\ task.pc = "try"
    BY <1>5, LayersAreThree DEF TryStagehand
  <2>2. ASSUME NEW f \in FillByDom, Reviewed([ok |-> TRUE, held |-> f.held, cost |-> 0, fast |-> FALSE])
        PROVE  FieldInv'
    BY <1>t, <2>1, <2>2, DomFills, TryKeepsInv
  <2>3. ASSUME NEW f \in FillByAgent, NEW fast \in BOOLEAN,
               Reviewed([ok |-> f.ok, held |-> f.held, cost |-> 1, fast |-> fast])
        PROVE  FieldInv'
    BY <2>1, <2>3, AgentFills, TryKeepsInv
  <2>. QED
    BY <1>5, <2>2, <2>3 DEF TryStagehand
<1>6. CASE TryMagnitude
  <2>1. task.layer # 1 /\ task.pc = "try"
    BY <1>6, LayersAreThree DEF TryMagnitude
  <2>2. ASSUME NEW f \in FillByAgent, NEW fast \in BOOLEAN,
               Reviewed([ok |-> f.ok, held |-> f.held, cost |-> 1, fast |-> fast])
        PROVE  FieldInv'
    BY <2>1, <2>2, AgentFills, TryKeepsInv
  <2>. QED
    BY <1>6, <2>2 DEF TryMagnitude
<1>7. CASE ReviewField
  <2>1. UNCHANGED <<widget, held, found>> /\ task.pc = "review"
    BY <1>7 DEF ReviewField
  <2>2. CASE FuzzyMatch(ReadBack) /\ task' = [task EXCEPT !.pc = "verified"]
    <3>1. held \in {"want", "near"}
      BY <2>2 DEF FuzzyMatch, ReadBack
    <3>2. /\ task' \in Tasks /\ task'.pc = "verified"
          /\ task'.layer = task.layer /\ task'.tries = task.tries /\ task'.cost = task.cost
      BY <1>t, <2>2 DEF Tasks, TaskPcs
    <3>. QED
      BY <2>1, <3>1, <3>2
      DEF FieldInv, ReadDecides, Reads, CostOfLayers, Waits4Try, VerifiedIsThere, Values
  <2>3. CASE task' = NextTry(task, FALSE)
    <3>1. /\ task.layer = 1 => task.cost = 0
          /\ task.layer = 2 => task.cost <= task.tries
          /\ task.layer = 3 => task.cost <= MaxLayerTries + task.tries
      BY DEF FieldInv, CostOfLayers
    <3>2. task' \in Tasks /\ CostOfLayers' /\ task'.pc \in {"try", "failed"}
      BY <1>t, <2>1, <2>3, <3>1, NextTryIsATask DEF CostOfLayers, Waits4Try
    <3>. QED
      BY <2>1, <3>2 DEF FieldInv, ReadDecides, Reads, VerifiedIsThere, Values
  <2>. QED
    BY <1>7, <2>2, <2>3 DEF ReviewField
<1>8. CASE UNCHANGED fieldV3Vars
  BY <1>8 DEF fieldV3Vars, FieldInv, ReadDecides, Reads, CostOfLayers, VerifiedIsThere, Values
<1>. QED
  BY <1>1, <1>2, <1>3, <1>4, <1>5, <1>6, <1>7, <1>8 DEF FieldNext

\* FieldInv holds in every reachable state.
LEMMA FieldSafe == FieldSpec => []FieldInv
BY FieldStart, FieldStep, PTL DEF FieldSpec

\* The variables of a field in the v3 engine have their types.
THEOREM FieldTypes == FieldSpec => []FieldTypeOK
BY FieldSafe, FieldInvImplies, PTL

\* What counts as verified is there.
THEOREM VerifiedFieldsHold == FieldSpec => []VerifiedIsThere
BY FieldSafe, PTL DEF FieldInv

\* What the matcher takes is unanswered, and what it leaves is answered.
THEOREM OpenFieldsAreTaken == FieldSpec => []OpenFieldsAreMatched
BY FieldSafe, FieldInvImplies, PTL

\* The free layer leaves a right answer as it is.
THEOREM FreeLayerLeaves == FieldSpec => FreeLayerKeeps
<1>1. FieldInv /\ [FieldNext]_fieldV3Vars
        => [TryDom /\ held = "want" /\ widget.kind \notin {"combo", "selectOne", "date"}
              => held' = "want"]_fieldV3Vars
  BY DomFills DEF FieldInv, TryDom, Reviewed
<1>. QED
  BY <1>1, FieldSafe, PTL DEF FieldSpec, FreeLayerKeeps

-----------------------------------------------------------------------------
(* What a verdict on a page's turn is worth, for any site and any number   *)
(* of polls.  The invariant ties the two things that navigateNext keeps    *)
(* from poll to poll, lastChangedFingerprint and lastStableCount, to what  *)
(* the poll before it read.                                                *)

\* Submit is clicked after an observation without a Next button to click.
SubmitWasLast == turn.last => observed.next # "on"

\* There is a verdict at the end only, and before the click nothing to compare.
NoVerdictYet == turn.pc # "over" => turn.result = "none"
NothingRead ==
  turn.pc \in {"filled", "click"} => changed = Unread /\ stableCount = NoCount /\ view = NoView

\* While it polls, lastChangedFingerprint is what the poll before has read, if that was
\* another set of fields than before the click; and lastStableCount was only kept if most
\* of those were gone.
PollsAgree ==
  turn.pc # "over" =>
    /\ changed.read => changed = view.fingerprint
    /\ before.read /\ view.fingerprint.read /\ view.fingerprint # before =>
         changed = view.fingerprint
    /\ stableCount # NoCount =>
         view.fingerprint.read /\ MostGone(before.fields, view.fingerprint.fields)

ViewIs == view = [page |-> view.page, fingerprint |-> view.fingerprint, old |-> view.old]

TInv == /\ TurnTypeOK /\ ViewIs /\ SubmitWasLast /\ NoVerdictYet /\ NothingRead /\ PollsAgree
        /\ TurnIsReal /\ TurnIsNoticed /\ SubmissionIsReal

-----------------------------------------------------------------------------
\* Fields are counted.
LEMMA Counts ==
  ASSUME NEW s, IsFiniteSet(s)
  PROVE  Cardinality(s) \in Nat /\ Cardinality(s) # NoCount
<1>1. Cardinality(s) \in Nat
  BY FS_CardinalityType
<1>. QED
  BY <1>1 DEF NoCount

\* No field is gone from the page if the fields are the same.
LEMMA SameIsNotGone ==
  ASSUME NEW s, IsFiniteSet(s)
  PROVE  ~MostGone(s, s)
<1>1. s \ s = {} /\ Cardinality({}) = 0 /\ Cardinality(s) \in Nat
  BY FS_EmptySet, FS_CardinalityType
<1>. QED
  BY <1>1 DEF MostGone

\* What the site shows, and what a poll reads of it.
LEMMA ScreenIs ==
  ASSUME NEW s \in Screens
  PROVE  /\ s.page \in {"this", "another"} /\ IsFiniteSet(s.fields)
         /\ s.next \in Buttons /\ s.submit \in Buttons
         /\ \A now \in Fingerprints(s) :
              /\ now.read \in BOOLEAN /\ IsFiniteSet(now.fields)
              /\ now.read => now = NamesIn(s) /\ now.fields = s.fields
              /\ ~now.read => now = Unread
<1>1. /\ s.page \in {"this", "another"} /\ IsFiniteSet(s.fields)
      /\ s.next \in Buttons /\ s.submit \in Buttons
  BY ScreensAssumption
<1>2. NamesIn(s).read = TRUE /\ NamesIn(s).fields = s.fields
  BY DEF NamesIn
<1>3. Unread.read = FALSE /\ IsFiniteSet(Unread.fields)
  BY FS_EmptySet DEF Unread
<1>. QED
  BY <1>1, <1>2, <1>3 DEF Fingerprints

\* Before the click.
LEMMA InitTInv == TurnInit => TInv
<1>. SUFFICES ASSUME TurnInit PROVE TInv
  OBVIOUS
<1>1. screen \in Screens /\ before = Unread /\ changed = Unread /\ stableCount = NoCount
      /\ view = NoView /\ torn = FALSE /\ turn = [pc |-> "filled", last |-> FALSE, polls |-> 0, result |-> "none"]
      /\ observed = [next |-> screen.next, submit |-> screen.submit]
  BY DEF TurnInit, Actions
<1>2. Unread.read = FALSE /\ IsFiniteSet(Unread.fields)
  BY FS_EmptySet DEF Unread
<1>3. TurnTypeOK
  <2>1. observed \in [next : Buttons, submit : Buttons]
    BY <1>1, ScreenIs
  <2>2. turn \in [pc : {"filled", "click", "poll", "over"}, last : BOOLEAN,
                polls : 0..(MaxTurnPolls - 1),
                result : {"none", "not clicked", "error", "turned", "not turned"}]
    BY <1>1, PollsAssumption
  <2>3. \A r \in {before, changed, view.fingerprint} : r.read \in BOOLEAN /\ IsFiniteSet(r.fields)
    <3>1. before = Unread /\ changed = Unread /\ view.fingerprint = Unread
      BY <1>1 DEF NoView
    <3>. QED
      BY <1>2, <3>1
  <2>. QED
    BY <1>1, <2>1, <2>2, <2>3 DEF TurnTypeOK
<1>4. ViewIs /\ SubmitWasLast /\ NoVerdictYet /\ NothingRead
  BY <1>1 DEF ViewIs, SubmitWasLast, NoVerdictYet, NothingRead, NoView
<1>5. PollsAgree
  BY <1>1, <1>2 DEF PollsAgree, NoView
<1>6. TurnIsReal /\ TurnIsNoticed /\ SubmissionIsReal
  BY <1>1 DEF TurnIsReal, TurnIsNoticed, SubmissionIsReal, Shown
<1>. QED
  BY <1>3, <1>4, <1>5, <1>6 DEF TInv

\* Until the verdict, the site's moves are nobody's business.
LEMMA SiteKeeps ==
  ASSUME TInv, SiteMoves
  PROVE  TInv'
<1>1. turn.pc # "over" /\ UNCHANGED <<turn, pollVars, observed>> /\ screen' \in Screens
  BY DEF SiteMoves
<1>2. TurnTypeOK' /\ ViewIs' /\ SubmitWasLast' /\ NoVerdictYet' /\ NothingRead'
  BY <1>1 DEF TInv, TurnTypeOK, ViewIs, SubmitWasLast, NoVerdictYet, NothingRead, pollVars
<1>3. PollsAgree'
  BY <1>1 DEF TInv, PollsAgree, pollVars
<1>4. TurnIsReal' /\ TurnIsNoticed' /\ SubmissionIsReal'
  BY <1>1 DEF TurnIsReal, TurnIsNoticed, SubmissionIsReal, Shown
<1>. QED
  BY <1>2, <1>3, <1>4 DEF TInv

\* A step that leads to a verdict, or none.
LEMMA Verdicts ==
  ASSUME TInv, UNCHANGED <<screen, observed>>,
         turn' \in [pc : {"poll", "over"}, last : {turn.last}, polls : 0..(MaxTurnPolls - 1),
                    result : {"none", "not clicked", "error", "turned", "not turned"}],
         turn.pc \in {"click", "poll"},
         turn'.pc = "poll" => turn'.result = "none",
         \A r \in {before', changed', view'.fingerprint} : r.read \in BOOLEAN /\ IsFiniteSet(r.fields),
         stableCount' \in {NoCount} \cup Nat, torn' \in BOOLEAN, ViewIs', PollsAgree',
         TurnIsReal', TurnIsNoticed', SubmissionIsReal'
  PROVE  TInv'
<1>1. /\ screen \in Screens /\ observed \in [next : Buttons, submit : Buttons]
      /\ turn.last \in BOOLEAN
  BY DEF TInv, TurnTypeOK
<1>2. /\ turn'.pc \in {"poll", "over"} /\ turn'.last = turn.last
      /\ turn' \in [pc : {"filled", "click", "poll", "over"}, last : BOOLEAN,
                   polls : 0..(MaxTurnPolls - 1),
                   result : {"none", "not clicked", "error", "turned", "not turned"}]
  BY <1>1
<1>3. TurnTypeOK'
  BY <1>1, <1>2 DEF TurnTypeOK
<1>4. SubmitWasLast' /\ NoVerdictYet' /\ NothingRead'
  BY <1>2 DEF TInv, SubmitWasLast, NoVerdictYet, NothingRead
<1>. QED
  BY <1>3, <1>4 DEF TInv

\* The locals of the engine.
LEMMA TurnIs ==
  ASSUME TurnTypeOK
  PROVE  /\ turn = [pc |-> turn.pc, last |-> turn.last, polls |-> turn.polls, result |-> turn.result]
         /\ turn.last \in BOOLEAN /\ turn.polls \in 0..(MaxTurnPolls - 1)
<1>1. turn \in [pc : {"filled", "click", "poll", "over"}, last : BOOLEAN,
               polls : 0..(MaxTurnPolls - 1),
               result : {"none", "not clicked", "error", "turned", "not turned"}]
  BY Zenon DEF TurnTypeOK
<1>. QED
  BY <1>1

\* A verdict.
LEMMA OverIs ==
  ASSUME TurnTypeOK, NEW how, Over(how)
  PROVE  turn' = [pc |-> "over", last |-> turn.last, polls |-> turn.polls, result |-> how]
BY TurnIs DEF Over

\* Another poll, or the end of them.
LEMMA KeepIs ==
  ASSUME TurnTypeOK, KeepPolling
  PROVE  \E polls \in 0..(MaxTurnPolls - 1) :
           \/ turn' = [pc |-> turn.pc, last |-> turn.last, polls |-> polls, result |-> turn.result]
           \/ turn' = [pc |-> "over", last |-> turn.last, polls |-> polls, result |-> "not turned"]
<1>1. CASE turn.polls + 1 < MaxTurnPolls
  <2>1. turn' = [turn EXCEPT !.polls = @ + 1]
    BY <1>1 DEF KeepPolling
  <2>2. turn' = [pc |-> turn.pc, last |-> turn.last, polls |-> turn.polls + 1, result |-> turn.result]
    BY <2>1, TurnIs
  <2>3. turn.polls + 1 \in 0..(MaxTurnPolls - 1)
    BY <1>1, TurnIs, PollsAssumption
  <2>. QED
    BY <2>2, <2>3
<1>2. CASE ~(turn.polls + 1 < MaxTurnPolls)
  <2>1. Over("not turned")
    BY <1>2 DEF KeepPolling
  <2>. QED
    BY <2>1, OverIs, TurnIs
<1>. QED
  BY <1>1, <1>2

\* The fields that the engine remembers.
LEMMA ReadsAre ==
  ASSUME TurnTypeOK
  PROVE  /\ screen \in Screens
         /\ before.read \in BOOLEAN /\ IsFiniteSet(before.fields)
         /\ changed.read \in BOOLEAN /\ IsFiniteSet(changed.fields)
         /\ view.fingerprint.read \in BOOLEAN /\ IsFiniteSet(view.fingerprint.fields)
         /\ stableCount \in {NoCount} \cup Nat /\ torn \in BOOLEAN
BY Zenon DEF TurnTypeOK

\* The page is left to the clicks, Submit only after a look at Next.
LEMMA DecideKeeps ==
  ASSUME TInv, Decide
  PROVE  TInv'
<1>1. PICK last \in BOOLEAN :
        /\ turn' = [turn EXCEPT !.pc = "click", !.last = last]
        /\ observed' \in {observed, Actions(screen)}
        /\ last => observed'.next # "on"
  BY DEF Decide, IsLast
<1>2. turn.pc = "filled" /\ turn.result = "none" /\ UNCHANGED <<screen, pollVars>>
  BY DEF Decide, TInv, NoVerdictYet
<1>3. turn' = [pc |-> "click", last |-> last, polls |-> turn.polls, result |-> "none"]
  BY <1>1, <1>2, TurnIs DEF TInv
<1>4. TurnTypeOK'
  <2>1. observed' \in [next : Buttons, submit : Buttons]
    <3>1. observed \in [next : Buttons, submit : Buttons]
      BY Zenon DEF TInv, TurnTypeOK
    <3>. QED
      BY <1>1, <3>1, ScreenIs, ReadsAre DEF TInv, Actions
  <2>2. turn' \in [pc : {"filled", "click", "poll", "over"}, last : BOOLEAN,
                 polls : 0..(MaxTurnPolls - 1),
                 result : {"none", "not clicked", "error", "turned", "not turned"}]
    BY <1>3, TurnIs DEF TInv
  <2>. QED
    BY <1>2, <2>1, <2>2 DEF TInv, TurnTypeOK, pollVars
<1>5. SubmitWasLast' /\ NoVerdictYet' /\ NothingRead' /\ ViewIs'
  BY <1>1, <1>2, <1>3 DEF TInv, SubmitWasLast, NoVerdictYet, NothingRead, ViewIs, pollVars
<1>6. PollsAgree'
  BY <1>2 DEF TInv, PollsAgree, pollVars
<1>7. TurnIsReal' /\ TurnIsNoticed' /\ SubmissionIsReal'
  BY <1>3 DEF TurnIsReal, TurnIsNoticed, SubmissionIsReal, Shown
<1>. QED
  BY <1>4, <1>5, <1>6, <1>7 DEF TInv

\* What a click makes of the engine.
LEMMA ClickIs ==
  ASSUME TInv, turn.pc = "click", NEW inDom, Clicked(inDom) \/ turn' = [turn EXCEPT !.pc = "poll"]
  PROVE  \E pc \in {"poll", "over"} : \E how \in {"none", "not clicked", "error"} :
           /\ turn' = [pc |-> pc, last |-> turn.last, polls |-> turn.polls, result |-> how]
           /\ pc = "poll" => how = "none"
<1>1. turn.result = "none"
  BY DEF TInv, NoVerdictYet
<1>2. CASE turn' = [turn EXCEPT !.pc = "poll"]
  BY <1>1, <1>2, TurnIs DEF TInv
<1>3. CASE Over("not clicked")
  BY <1>3, OverIs DEF TInv
<1>4. CASE Over("error")
  BY <1>4, OverIs DEF TInv
<1>. QED
  BY <1>2, <1>3, <1>4 DEF Clicked

\* A click starts the polls with nothing to compare but the fields before it.
LEMMA ClickKeeps ==
  ASSUME TInv, ClickOn \/ ClickLast
  PROVE  TInv'
<1>1. /\ turn.pc = "click" /\ UNCHANGED <<screen, changed, stableCount, view, torn, observed>>
      /\ before' \in Fingerprints(screen) \cup {before}
      /\ changed = Unread /\ stableCount = NoCount /\ view = NoView
  BY DEF ClickOn, ClickLast, pollVars, TInv, NothingRead
<1>2. PICK pc \in {"poll", "over"}, how \in {"none", "not clicked", "error"} :
        /\ turn' = [pc |-> pc, last |-> turn.last, polls |-> turn.polls, result |-> how]
        /\ pc = "poll" => how = "none"
  BY <1>1, ClickIs DEF ClickOn, ClickLast
<1>3. Unread.read = FALSE /\ NoView.fingerprint = Unread
  BY DEF Unread, NoView
<1>4. before'.read \in BOOLEAN /\ IsFiniteSet(before'.fields)
  BY <1>1, ScreenIs, ReadsAre DEF TInv
<1>5. \A r \in {before', changed', view'.fingerprint} : r.read \in BOOLEAN /\ IsFiniteSet(r.fields)
  BY <1>1, <1>4, ReadsAre DEF TInv
<1>6. PollsAgree'
  BY <1>1, <1>3 DEF PollsAgree
<1>7. TurnIsReal' /\ TurnIsNoticed' /\ SubmissionIsReal'
  BY <1>2 DEF TurnIsReal, TurnIsNoticed, SubmissionIsReal, Shown
<1>8. turn' \in [pc : {"poll", "over"}, last : {turn.last}, polls : 0..(MaxTurnPolls - 1),
               result : {"none", "not clicked", "error", "turned", "not turned"}]
      /\ (turn'.pc = "poll" => turn'.result = "none")
  BY <1>2, TurnIs DEF TInv
<1>9. stableCount' \in {NoCount} \cup Nat /\ torn' \in BOOLEAN /\ ViewIs'
  BY <1>1, ReadsAre DEF TInv, ViewIs
<1>. QED
  BY <1>1, <1>5, <1>6, <1>7, <1>8, <1>9, Verdicts

\* A poll that ends the turn.
LEMMA PollEnds ==
  ASSUME TInv, turn.pc = "poll", NEW how \in {"error", "turned"}, Over(how)
  PROVE  /\ turn' \in [pc : {"poll", "over"}, last : {turn.last}, polls : 0..(MaxTurnPolls - 1),
                      result : {"none", "not clicked", "error", "turned", "not turned"}]
         /\ turn'.pc = "over" /\ turn'.result = how /\ turn'.last = turn.last
<1>1. turn' = [pc |-> "over", last |-> turn.last, polls |-> turn.polls, result |-> how]
  BY OverIs DEF TInv
<1>2. turn.polls \in 0..(MaxTurnPolls - 1)
  BY TurnIs DEF TInv
<1>. QED
  BY <1>1, <1>2

\* A poll that does not tell.
LEMMA PollGoesOn ==
  ASSUME TInv, turn.pc = "poll", KeepPolling
  PROVE  /\ turn' \in [pc : {"poll", "over"}, last : {turn.last}, polls : 0..(MaxTurnPolls - 1),
                      result : {"none", "not clicked", "error", "turned", "not turned"}]
         /\ turn'.last = turn.last
         /\ turn'.pc = "poll" => turn'.result = "none"
         /\ turn'.result \in {"none", "not turned"}
<1>1. turn.result = "none"
  BY DEF TInv, NoVerdictYet
<1>2. PICK polls \in 0..(MaxTurnPolls - 1), pc \in {"poll", "over"}, how \in {"none", "not turned"} :
        /\ turn' = [pc |-> pc, last |-> turn.last, polls |-> polls, result |-> how]
        /\ pc = "poll" => how = "none"
  BY <1>1, KeepIs DEF TInv
<1>. QED
  BY <1>2

\* A page that cannot be read tells nothing, but for a document that was replaced.
LEMMA FailsKeeps ==
  ASSUME TInv, PollFails
  PROVE  TInv'
<1>1. /\ turn.pc = "poll" /\ UNCHANGED <<screen, before, changed, stableCount, observed>>
      /\ view' = [view EXCEPT !.old = TRUE]
  BY DEF PollFails
<1>2. view' = [page |-> view.page, fingerprint |-> view.fingerprint, old |-> TRUE]
  BY <1>1 DEF TInv, ViewIs
<1>3. /\ turn' \in [pc : {"poll", "over"}, last : {turn.last}, polls : 0..(MaxTurnPolls - 1),
                   result : {"none", "not clicked", "error", "turned", "not turned"}]
      /\ turn'.pc = "poll" => turn'.result = "none"
      /\ turn'.result = "turned" => torn'
      /\ torn' \in BOOLEAN
  <2>1. CASE Over("error") /\ UNCHANGED torn
    BY <1>1, <2>1, PollEnds, ReadsAre DEF TInv
  <2>2. CASE Over("turned") /\ torn' = TRUE
    BY <1>1, <2>2, PollEnds
  <2>3. CASE KeepPolling /\ UNCHANGED torn
    BY <1>1, <2>3, PollGoesOn, ReadsAre DEF TInv
  <2>. QED
    BY <2>1, <2>2, <2>3 DEF PollFails
<1>4. \A r \in {before', changed', view'.fingerprint} : r.read \in BOOLEAN /\ IsFiniteSet(r.fields)
  BY <1>1, <1>2, ReadsAre DEF TInv
<1>5. stableCount' \in {NoCount} \cup Nat
  BY <1>1, ReadsAre DEF TInv
<1>6. ViewIs' /\ PollsAgree'
  BY <1>1, <1>2 DEF TInv, PollsAgree, ViewIs
<1>7. TurnIsReal' /\ SubmissionIsReal'
  BY <1>1, <1>3 DEF TurnIsReal, SubmissionIsReal, Shown
<1>8. TurnIsNoticed'
  BY <1>2 DEF TurnIsNoticed
<1>. QED
  BY <1>1, <1>3, <1>4, <1>5, <1>6, <1>7, <1>8, Verdicts

\* The URL or the buttons tell.
LEMMA TellsKeeps ==
  ASSUME TInv, PollTells
  PROVE  TInv'
<1>1. /\ turn.pc = "poll" /\ UNCHANGED <<screen, before, changed, stableCount, view, torn, observed>>
      /\ Over("turned")
      /\ ~screen.sameUrl \/ (turn.last /\ screen.submit = "none") \/ (~turn.last /\ screen.next # "on")
  BY DEF PollTells, pollVars
<1>2. /\ turn' \in [pc : {"poll", "over"}, last : {turn.last}, polls : 0..(MaxTurnPolls - 1),
                   result : {"none", "not clicked", "error", "turned", "not turned"}]
      /\ turn'.pc = "over" /\ turn'.result = "turned" /\ turn'.last = turn.last
  BY <1>1, PollEnds
<1>3. \A r \in {before', changed', view'.fingerprint} : r.read \in BOOLEAN /\ IsFiniteSet(r.fields)
  BY <1>1, ReadsAre DEF TInv
<1>4. stableCount' \in {NoCount} \cup Nat /\ torn' \in BOOLEAN
  BY <1>1, ReadsAre DEF TInv
<1>5. ViewIs' /\ PollsAgree'
  BY <1>1, <1>2 DEF TInv, PollsAgree, ViewIs
<1>6. TurnIsReal' /\ SubmissionIsReal' /\ TurnIsNoticed'
  BY <1>1, <1>2 DEF TurnIsReal, SubmissionIsReal, TurnIsNoticed, Shown
<1>. QED
  BY <1>1, <1>2, <1>3, <1>4, <1>5, <1>6, Verdicts

\* After Submit nothing else counts.
LEMMA SubmitKeeps ==
  ASSUME TInv, PollSubmit
  PROVE  TInv'
<1>1. /\ turn.pc = "poll" /\ turn.last /\ KeepPolling
      /\ UNCHANGED <<screen, before, changed, stableCount, view, torn, observed>>
  BY DEF PollSubmit, pollVars
<1>2. /\ turn' \in [pc : {"poll", "over"}, last : {turn.last}, polls : 0..(MaxTurnPolls - 1),
                   result : {"none", "not clicked", "error", "turned", "not turned"}]
      /\ turn'.last = turn.last /\ turn'.result \in {"none", "not turned"}
      /\ turn'.pc = "poll" => turn'.result = "none"
  BY <1>1, PollGoesOn
<1>3. \A r \in {before', changed', view'.fingerprint} : r.read \in BOOLEAN /\ IsFiniteSet(r.fields)
  BY <1>1, ReadsAre DEF TInv
<1>4. stableCount' \in {NoCount} \cup Nat /\ torn' \in BOOLEAN
  BY <1>1, ReadsAre DEF TInv
<1>5. ViewIs' /\ PollsAgree'
  BY <1>1, <1>2 DEF TInv, PollsAgree, ViewIs
<1>6. TurnIsReal' /\ SubmissionIsReal' /\ TurnIsNoticed'
  BY <1>1, <1>2 DEF TurnIsReal, SubmissionIsReal, TurnIsNoticed, Shown
<1>. QED
  BY <1>1, <1>2, <1>3, <1>4, <1>5, <1>6, Verdicts

-----------------------------------------------------------------------------
\* A poll that compares fields: what it read, in a state where no other sign tells.
LEMMA ChangedTells ==
  ASSUME TInv, turn.pc = "poll", NEW now, now.read, IsFiniteSet(now.fields), before.read,
         now # before, PollChanged(now)
  PROVE  \/ /\ Over("turned")
            /\ MostGone(before.fields, now.fields)
            /\ view.fingerprint.read /\ MostGone(before.fields, view.fingerprint.fields)
            /\ stableCount' \in {NoCount} \cup Nat
            /\ changed' \in {changed, now}
         \/ /\ KeepPolling /\ changed' = now
            /\ changed = now => ~MostGone(before.fields, now.fields)
            /\ \/ stableCount' = NoCount
               \/ /\ MostGone(before.fields, now.fields)
                  /\ stableCount' = Cardinality(now.fields)
<1>1. PollsAgree /\ Cardinality(now.fields) \in Nat /\ Cardinality(now.fields) # NoCount
      /\ stableCount \in {NoCount} \cup Nat
  BY Counts, ReadsAre DEF TInv
<1>2. CASE Turnover(now) /\ changed = now
  BY <1>1, <1>2 DEF PollChanged, Turnover, PollsAgree
<1>3. CASE ~(Turnover(now) /\ changed = now) /\ Turnover(now) /\ FarFrom(now)
  BY <1>1, <1>3 DEF PollChanged, Turnover, PollsAgree
<1>4. CASE ~(Turnover(now) /\ changed = now) /\ ~(Turnover(now) /\ FarFrom(now))
  BY <1>1, <1>4 DEF PollChanged, Turnover
<1>. QED
  BY <1>2, <1>3, <1>4

\* A poll that compares fields keeps what is said of the verdict and of the next poll.
LEMMA FieldsKeeps ==
  ASSUME TInv, PollFields
  PROVE  TInv'
<1>. PICK now \in Fingerprints(screen) :
       /\ IF before.read /\ now.read /\ now # before THEN PollChanged(now)
          ELSE KeepPolling /\ changed' = Unread /\ stableCount' = NoCount
       /\ view' = IF turn'.pc = "over" THEN [view EXCEPT !.old = @ \/ ~now.read]
                  ELSE [page |-> screen.page, fingerprint |-> now, old |-> FALSE]
  BY DEF PollFields
<1>1. /\ turn.pc = "poll" /\ ~turn.last /\ screen.next = "on"
      /\ UNCHANGED <<screen, before, torn, observed>> /\ torn \in BOOLEAN
  BY ReadsAre DEF PollFields, TInv
<1>2. /\ before.read \in BOOLEAN /\ IsFiniteSet(before.fields)
      /\ changed.read \in BOOLEAN /\ IsFiniteSet(changed.fields)
      /\ view.fingerprint.read \in BOOLEAN /\ IsFiniteSet(view.fingerprint.fields)
      /\ PollsAgree
  BY ReadsAre DEF TInv
<1>3. /\ now.read \in BOOLEAN /\ IsFiniteSet(now.fields)
      /\ now.read => now = NamesIn(screen) /\ now.fields = screen.fields
      /\ ~now.read => now = Unread
  BY ScreenIs, ReadsAre DEF TInv
<1>4. Unread.read = FALSE /\ IsFiniteSet(Unread.fields)
  BY FS_EmptySet DEF Unread
<1>5. /\ turn'.pc = "over" => /\ view'.fingerprint = view.fingerprint /\ view'.page = view.page
                              /\ view'.old = (view.old \/ ~now.read)
      /\ turn'.pc # "over" => view'.fingerprint = now
      /\ ViewIs'
  BY DEF TInv, ViewIs
<1>6. CASE ~(before.read /\ now.read /\ now # before)
  <2>1. KeepPolling /\ changed' = Unread /\ stableCount' = NoCount
    BY <1>6
  <2>2. /\ turn' \in [pc : {"poll", "over"}, last : {turn.last}, polls : 0..(MaxTurnPolls - 1),
                     result : {"none", "not clicked", "error", "turned", "not turned"}]
        /\ turn'.result \in {"none", "not turned"}
        /\ turn'.pc = "poll" => turn'.result = "none"
    BY <1>1, <2>1, PollGoesOn
  <2>3. \A r \in {before', changed', view'.fingerprint} : r.read \in BOOLEAN /\ IsFiniteSet(r.fields)
    BY <1>1, <1>2, <1>3, <1>4, <1>5, <2>1
  <2>4. PollsAgree'
    BY <1>1, <1>3, <1>4, <1>5, <1>6, <2>1, <2>2 DEF PollsAgree
  <2>5. TurnIsReal' /\ SubmissionIsReal'
    BY <2>2 DEF TurnIsReal, SubmissionIsReal, Shown
  <2>6. ASSUME turn'.pc = "over", view'.old = FALSE, before.read, MostGone(before.fields, screen.fields)
        PROVE  FALSE
    <3>1. now = NamesIn(screen) /\ now.read /\ now.fields = screen.fields
      BY <1>3, <1>5, <2>6
    <3>2. now = before
      BY <1>6, <2>6, <3>1
    <3>. QED
      BY <1>2, <2>6, <3>1, <3>2, SameIsNotGone
  <2>7. TurnIsNoticed'
    BY <1>1, <2>6 DEF TurnIsNoticed, Shown
  <2>. QED
    BY <1>1, <1>5, <2>1, <2>2, <2>3, <2>4, <2>5, <2>7, Verdicts
<1>7. CASE before.read /\ now.read /\ now # before
  <2>. DEFINE Tells == /\ Over("turned")
                       /\ MostGone(before.fields, now.fields)
                       /\ view.fingerprint.read /\ MostGone(before.fields, view.fingerprint.fields)
                       /\ stableCount' \in {NoCount} \cup Nat
                       /\ changed' \in {changed, now}
              GoesOn == /\ KeepPolling /\ changed' = now
                        /\ changed = now => ~MostGone(before.fields, now.fields)
                        /\ \/ stableCount' = NoCount
                           \/ /\ MostGone(before.fields, now.fields)
                              /\ stableCount' = Cardinality(now.fields)
  <2>1. Tells \/ GoesOn
    BY <1>1, <1>3, <1>7, ChangedTells
  <2>2. /\ stableCount' \in {NoCount} \cup Nat
        /\ \A r \in {before', changed', view'.fingerprint} : r.read \in BOOLEAN /\ IsFiniteSet(r.fields)
    <3>1. Cardinality(now.fields) \in Nat
      BY <1>3, FS_CardinalityType
    <3>2. stableCount' \in {NoCount} \cup Nat /\ changed' \in {changed, now}
      BY <2>1, <3>1
    <3>. HIDE DEF Tells, GoesOn
    <3>. QED
      BY <1>1, <1>2, <1>3, <1>5, <3>2
  <2>3. CASE Tells
    <3>1. /\ turn' \in [pc : {"poll", "over"}, last : {turn.last}, polls : 0..(MaxTurnPolls - 1),
                       result : {"none", "not clicked", "error", "turned", "not turned"}]
          /\ turn'.pc = "over" /\ turn'.result = "turned" /\ turn'.last = turn.last
      BY <1>1, <2>3, PollEnds
    <3>2. PollsAgree' /\ TurnIsNoticed' /\ SubmissionIsReal'
      BY <1>1, <3>1 DEF PollsAgree, TurnIsNoticed, SubmissionIsReal
    <3>3. \A fields \in {screen.fields, view.fingerprint.fields} : MostGone(before.fields, fields)
      BY <1>3, <1>7, <2>3
    <3>4. TurnIsReal'
      BY <1>1, <1>5, <1>7, <2>3, <3>1, <3>3 DEF TurnIsReal
    <3>. QED
      BY <1>1, <1>5, <2>2, <3>1, <3>2, <3>4, Verdicts
  <2>4. CASE GoesOn
    <3>1. /\ turn' \in [pc : {"poll", "over"}, last : {turn.last}, polls : 0..(MaxTurnPolls - 1),
                       result : {"none", "not clicked", "error", "turned", "not turned"}]
          /\ turn'.result \in {"none", "not turned"}
          /\ turn'.pc = "poll" => turn'.result = "none"
      BY <1>1, <2>4, PollGoesOn
    <3>2. PollsAgree'
      BY <1>1, <1>5, <1>7, <2>4 DEF PollsAgree
    <3>3. TurnIsReal' /\ SubmissionIsReal'
      BY <3>1 DEF TurnIsReal, SubmissionIsReal, Shown
    <3>4. ASSUME turn'.pc = "over", view'.fingerprint = NamesIn(screen),
                 MostGone(before.fields, screen.fields)
          PROVE  FALSE
      <4>1. view.fingerprint = now /\ now.fields = screen.fields
        BY <1>3, <1>5, <1>7, <3>4
      <4>2. changed = now
        BY <1>1, <1>2, <1>7, <4>1 DEF PollsAgree
      <4>. QED
        BY <2>4, <3>4, <4>1, <4>2
    <3>5. TurnIsNoticed'
      BY <1>1, <3>4 DEF TurnIsNoticed, Shown, NamesIn
    <3>. QED
      BY <1>1, <1>5, <2>2, <3>1, <3>2, <3>3, <3>5, Verdicts
  <2>. QED
    BY <2>1, <2>3, <2>4
<1>. QED
  BY <1>6, <1>7

\* Every step keeps TInv.
LEMMA NextKeepsTInv == TInv /\ [TurnNext]_turnVars => TInv'
<1>. SUFFICES ASSUME TInv, [TurnNext]_turnVars PROVE TInv'
  OBVIOUS
<1>1. CASE UNCHANGED turnVars
  BY <1>1 DEF turnVars, pollVars, TInv, TurnTypeOK, ViewIs, SubmitWasLast, NoVerdictYet, NothingRead,
              PollsAgree, TurnIsReal, TurnIsNoticed, SubmissionIsReal, Shown
<1>. QED
  BY <1>1, SiteKeeps, DecideKeeps, ClickKeeps, FailsKeeps, TellsKeeps, SubmitKeeps, FieldsKeeps
  DEF TurnNext, LeavePage

\* TInv holds in every reachable state.
LEMMA TInvHolds == TurnSpec => []TInv
BY InitTInv, NextKeepsTInv, PTL DEF TurnSpec

\* Every reachable state of the turn has its types.
THEOREM TurnTypes == TurnSpec => []TurnTypeOK
<1>1. TInv => TurnTypeOK
  BY DEF TInv
<1>. QED
  BY <1>1, TInvHolds, PTL

\* Whatever a site shows while it is polled, a page that is there with its Next button is
\* taken for turned only if its document was replaced under a poll, or two readings on end
\* lacked most of its fields.
THEOREM TurnsAreReal == TurnSpec => []TurnIsReal
<1>1. TInv => TurnIsReal
  BY DEF TInv
<1>. QED
  BY <1>1, TInvHolds, PTL

\* A page that did turn, and was read twice on end as it is, is missed only if half of the
\* fields from before are on it again.
THEOREM TurnsAreNoticed == TurnSpec => []TurnIsNoticed
<1>1. TInv => TurnIsNoticed
  BY DEF TInv
<1>. QED
  BY <1>1, TInvHolds, PTL

\* No application counts as submitted while its button is to be seen, disabled or not, in
\* a document that no poll saw replaced.
THEOREM SubmissionsAreReal == TurnSpec => []SubmissionIsReal
<1>1. TInv => SubmissionIsReal
  BY DEF TInv
<1>. QED
  BY <1>1, TInvHolds, PTL

\* Submit is not clicked if the last observation had a Next button to click.
THEOREM SubmitComesLast == TurnSpec => []LastIsLast
<1>1. TInv => LastIsLast
  BY DEF TInv, SubmitWasLast, LastIsLast
<1>. QED
  BY <1>1, TInvHolds, PTL

-----------------------------------------------------------------------------
(* The manuals: workers that overwrite each other's updates, computed from *)
(* rows as they were read, may lose an outcome, but never invent one.      *)

\* Jobs that have yet to record an outcome of a manual.
Unrecorded(i, pcs) == {e \in Engines : engine[e].id = i /\ engine[e].pc \in pcs}

\* The successes and failures that are recorded by now, or never will be.
Good(i) == outcome[i].good - Cardinality(Unrecorded(i, {"success", "raise"}))
Bad(i) == outcome[i].bad - Cardinality(Unrecorded(i, {"failure", "lower"}))

\* A row that these can account for.
IsEarned(r, start, good, bad) ==
  /\ r.successes <= good /\ r.failures <= bad
  /\ r.health <= start + Bonus * good
  /\ r.health >= start - SeverePenalty * bad

\* The inductive invariant: so can they for every row, and for every row as a job has
\* read it and will write it back.
ManualInv ==
  /\ ManualTypeOK
  /\ \A i \in Ids : outcome[i].good + outcome[i].bad <= MaxOutcomes /\ (Exists(i) \/ manual[i].health = 0)
  /\ \A e \in Engines : engine[e].pc \notin {"off", "handler"} => engine[e].id \in Ids /\ Exists(engine[e].id)
  /\ \A i \in Ids : IsEarned(manual[i], manual[i].start, Good(i), Bad(i))
  /\ \A e \in Engines, i \in Ids : engine[e].id = i /\ engine[e].pc \in {"raise", "lower"} =>
       IsEarned(engine[e].read, manual[i].start, Good(i), Bad(i))

\* Multiplication by a natural number is monotone on the integers.
LEMMA Products ==
  ASSUME NEW c \in Nat, NEW a \in Int, NEW b \in Int, a <= b
  PROVE  c * a <= c * b /\ c * (a + 1) = c * a + c /\ c * a \in Int /\ c * b \in Int
OBVIOUS

\* What can account for a row still can when there is more.
LEMMA EarnedStays ==
  ASSUME NEW r \in Row, NEW start \in Int, NEW good \in Int, NEW bad \in Int, NEW more \in Int, NEW worse \in Int,
         IsEarned(r, start, good, bad), good <= more, bad <= worse
  PROVE  IsEarned(r, start, more, worse)
<1>1. /\ r.successes \in Nat /\ r.failures \in Nat /\ r.health \in Int
      /\ Bonus \in Nat /\ SeverePenalty \in Nat
  BY ManualAssumption DEF Row
<1>2. Bonus * good <= Bonus * more /\ SeverePenalty * bad <= SeverePenalty * worse
  BY <1>1, Products
<1>3. Bonus * good \in Int /\ Bonus * more \in Int /\ SeverePenalty * bad \in Int /\ SeverePenalty * worse \in Int
  BY <1>1, Products
<1>4. r.successes <= more /\ r.failures <= worse
  BY <1>1 DEF IsEarned
<1>5. r.health <= start + Bonus * more
  BY <1>1, <1>2, <1>3 DEF IsEarned
<1>6. r.health >= start - SeverePenalty * worse
  BY <1>1, <1>2, <1>3 DEF IsEarned
<1>. QED
  BY <1>4, <1>5, <1>6 DEF IsEarned

\* Jobs that have yet to record an outcome, when one job goes on.
LEMMA OneGoesOn ==
  ASSUME NEW e \in Engines, \A d \in Engines : d # e => engine'[d] = engine[d], NEW i, NEW pcs
  PROVE  /\ Cardinality(Unrecorded(i, pcs)) \in Nat /\ Cardinality(Unrecorded(i, pcs)') \in Nat
         /\ e \in Unrecorded(i, pcs) /\ e \notin Unrecorded(i, pcs)' =>
              Cardinality(Unrecorded(i, pcs)') = Cardinality(Unrecorded(i, pcs)) - 1
         /\ e \notin Unrecorded(i, pcs) /\ e \in Unrecorded(i, pcs)' =>
              Cardinality(Unrecorded(i, pcs)') = Cardinality(Unrecorded(i, pcs)) + 1
         /\ (e \in Unrecorded(i, pcs) <=> e \in Unrecorded(i, pcs)') =>
              Cardinality(Unrecorded(i, pcs)') = Cardinality(Unrecorded(i, pcs))
<1>. DEFINE old == Unrecorded(i, pcs)
            now == Unrecorded(i, pcs)'
<1>2. /\ old \in SUBSET Engines /\ now \in SUBSET Engines
      /\ \A d \in Engines : d # e => (d \in old <=> d \in now)
  BY DEF Unrecorded
<1>. HIDE DEF old, now
<1>3. IsFiniteSet(old) /\ IsFiniteSet(now) /\ Cardinality(old) \in Nat /\ Cardinality(now) \in Nat
  BY <1>2, ManualAssumption, FS_Subset, FS_CardinalityType
<1>4. e \in old /\ e \notin now => Cardinality(now) = Cardinality(old) - 1
  <2>1. e \in old /\ e \notin now => now = old \ {e}
    BY <1>2
  <2>. QED
    BY <1>3, <2>1, FS_RemoveElement
<1>5. e \notin old /\ e \in now => Cardinality(now) = Cardinality(old) + 1
  <2>1. e \notin old /\ e \in now => now = old \cup {e}
    BY <1>2
  <2>. QED
    BY <1>3, <2>1, FS_AddElement
<1>6. (e \in old <=> e \in now) => now = old
  BY <1>2
<1>. QED
  BY <1>2, <1>3, <1>4, <1>5, <1>6 DEF old, now

\* What is left to show of a step, by which one job at most goes on.
LEMMA ManualsKeep ==
  ASSUME ManualInv, NEW e \in Engines, NEW x \in EngineStates, engine' = [engine EXCEPT ![e] = x],
         manual' \in [Ids -> Row], outcome' \in [Ids -> [good : 0..MaxOutcomes, bad : 0..MaxOutcomes]],
         \A i \in Ids :
           /\ outcome'[i].good + outcome'[i].bad <= MaxOutcomes
           /\ Good(i) <= Good(i)' /\ Bad(i) <= Bad(i)'
           /\ Exists(i) => manual'[i].start = manual[i].start
           /\ \/ manual'[i] = manual[i]
              \/ manual'[i].start > 0 /\ IsEarned(manual'[i], manual'[i].start, Good(i)', Bad(i)')
           /\ x.id = i /\ x.pc \in {"raise", "lower"} =>
                IsEarned(x.read, manual[i].start, Good(i), Bad(i))
                \/ IsEarned(x.read, manual'[i].start, Good(i)', Bad(i)'),
         x.pc \notin {"off", "handler"} => x.id \in Ids /\ Exists(x.id)
  PROVE  ManualInv'
<1>t. /\ manual \in [Ids -> Row] /\ engine \in [Engines -> EngineStates]
      /\ outcome \in [Ids -> [good : 0..MaxOutcomes, bad : 0..MaxOutcomes]]
  BY DEF ManualInv, ManualTypeOK
<1>1. /\ \A d \in Engines : d # e => engine'[d] = engine[d]
      /\ engine'[e] = x /\ engine' \in [Engines -> EngineStates]
  BY <1>t
<1>2. ManualTypeOK'
  BY <1>t, <1>1 DEF ManualTypeOK
<1>3. \A i \in Ids : Good(i) \in Int /\ Bad(i) \in Int /\ Good(i)' \in Int /\ Bad(i)' \in Int
  <2>. SUFFICES ASSUME NEW i \in Ids
                PROVE  Good(i) \in Int /\ Bad(i) \in Int /\ Good(i)' \in Int /\ Bad(i)' \in Int
    OBVIOUS
  <2>1. /\ Cardinality(Unrecorded(i, {"success", "raise"})) \in Nat
        /\ Cardinality(Unrecorded(i, {"success", "raise"})') \in Nat
        /\ Cardinality(Unrecorded(i, {"failure", "lower"})) \in Nat
        /\ Cardinality(Unrecorded(i, {"failure", "lower"})') \in Nat
    BY <1>1, OneGoesOn
  <2>2. outcome[i].good \in Int /\ outcome[i].bad \in Int /\ outcome'[i].good \in Int /\ outcome'[i].bad \in Int
    BY <1>t, ManualAssumption
  <2>. QED
    BY <2>1, <2>2 DEF Good, Bad
<1>4. \A i \in Ids : manual[i].start \in Int /\ manual'[i].start \in Int
  BY <1>t, ManualAssumption DEF Row
<1>5. ASSUME NEW d \in Engines, engine'[d].pc \notin {"off", "handler"}
      PROVE  engine'[d].id \in Ids /\ manual'[engine'[d].id].start > 0
  <2>1. \A i \in Ids : Exists(i) => manual'[i].start > 0
    BY DEF Exists
  <2>2. engine'[d].id \in Ids /\ Exists(engine'[d].id)
    BY <1>1, <1>5 DEF ManualInv
  <2>. QED
    BY <2>1, <2>2
<1>6. ASSUME NEW i \in Ids
      PROVE  IsEarned(manual'[i], manual'[i].start, Good(i)', Bad(i)')
  <2>1. CASE manual'[i] = manual[i]
    <3>1. IsEarned(manual[i], manual[i].start, Good(i), Bad(i)) /\ manual[i] \in Row
      BY <1>t DEF ManualInv
    <3>. QED
      BY <1>3, <1>4, <2>1, <3>1, EarnedStays
  <2>. QED
    BY <2>1
<1>7. ASSUME NEW d \in Engines, NEW i \in Ids, engine'[d].id = i, engine'[d].pc \in {"raise", "lower"}
      PROVE  IsEarned(engine'[d].read, manual'[i].start, Good(i)', Bad(i)')
  <2>0. engine'[d].read \in Row
    BY <1>1 DEF EngineStates
  <2>1. CASE d # e
    <3>1. IsEarned(engine[d].read, manual[i].start, Good(i), Bad(i)) /\ Exists(i) /\ engine'[d] = engine[d]
      BY <1>1, <1>7, <2>1 DEF ManualInv
    <3>2. manual'[i].start = manual[i].start
      BY <3>1
    <3>. QED
      BY <1>3, <1>4, <2>0, <3>1, <3>2, EarnedStays
  <2>2. CASE d = e
    <3>1. x.id = i /\ Exists(i) /\ engine'[d] = x
      BY <1>1, <1>7, <2>2
    <3>2. manual'[i].start = manual[i].start
      BY <3>1
    <3>3. \/ IsEarned(x.read, manual[i].start, Good(i), Bad(i))
          \/ IsEarned(x.read, manual'[i].start, Good(i)', Bad(i)')
      BY <1>7, <3>1
    <3>. QED
      BY <1>3, <1>4, <2>0, <3>1, <3>2, <3>3, EarnedStays
  <2>. QED
    BY <2>1, <2>2
<1>8. \A i \in Ids : manual'[i].start > 0 \/ manual'[i].health = 0
  BY DEF ManualInv, Exists
<1>. QED
  BY <1>2, <1>5, <1>6, <1>7, <1>8 DEF ManualInv, Exists

\* No manual has a record yet.
LEMMA ManualStart == ManualInit => ManualInv
<1>. SUFFICES ASSUME ManualInit PROVE ManualInv
  OBVIOUS
<1>1. NoRow \in Row /\ Off \in EngineStates /\ Off.pc = "off"
  <2>1. NoRow \in Row
    BY ManualAssumption DEF NoRow, Row
  <2>2. 0 \in 0..MaxManuals /\ 0 \in 0..Steps
    BY ManualAssumption
  <2>. QED
    BY <2>1, <2>2 DEF Off, EngineStates
<1>2. ManualTypeOK
  BY <1>1, ManualAssumption DEF ManualInit, ManualTypeOK
<1>3. \A e \in Engines : engine[e].pc = "off"
  BY <1>1 DEF ManualInit
<1>4. ASSUME NEW i \in Ids
      PROVE  /\ outcome[i].good = 0 /\ outcome[i].bad = 0 /\ manual[i] = NoRow
             /\ Good(i) = 0 /\ Bad(i) = 0
  <2>1. Unrecorded(i, {"success", "raise"}) = {} /\ Unrecorded(i, {"failure", "lower"}) = {}
    BY <1>3 DEF Unrecorded
  <2>2. outcome[i].good = 0 /\ outcome[i].bad = 0 /\ manual[i] = NoRow
    BY DEF ManualInit
  <2>. QED
    BY <2>1, <2>2, FS_EmptySet DEF Good, Bad
<1>5. ASSUME NEW i \in Ids
      PROVE  IsEarned(manual[i], manual[i].start, Good(i), Bad(i)) /\ manual[i].health = 0
  BY <1>4, ManualAssumption DEF IsEarned, NoRow
<1>. QED
  BY <1>2, <1>3, <1>4, <1>5, ManualAssumption DEF ManualInv

\* Every step of an engine keeps ManualInv.
LEMMA ManualStep == ManualInv /\ [ManualNext]_manualVars => ManualInv'
<1>. SUFFICES ASSUME ManualInv, [ManualNext]_manualVars PROVE ManualInv'
  OBVIOUS
<1>t. /\ manual \in [Ids -> Row] /\ engine \in [Engines -> EngineStates]
      /\ outcome \in [Ids -> [good : 0..MaxOutcomes, bad : 0..MaxOutcomes]]
      /\ ManualTypeOK
  BY DEF ManualInv, ManualTypeOK
<1>n. /\ MaxManuals \in Nat /\ MaxOutcomes \in Nat /\ Steps \in Nat /\ Bonus \in Nat /\ SeverePenalty \in Nat
      /\ MaxHealth \in Nat /\ Penalty \in Nat /\ Penalty < MaxHealth /\ Penalty <= SeverePenalty
  BY ManualAssumption
<1>f. \A i \in Ids :
        /\ manual[i].health \in 0..MaxHealth /\ manual[i].start \in 0..MaxHealth
        /\ manual[i].successes \in 0..MaxOutcomes /\ manual[i].failures \in 0..MaxOutcomes
        /\ outcome[i].good \in 0..MaxOutcomes /\ outcome[i].bad \in 0..MaxOutcomes
        /\ outcome[i].good + outcome[i].bad <= MaxOutcomes
  BY <1>t DEF Row, ManualInv
<1>o. \A r \in Row : /\ r.health \in 0..MaxHealth /\ r.start \in 0..MaxHealth
                     /\ r.successes \in 0..MaxOutcomes /\ r.failures \in 0..MaxOutcomes
  BY DEF Row
<1>g. ASSUME NEW i \in Ids
      PROVE  /\ Good(i) \in Int /\ Bad(i) \in Int /\ Good(i) >= 0 /\ Bad(i) >= 0
             /\ Good(i) <= outcome[i].good /\ Bad(i) <= outcome[i].bad
  <2>1. /\ Cardinality(Unrecorded(i, {"success", "raise"})) \in Nat
        /\ Cardinality(Unrecorded(i, {"failure", "lower"})) \in Nat
    <3>1. Unrecorded(i, {"success", "raise"}) \in SUBSET Engines /\ Unrecorded(i, {"failure", "lower"}) \in SUBSET Engines
      BY DEF Unrecorded
    <3>. QED
      BY <3>1, ManualAssumption, FS_Subset, FS_CardinalityType
  <2>2. /\ outcome[i].good \in Nat /\ outcome[i].bad \in Nat
        /\ manual[i].successes \in Nat /\ manual[i].failures \in Nat
    BY <1>f, <1>n
  <2>3. manual[i].successes <= Good(i) /\ manual[i].failures <= Bad(i)
    BY DEF ManualInv, IsEarned
  <2>4. Good(i) \in Int /\ Bad(i) \in Int /\ Good(i) <= outcome[i].good /\ Bad(i) <= outcome[i].bad
    BY <2>1, <2>2 DEF Good, Bad
  <2>. QED
    BY <2>2, <2>3, <2>4
\* The jobs that have yet to record, and what follows for what is settled, when e goes on.
<1>c. ASSUME NEW e \in Engines, NEW x, engine' = [engine EXCEPT ![e] = x], NEW i \in Ids, UNCHANGED outcome,
             (x.id = i /\ x.pc \in {"success", "raise"}) => e \in Unrecorded(i, {"success", "raise"}),
             (x.id = i /\ x.pc \in {"failure", "lower"}) => e \in Unrecorded(i, {"failure", "lower"})
      PROVE  /\ Good(i) <= Good(i)' /\ Bad(i) <= Bad(i)' /\ Good(i)' \in Int /\ Bad(i)' \in Int
             /\ Good(i)' <= outcome[i].good /\ Bad(i)' <= outcome[i].bad
             /\ e \in Unrecorded(i, {"success", "raise"}) /\ ~(x.id = i /\ x.pc \in {"success", "raise"}) =>
                  Good(i)' = Good(i) + 1
             /\ e \in Unrecorded(i, {"failure", "lower"}) /\ ~(x.id = i /\ x.pc \in {"failure", "lower"}) =>
                  Bad(i)' = Bad(i) + 1
  <2>. PICK w, l : w = {"success", "raise"} /\ l = {"failure", "lower"}
    OBVIOUS
  <2>. PICK n, now, m, mow :
          /\ n = Cardinality(Unrecorded(i, w)) /\ now = Cardinality(Unrecorded(i, w)')
          /\ m = Cardinality(Unrecorded(i, l)) /\ mow = Cardinality(Unrecorded(i, l)')
    OBVIOUS
  <2>e. /\ \A d \in Engines : d # e => engine'[d] = engine[d]
        /\ engine'[e] = x
    BY <1>c, <1>t
  <2>w. \A pcs : e \in Unrecorded(i, pcs)' <=> x.id = i /\ x.pc \in pcs
    BY <2>e DEF Unrecorded
  <2>1. /\ n \in Nat /\ now \in Nat /\ (now = n \/ now = n - 1)
        /\ e \in Unrecorded(i, w) /\ ~(x.id = i /\ x.pc \in w) => now = n - 1
    BY <1>c, <2>e, <2>w, OneGoesOn
  <2>2. /\ m \in Nat /\ mow \in Nat /\ (mow = m \/ mow = m - 1)
        /\ e \in Unrecorded(i, l) /\ ~(x.id = i /\ x.pc \in l) => mow = m - 1
    BY <1>c, <2>e, <2>w, OneGoesOn
  <2>3. Good(i) = outcome[i].good - n /\ Good(i)' = outcome[i].good - now
    BY <1>c DEF Good
  <2>4. Bad(i) = outcome[i].bad - m /\ Bad(i)' = outcome[i].bad - mow
    BY <1>c DEF Bad
  <2>5. outcome[i].good \in Nat /\ outcome[i].bad \in Nat
    BY <1>f, <1>n
  <2>. QED
    BY <2>1, <2>2, <2>3, <2>4, <2>5
\* A job that goes on, and leaves the rows and the outcomes alone.
<1>k. ASSUME NEW e \in Engines, NEW x \in EngineStates, engine' = [engine EXCEPT ![e] = x],
             UNCHANGED <<manual, outcome>>,
             x.pc \notin {"off", "handler"} => x.id \in Ids /\ Exists(x.id),
             \A i \in Ids :
               /\ (x.id = i /\ x.pc \in {"success", "raise"}) => e \in Unrecorded(i, {"success", "raise"})
               /\ (x.id = i /\ x.pc \in {"failure", "lower"}) => e \in Unrecorded(i, {"failure", "lower"})
               /\ (x.id = i /\ x.pc \in {"raise", "lower"}) => x.read = manual[i]
      PROVE  ManualInv'
  <2>1. \A i \in Ids : Good(i) <= Good(i)' /\ Bad(i) <= Bad(i)'
    BY <1>k, <1>c
  <2>2. \A i \in Ids : (x.id = i /\ x.pc \in {"raise", "lower"}) => IsEarned(x.read, manual[i].start, Good(i), Bad(i))
    BY <1>k DEF ManualInv
  <2>. QED
    BY <1>k, <1>t, <1>f, <2>1, <2>2, ManualsKeep
<1>q. Off \in EngineStates /\ Off.pc = "off" /\ NoRow \in Row
  <2>1. NoRow \in Row
    BY <1>n DEF NoRow, Row
  <2>2. 0 \in 0..MaxManuals /\ 0 \in 0..Steps
    BY <1>n
  <2>. QED
    BY <2>1, <2>2 DEF Off, EngineStates
<1>1. ASSUME NEW e \in Engines, Lookup(e)
      PROVE  ManualInv'
  <2>1. CASE Living = {} /\ EngineAt(e, "handler")
    <3>. DEFINE x == [engine[e] EXCEPT !.pc = "handler"]
    <3>1. engine' = [engine EXCEPT ![e] = x] /\ x \in EngineStates /\ x.pc = "handler"
      BY <1>t, <2>1 DEF EngineAt, EngineStates
    <3>. HIDE DEF x
    <3>. QED
      BY <1>1, <1>k, <3>1 DEF Lookup
  <2>2. ASSUME NEW i \in Living, NEW pc \in {"replay", "handler"},
               engine' = [engine EXCEPT ![e] = [Off EXCEPT !.id = i, !.pc = pc]]
        PROVE  ManualInv'
    <3>. DEFINE x == [Off EXCEPT !.id = i, !.pc = pc]
    <3>1. i \in Ids /\ manual[i].health > 0 /\ i \in 0..MaxManuals
      BY <1>n DEF Living, Ids
    <3>2. x.id = i /\ x.pc = pc /\ x \in EngineStates
      BY <1>q, <3>1 DEF EngineStates
    <3>3. Exists(i)
      BY <3>1 DEF ManualInv
    <3>. HIDE DEF x
    <3>4. engine' = [engine EXCEPT ![e] = x]
      BY <2>2 DEF x
    <3>. QED
      BY <1>1, <1>k, <3>1, <3>2, <3>3, <3>4 DEF Lookup
  <2>. QED
    BY <1>1, <2>1, <2>2 DEF Lookup
<1>2. ASSUME NEW e \in Engines, ReplayStep(e)
      PROVE  ManualInv'
  <2>. PICK i : i = engine[e].id
    OBVIOUS
  <2>1. /\ engine[e].pc = "replay" /\ UNCHANGED manual /\ i \in Ids /\ Exists(i)
        /\ outcome[i].good + outcome[i].bad < MaxOutcomes /\ engine[e].step \in 0..Steps
        /\ engine[e] \in EngineStates
    BY <1>2, <1>t DEF ReplayStep, ManualInv, Outcomes, EngineStates
  <2>2. CASE engine[e].step < Steps /\ engine' = [engine EXCEPT ![e].step = @ + 1] /\ UNCHANGED outcome
    <3>. DEFINE x == [engine[e] EXCEPT !.step = @ + 1]
    <3>1. engine[e].step + 1 \in 0..Steps
      BY <2>1, <2>2, <1>n
    <3>2. x.pc = "replay" /\ x.id = i /\ x \in EngineStates /\ engine' = [engine EXCEPT ![e] = x]
      BY <2>1, <2>2, <3>1 DEF EngineStates
    <3>. HIDE DEF x
    <3>. QED
      BY <1>k, <2>1, <2>2, <3>2
  <2>3. ASSUME NEW pc \in {"success", "failure"}, EngineAt(e, pc),
               \/ pc = "success" /\ outcome' = [outcome EXCEPT ![i].good = @ + 1]
               \/ pc = "failure" /\ outcome' = [outcome EXCEPT ![i].bad = @ + 1]
        PROVE  ManualInv'
    <3>. DEFINE x == [engine[e] EXCEPT !.pc = pc]
    <3>1. x.pc = pc /\ x.id = i /\ x \in EngineStates /\ engine' = [engine EXCEPT ![e] = x]
      BY <2>1, <2>3 DEF EngineStates, EngineAt
    <3>. HIDE DEF x
    <3>2. outcome[i].good + 1 \in 0..MaxOutcomes /\ outcome[i].bad + 1 \in 0..MaxOutcomes
      BY <2>1, <1>f, <1>n
    <3>3. /\ pc = "success" => outcome'[i] = [outcome[i] EXCEPT !.good = outcome[i].good + 1]
          /\ pc = "failure" => outcome'[i] = [outcome[i] EXCEPT !.bad = outcome[i].bad + 1]
          /\ \A j \in Ids \ {i} : outcome'[j] = outcome[j]
          /\ outcome' = [j \in Ids |-> outcome'[j]]
      BY <1>t, <2>1, <2>3
    <3>o. /\ outcome'[i].good = IF pc = "success" THEN outcome[i].good + 1 ELSE outcome[i].good
          /\ outcome'[i].bad = IF pc = "failure" THEN outcome[i].bad + 1 ELSE outcome[i].bad
          /\ outcome'[i] \in [good : 0..MaxOutcomes, bad : 0..MaxOutcomes]
      BY <1>t, <2>1, <3>2, <3>3
    <3>4. outcome' \in [Ids -> [good : 0..MaxOutcomes, bad : 0..MaxOutcomes]]
      <4>1. \A j \in Ids : outcome'[j] \in [good : 0..MaxOutcomes, bad : 0..MaxOutcomes]
        BY <1>t, <3>3, <3>o
      <4>. QED
        BY <3>3, <4>1
    <3>5. \A j \in Ids : outcome'[j].good + outcome'[j].bad <= MaxOutcomes
      BY <1>f, <1>n, <2>1, <3>3, <3>o
    <3>6. \A j \in Ids : Good(j)' = Good(j) /\ Bad(j)' = Bad(j)
      <4>. SUFFICES ASSUME NEW j \in Ids PROVE Good(j)' = Good(j) /\ Bad(j)' = Bad(j)
        OBVIOUS
      <4>. PICK w, l : w = {"success", "raise"} /\ l = {"failure", "lower"}
        OBVIOUS
      <4>. PICK n, now, m, mow :
              /\ n = Cardinality(Unrecorded(j, w)) /\ now = Cardinality(Unrecorded(j, w)')
              /\ m = Cardinality(Unrecorded(j, l)) /\ mow = Cardinality(Unrecorded(j, l)')
        OBVIOUS
      <4>1. e \notin Unrecorded(j, w) /\ e \notin Unrecorded(j, l)
        BY <2>1 DEF Unrecorded
      <4>e. /\ \A d \in Engines : d # e => engine'[d] = engine[d]
            /\ engine'[e] = x
        BY <1>t, <3>1
      <4>x. /\ e \in Unrecorded(j, w)' <=> i = j /\ pc = "success"
            /\ e \in Unrecorded(j, l)' <=> i = j /\ pc = "failure"
        BY <3>1, <4>e DEF Unrecorded
      <4>2. n \in Nat /\ now \in Nat /\ now = IF i = j /\ pc = "success" THEN n + 1 ELSE n
        BY <4>1, <4>e, <4>x, OneGoesOn
      <4>3. m \in Nat /\ mow \in Nat /\ mow = IF i = j /\ pc = "failure" THEN m + 1 ELSE m
        BY <4>1, <4>e, <4>x, OneGoesOn
      <4>4. outcome[j].good \in Nat /\ outcome[j].bad \in Nat
        BY <1>f, <1>n
      <4>5. /\ outcome'[j].good = IF i = j /\ pc = "success" THEN outcome[j].good + 1 ELSE outcome[j].good
            /\ outcome'[j].bad = IF i = j /\ pc = "failure" THEN outcome[j].bad + 1 ELSE outcome[j].bad
        BY <3>3, <3>o, <4>4
      <4>. QED
        BY <4>2, <4>3, <4>4, <4>5 DEF Good, Bad
    <3>7. \A j \in Ids : Good(j) <= Good(j)' /\ Bad(j) <= Bad(j)'
      BY <1>g, <3>6
    <3>. QED
      BY <1>t, <2>1, <2>3, <3>1, <3>4, <3>5, <3>7, ManualsKeep
  <2>. QED
    <3>1. \/ /\ engine[e].step < Steps /\ engine' = [engine EXCEPT ![e].step = @ + 1] /\ UNCHANGED outcome
          \/ /\ EngineAt(e, "success") /\ outcome' = [outcome EXCEPT ![i].good = @ + 1]
          \/ /\ EngineAt(e, "failure") /\ outcome' = [outcome EXCEPT ![i].bad = @ + 1]
      BY <1>2 DEF ReplayStep
    <3>. QED
      BY <2>2, <2>3, <3>1
<1>3. ASSUME NEW e \in Engines, ReadRow(e)
      PROVE  ManualInv'
  <2>1. /\ engine[e].pc \in {"success", "failure"} /\ UNCHANGED <<manual, outcome>>
        /\ engine[e] \in EngineStates /\ engine[e].id \in Ids /\ Exists(engine[e].id)
    BY <1>3, <1>t DEF ReadRow, ManualInv
  <2>2. CASE engine' = [engine EXCEPT ![e].read = manual[engine[e].id],
                                      ![e].pc = IF @ = "success" THEN "raise" ELSE "lower"]
    <3>. DEFINE x == [engine[e] EXCEPT !.read = manual[engine[e].id],
                                       !.pc = IF @ = "success" THEN "raise" ELSE "lower"]
    <3>1. /\ x.id = engine[e].id /\ x.read = manual[engine[e].id]
          /\ x.pc = (IF engine[e].pc = "success" THEN "raise" ELSE "lower")
          /\ x \in EngineStates
      BY <2>1, <1>t DEF EngineStates
    <3>2. engine' = [engine EXCEPT ![e] = x]
      BY <2>1, <2>2, <1>t
    <3>. HIDE DEF x
    <3>3. \A i \in Ids :
            /\ (x.id = i /\ x.pc \in {"success", "raise"}) => e \in Unrecorded(i, {"success", "raise"})
            /\ (x.id = i /\ x.pc \in {"failure", "lower"}) => e \in Unrecorded(i, {"failure", "lower"})
      BY <2>1, <3>1 DEF Unrecorded
    <3>4. x.id \in Ids /\ Exists(x.id) /\ \A i \in Ids : x.id = i => x.read = manual[i]
      BY <2>1, <3>1
    <3>. QED
      BY <1>k, <2>1, <3>1, <3>2, <3>3, <3>4
  <2>3. CASE engine' = [engine EXCEPT ![e] = IF @.pc = "success" THEN Off ELSE [@ EXCEPT !.pc = "handler"]]
    <3>. DEFINE x == IF engine[e].pc = "success" THEN Off ELSE [engine[e] EXCEPT !.pc = "handler"]
    <3>1. x.pc \in {"off", "handler"} /\ x \in EngineStates /\ engine' = [engine EXCEPT ![e] = x]
      BY <1>q, <2>1, <2>3 DEF EngineStates
    <3>. HIDE DEF x
    <3>. QED
      BY <1>k, <2>1, <3>1
  <2>. QED
    BY <1>3, <2>2, <2>3 DEF ReadRow
<1>4. ASSUME NEW e \in Engines, RecordSuccess(e)
      PROVE  ManualInv'
  <2>. PICK i, r : i = engine[e].id /\ r = engine[e].read
    OBVIOUS
  <2>1. /\ engine[e].pc = "raise" /\ i \in Ids /\ Exists(i) /\ r \in Row /\ UNCHANGED outcome
        /\ engine' = [engine EXCEPT ![e] = Off]
        /\ e \in Unrecorded(i, {"success", "raise"})
    BY <1>4, <1>t DEF RecordSuccess, ManualInv, EngineStates, Unrecorded
  <2>2. CASE UNCHANGED manual
    BY <1>q, <1>k, <2>1, <2>2
  <2>3. CASE manual' = [manual EXCEPT ![i] =
               [@ EXCEPT !.successes = r.successes + 1, !.health = Least(MaxHealth, r.health + Bonus)]]
    <3>1. \A j \in Ids : /\ Good(j) <= Good(j)' /\ Bad(j) <= Bad(j)' /\ Good(j)' \in Int /\ Bad(j)' \in Int
                         /\ Good(j)' <= outcome[j].good
      BY <1>q, <1>c, <2>1
    <3>2. Good(i)' = Good(i) + 1
      BY <1>q, <1>c, <2>1
    <3>3. /\ manual'[i].successes = r.successes + 1 /\ manual'[i].failures = manual[i].failures
          /\ manual'[i].start = manual[i].start /\ manual'[i].health = Least(MaxHealth, r.health + Bonus)
          /\ \A j \in Ids \ {i} : manual'[j] = manual[j]
      BY <1>t, <2>1, <2>3 DEF Row
    <3>4. /\ r.successes <= Good(i)
          /\ r.health <= manual[i].start + Bonus * Good(i)
          /\ r.health >= manual[i].start - SeverePenalty * Bad(i)
          /\ manual[i].failures <= Bad(i)
      BY <2>1 DEF ManualInv, IsEarned
    <3>5. /\ Bonus * (Good(i) + 1) = Bonus * Good(i) + Bonus /\ Bonus * Good(i) \in Int
          /\ SeverePenalty * Bad(i) <= SeverePenalty * Bad(i)'
          /\ SeverePenalty * Bad(i) \in Int /\ SeverePenalty * Bad(i)' \in Int
      <4>1. Good(i) \in Int /\ Bad(i) \in Int /\ Bad(i)' \in Int /\ Bad(i) <= Bad(i)'
        BY <1>g, <2>1, <3>1
      <4>. QED
        BY <1>n, <4>1, Products
    <3>6. /\ r.health \in Nat /\ r.health <= MaxHealth /\ r.successes \in Nat
          /\ manual[i].start \in Nat /\ manual[i].failures \in Nat /\ outcome[i].good \in Nat
          /\ outcome[i].good <= MaxOutcomes
      BY <1>f, <1>n, <1>o, <2>1
    <3>7. /\ Least(MaxHealth, r.health + Bonus) \in 0..MaxHealth
          /\ Least(MaxHealth, r.health + Bonus) <= r.health + Bonus
          /\ Least(MaxHealth, r.health + Bonus) >= r.health
      BY <1>n, <3>6 DEF Least
    <3>8. IsEarned(manual'[i], manual'[i].start, Good(i)', Bad(i)')
      <4>1. r.successes + 1 <= Good(i)' /\ manual[i].failures <= Bad(i)'
        BY <1>g, <2>1, <3>1, <3>2, <3>4, <3>6
      <4>2. Least(MaxHealth, r.health + Bonus) <= manual[i].start + Bonus * Good(i)'
        BY <1>n, <3>2, <3>4, <3>5, <3>6, <3>7
      <4>3. Least(MaxHealth, r.health + Bonus) >= manual[i].start - SeverePenalty * Bad(i)'
        BY <3>4, <3>5, <3>6, <3>7
      <4>. QED
        BY <3>3, <4>1, <4>2, <4>3 DEF IsEarned
    <3>9. manual' \in [Ids -> Row]
      <4>1. r.successes + 1 \in 0..MaxOutcomes
        BY <1>g, <1>n, <2>1, <3>1, <3>2, <3>4, <3>6
      <4>. QED
        BY <1>t, <2>1, <2>3, <3>7, <4>1 DEF Row
    <3>10. manual[i].start > 0
      BY <2>1 DEF Exists
    <3>. QED
      BY <1>t, <1>q, <1>f, <2>1, <3>1, <3>3, <3>8, <3>9, <3>10, ManualsKeep
  <2>. QED
    BY <1>4, <2>2, <2>3 DEF RecordSuccess
<1>5. ASSUME NEW e \in Engines, RecordFailure(e)
      PROVE  ManualInv'
  <2>. PICK i, r : i = engine[e].id /\ r = engine[e].read
    OBVIOUS
  <2>. DEFINE penalty == IF r.failures + 1 > SevereAfter THEN SeverePenalty ELSE Penalty
              x == [engine[e] EXCEPT !.pc = "handler"]
  <2>1. /\ engine[e].pc = "lower" /\ i \in Ids /\ Exists(i) /\ r \in Row /\ UNCHANGED outcome
        /\ engine' = [engine EXCEPT ![e] = x] /\ x \in EngineStates /\ x.pc = "handler"
        /\ e \in Unrecorded(i, {"failure", "lower"})
    BY <1>5, <1>t DEF RecordFailure, ManualInv, EngineStates, Unrecorded, EngineAt
  <2>. HIDE DEF x
  <2>2. CASE UNCHANGED manual
    BY <1>k, <2>1, <2>2
  <2>3. CASE manual' = [manual EXCEPT ![i] =
               [@ EXCEPT !.failures = r.failures + 1, !.health = Most(0, r.health - penalty)]]
    <3>1. \A j \in Ids : /\ Good(j) <= Good(j)' /\ Bad(j) <= Bad(j)' /\ Good(j)' \in Int /\ Bad(j)' \in Int
                         /\ Bad(j)' <= outcome[j].bad
      BY <1>c, <2>1
    <3>2. Bad(i)' = Bad(i) + 1
      BY <1>c, <2>1
    <3>p. penalty \in Nat /\ penalty <= SeverePenalty
      BY <1>n
    <3>. HIDE DEF penalty
    <3>3. /\ manual'[i].failures = r.failures + 1 /\ manual'[i].successes = manual[i].successes
          /\ manual'[i].start = manual[i].start /\ manual'[i].health = Most(0, r.health - penalty)
          /\ \A j \in Ids \ {i} : manual'[j] = manual[j]
      BY <1>t, <2>1, <2>3 DEF Row
    <3>4. /\ r.failures <= Bad(i)
          /\ r.health <= manual[i].start + Bonus * Good(i)
          /\ r.health >= manual[i].start - SeverePenalty * Bad(i)
          /\ manual[i].successes <= Good(i)
      BY <2>1 DEF ManualInv, IsEarned
    <3>5. /\ SeverePenalty * (Bad(i) + 1) = SeverePenalty * Bad(i) + SeverePenalty
          /\ SeverePenalty * Bad(i) \in Int
          /\ Bonus * Good(i) <= Bonus * Good(i)'
          /\ Bonus * Good(i) \in Int /\ Bonus * Good(i)' \in Int
      <4>1. Good(i) \in Int /\ Bad(i) \in Int /\ Good(i)' \in Int /\ Good(i) <= Good(i)'
        BY <1>g, <2>1, <3>1
      <4>. QED
        BY <1>n, <4>1, Products
    <3>6. /\ r.health \in Nat /\ r.health <= MaxHealth /\ r.failures \in Nat
          /\ manual[i].start \in Nat /\ manual[i].successes \in Nat /\ outcome[i].bad \in Nat
          /\ outcome[i].bad <= MaxOutcomes
      BY <1>f, <1>n, <1>o, <2>1
    <3>7. /\ Most(0, r.health - penalty) \in 0..MaxHealth
          /\ Most(0, r.health - penalty) <= r.health
          /\ Most(0, r.health - penalty) >= r.health - SeverePenalty
      BY <1>n, <3>p, <3>6 DEF Most
    <3>8. IsEarned(manual'[i], manual'[i].start, Good(i)', Bad(i)')
      <4>1. r.failures + 1 <= Bad(i)' /\ manual[i].successes <= Good(i)'
        BY <1>g, <2>1, <3>1, <3>2, <3>4, <3>6
      <4>2. Most(0, r.health - penalty) <= manual[i].start + Bonus * Good(i)'
        BY <3>4, <3>5, <3>6, <3>7
      <4>3. Most(0, r.health - penalty) >= manual[i].start - SeverePenalty * Bad(i)'
        BY <1>n, <3>2, <3>4, <3>5, <3>6, <3>7
      <4>. QED
        BY <3>3, <4>1, <4>2, <4>3 DEF IsEarned
    <3>9. manual' \in [Ids -> Row]
      <4>1. r.failures + 1 \in 0..MaxOutcomes
        BY <1>g, <1>n, <2>1, <3>1, <3>2, <3>4, <3>6
      <4>. QED
        BY <1>t, <2>1, <2>3, <3>7, <4>1 DEF Row
    <3>10. manual[i].start > 0
      BY <2>1 DEF Exists
    <3>. QED
      BY <1>t, <1>f, <2>1, <3>1, <3>3, <3>8, <3>9, <3>10, ManualsKeep
  <2>. QED
    BY <1>5, <2>2, <2>3 DEF RecordFailure
\* A row that becomes one.
<1>r. ASSUME NEW e \in Engines, NEW x \in EngineStates, engine' = [engine EXCEPT ![e] = x],
             UNCHANGED outcome,
             x.pc \in {"off", "handler"} \/ x = engine[e],
             NEW i \in Ids, ~Exists(i), NEW health \in 1..MaxHealth,
             manual' = [manual EXCEPT ![i] = [NoRow EXCEPT !.health = health, !.start = health]]
      PROVE  ManualInv'
  <2>1. \A j \in Ids : /\ Good(j) <= Good(j)' /\ Bad(j) <= Bad(j)' /\ Good(j)' \in Int /\ Bad(j)' \in Int
    BY <1>r, <1>c DEF Unrecorded
  <2>2. /\ manual'[i].health = health /\ manual'[i].start = health
        /\ manual'[i].successes = 0 /\ manual'[i].failures = 0
        /\ \A j \in Ids \ {i} : manual'[j] = manual[j]
        /\ manual' \in [Ids -> Row]
    <3>1. health \in 0..MaxHealth /\ 0 \in 0..MaxOutcomes
      BY <1>n
    <3>. QED
      BY <1>r, <1>t, <3>1 DEF Row, NoRow
  <2>3. IsEarned(manual'[i], manual'[i].start, Good(i)', Bad(i)')
    <3>1. Good(i)' >= 0 /\ Bad(i)' >= 0
      BY <1>g, <2>1
    <3>2. Bonus * 0 <= Bonus * Good(i)' /\ SeverePenalty * 0 <= SeverePenalty * Bad(i)'
          /\ Bonus * 0 = 0 /\ SeverePenalty * 0 = 0
          /\ Bonus * Good(i)' \in Int /\ SeverePenalty * Bad(i)' \in Int
      BY <1>n, <2>1, <3>1, Products
    <3>. QED
      BY <1>n, <2>2, <3>1, <3>2 DEF IsEarned
  <2>4. x.pc \notin {"off", "handler"} => x.id \in Ids /\ Exists(x.id)
    BY <1>r DEF ManualInv
  <2>5. \A j \in Ids : x.id = j /\ x.pc \in {"raise", "lower"} => IsEarned(x.read, manual[j].start, Good(j), Bad(j))
    BY <1>r DEF ManualInv
  <2>6. manual'[i].start > 0
    BY <2>2, <1>n
  <2>. QED
    BY <1>r, <1>t, <1>f, <2>1, <2>2, <2>3, <2>4, <2>5, <2>6, ManualsKeep
<1>6. ASSUME NEW e \in Engines, HandlerEnds(e)
      PROVE  ManualInv'
  <2>1. CASE UNCHANGED manual
    BY <1>6, <1>k, <1>q, <2>1 DEF HandlerEnds
  <2>2. CASE \E i \in Ids : /\ ~Exists(i)
                            /\ manual' = [manual EXCEPT ![i] = [NoRow EXCEPT !.health = MaxHealth, !.start = MaxHealth]]
    <3>1. PICK i \in Ids : /\ ~Exists(i)
                          /\ manual' = [manual EXCEPT ![i] = [NoRow EXCEPT !.health = MaxHealth, !.start = MaxHealth]]
      BY <2>2
    <3>2. MaxHealth \in 1..MaxHealth
      BY <1>n
    <3>3. engine' = [engine EXCEPT ![e] = Off] /\ UNCHANGED outcome
      BY <1>6 DEF HandlerEnds
    <3>. QED
      BY <1>q, <1>r, <3>1, <3>2, <3>3
  <2>. QED
    BY <1>6, <2>1, <2>2 DEF HandlerEnds
<1>7. ASSUME NEW i \in Ids, SaveFromActionBook(i)
      PROVE  ManualInv'
  <2>1. PICK e \in Engines : TRUE
    BY ManualAssumption
  <2>2. engine[e] \in EngineStates /\ engine' = [engine EXCEPT ![e] = engine[e]]
    BY <1>7, <1>t DEF SaveFromActionBook
  <2>3. MaxHealth - Penalty \in 1..MaxHealth
    BY <1>n
  <2>. QED
    BY <1>7, <1>r, <2>2, <2>3 DEF SaveFromActionBook
<1>8. CASE UNCHANGED manualVars
  BY <1>8, <1>t DEF manualVars, ManualInv, ManualTypeOK, Exists, Good, Bad, Unrecorded
<1>. QED
  BY <1>1, <1>2, <1>3, <1>4, <1>5, <1>6, <1>7, <1>8 DEF ManualNext, EngineStep

\* The rows, the jobs and the outcomes have their types.
THEOREM ManualTypes == ManualSpec => []ManualTypeOK
<1>1. ManualInv => ManualTypeOK
  BY DEF ManualInv
<1>. QED
  BY <1>1, ManualStart, ManualStep, PTL DEF ManualSpec

\* What is earned by the outcomes recorded is earned by all there were.
LEMMA EarnedByAll == ManualInv => HealthIsEarned
<1>. SUFFICES ASSUME ManualInv, NEW i \in Ids
              PROVE  /\ manual[i].successes <= outcome[i].good /\ manual[i].failures <= outcome[i].bad
                     /\ manual[i].health <= manual[i].start + Bonus * outcome[i].good
                     /\ manual[i].health >= manual[i].start - SeverePenalty * outcome[i].bad
  BY DEF HealthIsEarned
<1>1. manual[i] \in Row /\ outcome[i].good \in Int /\ outcome[i].bad \in Int /\ manual[i].start \in Int
  BY ManualAssumption DEF ManualInv, ManualTypeOK, Row
<1>2. Good(i) \in Int /\ Bad(i) \in Int /\ Good(i) <= outcome[i].good /\ Bad(i) <= outcome[i].bad
  <2>1. /\ Unrecorded(i, {"success", "raise"}) \in SUBSET Engines
        /\ Unrecorded(i, {"failure", "lower"}) \in SUBSET Engines
    BY DEF Unrecorded
  <2>2. /\ Cardinality(Unrecorded(i, {"success", "raise"})) \in Nat
        /\ Cardinality(Unrecorded(i, {"failure", "lower"})) \in Nat
    BY <2>1, ManualAssumption, FS_Subset, FS_CardinalityType
  <2>. QED
    BY <1>1, <2>2 DEF Good, Bad
<1>3. IsEarned(manual[i], manual[i].start, outcome[i].good, outcome[i].bad)
  BY <1>1, <1>2, EarnedStays DEF ManualInv
<1>. QED
  BY <1>3 DEF IsEarned

\* Whatever the workers overwrite, a manual's health and counters are worth its replays.
THEOREM HealthStaysEarned == ManualSpec => []HealthIsEarned
BY EarnedByAll, ManualStart, ManualStep, PTL DEF ManualSpec

\* No step brings a manual back that is unfit and that no job replays.
LEMMA RetiredStays ==
  ASSUME ManualInv, [ManualNext]_manualVars, NEW i \in Ids, Retired(i)
  PROVE  Retired(i)'
<1>t. /\ manual \in [Ids -> Row] /\ engine \in [Engines -> EngineStates]
      /\ Exists(i) /\ manual[i].health <= MinUsable
      /\ \A d \in Engines : engine[d].id # i \/ engine[d].pc \in {"off", "handler"}
  BY DEF ManualInv, ManualTypeOK, Retired, Replays
\* What is left to show.
<1>r. ASSUME manual'[i] = manual[i],
             \A d \in Engines : \/ engine'[d] = engine[d]
                                \/ engine'[d].id # i
                                \/ engine'[d].pc \in {"off", "handler"}
      PROVE  Retired(i)'
  BY <1>t, <1>r DEF Retired, Replays, Exists
<1>1. ASSUME NEW e \in Engines, EngineStep(e)
      PROVE  Retired(i)'
  <2>1. CASE Lookup(e)
    <3>1. CASE EngineAt(e, "handler")
      BY <1>t, <1>r, <2>1, <3>1 DEF Lookup, EngineAt, EngineStates
    <3>2. ASSUME NEW k \in Living,
                 engine' = [engine EXCEPT ![e] = [Off EXCEPT !.id = k,
                   !.pc = IF manual[k].health > MinUsable THEN "replay" ELSE "handler"]]
          PROVE  Retired(i)'
      <4>1. /\ \A d \in Engines \ {e} : engine'[d] = engine[d]
            /\ engine'[e].id = k
            /\ engine'[e].pc = IF manual[k].health > MinUsable THEN "replay" ELSE "handler"
        BY <1>t, <3>2 DEF Off
      <4>2. k = i => ~(manual[k].health > MinUsable)
        BY <1>t, ManualAssumption DEF Row
      <4>. QED
        BY <1>r, <2>1, <4>1, <4>2 DEF Lookup
    <3>. QED
      BY <2>1, <3>1, <3>2 DEF Lookup
  <2>2. CASE ReplayStep(e)
    <3>1. engine[e].id # i
      BY <1>t, <2>2 DEF ReplayStep
    <3>. QED
      BY <1>t, <1>r, <2>2, <3>1 DEF ReplayStep, EngineAt, EngineStates
  <2>3. CASE ReadRow(e)
    <3>1. engine[e].id # i
      BY <1>t, <2>3 DEF ReadRow
    <3>2. engine'[e].id # i \/ engine'[e].pc \in {"off", "handler"}
      BY <1>t, <2>3, <3>1 DEF ReadRow, EngineStates, Off
    <3>. QED
      BY <1>t, <1>r, <2>3, <3>2 DEF ReadRow
  <2>4. CASE RecordSuccess(e)
    <3>1. engine[e].id # i
      BY <1>t, <2>4 DEF RecordSuccess
    <3>. QED
      BY <1>t, <1>r, <2>4, <3>1 DEF RecordSuccess, Off
  <2>5. CASE RecordFailure(e)
    <3>1. engine[e].id # i
      BY <1>t, <2>5 DEF RecordFailure
    <3>. QED
      BY <1>t, <1>r, <2>5, <3>1 DEF RecordFailure, EngineAt, EngineStates
  <2>6. CASE HandlerEnds(e)
    BY <1>t, <1>r, <2>6 DEF HandlerEnds, Off
  <2>. QED
    BY <1>1, <2>1, <2>2, <2>3, <2>4, <2>5, <2>6 DEF EngineStep
<1>2. ASSUME NEW k \in Ids, SaveFromActionBook(k)
      PROVE  Retired(i)'
  BY <1>t, <1>r, <1>2 DEF SaveFromActionBook
<1>3. CASE UNCHANGED manualVars
  BY <1>r, <1>3 DEF manualVars
<1>. QED
  BY <1>1, <1>2, <1>3 DEF ManualNext

\* A manual that is unfit and out of use is never used again.
THEOREM UnfitForGood == ManualSpec => UnfitStaysUnfit
<1>1. ManualInv /\ [ManualNext]_manualVars => [\A i \in Ids : Retired(i) => Retired(i)']_manualVars
  BY RetiredStays
<1>. QED
  BY <1>1, ManualStart, ManualStep, PTL DEF ManualSpec, UnfitStaysUnfit

-----------------------------------------------------------------------------
(* The recording of a run: whenever the lookups of clicks are answered,    *)
(* the steps recorded are in order, one for an action, and text goes to an *)
(* element that had been clicked by then.                                  *)

\* A lookup on its way is one for a click or a scroll that is not recorded yet, and
\* there are no more steps and lookups than there were actions.
LookupsAreOpen ==
  /\ IsFiniteSet(asked) /\ Len(steps) + Cardinality(asked) <= Len(events)
  /\ Len(events) <= MaxEvents /\ lastClick <= Len(events)
  /\ \A q \in asked :
       /\ q.of <= Len(events) /\ events[q.of] \in {"click", "scroll"}
       /\ \A p \in asked : p.of = q.of => p = q
       /\ \A k \in DOMAIN steps : steps[k].of # q.of
  /\ \A k \in DOMAIN steps : steps[k].of <= Len(events)

\* The inductive invariant.
TraceInv == TraceTypeOK /\ LookupsAreOpen /\ TraceIsReplayable

\* A step that is recorded for an action not recorded before.
LEMMA PushIsInOrder ==
  ASSUME TraceInv, NEW action \in ActionKinds, NEW locator \in 0..MaxEvents, NEW e \in 1..MaxEvents,
         Push(Len(steps), action, locator, e), Len(steps) < MaxEvents,
         \A k \in DOMAIN steps : steps[k].of # e,
         action = "type" => locator \in 1..(e - 1)
  PROVE  /\ steps' \in Seq(TraceSteps) /\ Len(steps') = Len(steps) + 1
         /\ \A k \in DOMAIN steps' : (k \in DOMAIN steps /\ steps'[k] = steps[k]) \/ steps'[k].of = e
         /\ TraceIsReplayable'
<1>. DEFINE new == [order |-> Len(steps), action |-> action, locator |-> locator, of |-> e]
<1>1. steps \in Seq(TraceSteps) /\ Len(steps) \in Nat
  BY DEF TraceInv, TraceTypeOK
<1>2. new \in TraceSteps
  BY <1>1, TraceAssumption DEF TraceSteps
<1>3. /\ new.order = Len(steps) /\ new.of = e /\ new.action = action /\ new.locator = locator
  OBVIOUS
<1>4. steps' = Append(steps, new)
  BY DEF Push
<1>. HIDE DEF new
<1>5. /\ steps' \in Seq(TraceSteps) /\ Len(steps') = Len(steps) + 1
      /\ \A k \in 1..Len(steps) : steps'[k] = steps[k]
      /\ steps'[Len(steps) + 1] = new
      /\ DOMAIN steps = 1..Len(steps) /\ DOMAIN steps' = 1..(Len(steps) + 1)
  BY <1>1, <1>2, <1>4
<1>6. \A k \in DOMAIN steps' : (k \in DOMAIN steps /\ steps'[k] = steps[k]) \/ (k = Len(steps) + 1 /\ steps'[k] = new)
  BY <1>1, <1>5
<1>7. TraceIsReplayable'
  <2>. SUFFICES ASSUME NEW k \in DOMAIN steps'
                PROVE  /\ steps'[k].order = k - 1
                       /\ \A l \in DOMAIN steps' : steps'[l].of = steps'[k].of => l = k
                       /\ steps'[k].action = "type" => steps'[k].locator \in 1..(steps'[k].of - 1)
    BY DEF TraceIsReplayable
  <2>1. CASE k \in DOMAIN steps /\ steps'[k] = steps[k]
    BY <1>3, <1>6, <2>1 DEF TraceInv, TraceIsReplayable
  <2>2. CASE k = Len(steps) + 1 /\ steps'[k] = new
    BY <1>1, <1>3, <1>6, <2>2
  <2>. QED
    BY <1>6, <2>1, <2>2
<1>. QED
  BY <1>3, <1>5, <1>6, <1>7

\* Nothing is recorded.
LEMMA TraceStart == TraceInit => TraceInv
<1>. SUFFICES ASSUME TraceInit PROVE TraceInv
  OBVIOUS
<1>1. Len(events) = 0 /\ Len(steps) = 0 /\ DOMAIN steps = {} /\ Cardinality(asked) = 0 /\ IsFiniteSet(asked)
  BY FS_EmptySet DEF TraceInit
<1>. QED
  BY <1>1, TraceAssumption DEF TraceInit, TraceInv, TraceTypeOK, LookupsAreOpen, TraceIsReplayable

\* Every step of the recorder keeps TraceInv.
LEMMA TraceStep == TraceInv /\ [TraceNext]_traceVars => TraceInv'
<1>. SUFFICES ASSUME TraceInv, [TraceNext]_traceVars PROVE TraceInv'
  OBVIOUS
<1>t. /\ events \in Seq(ActionKinds) /\ Len(events) \in Nat /\ DOMAIN events = 1..Len(events)
      /\ steps \in Seq(TraceSteps) /\ Len(steps) \in Nat
      /\ asked \in SUBSET [of : 1..MaxEvents, length : 0..MaxEvents]
      /\ IsFiniteSet(asked) /\ Cardinality(asked) \in Nat
      /\ lastClick \in 0..MaxEvents /\ recorder \in {"on", "off"} /\ MaxEvents \in Nat
      /\ Len(steps) + Cardinality(asked) <= Len(events) /\ Len(events) <= MaxEvents
      /\ lastClick <= Len(events)
  BY TraceAssumption, FS_CardinalityType DEF TraceInv, TraceTypeOK, LookupsAreOpen
<1>1. ASSUME NEW kind \in ActionKinds, ActionDone(kind)
      PROVE  TraceInv'
  <2>1. /\ Len(events) < MaxEvents /\ events' = Append(events, kind)
        /\ UNCHANGED <<lastClick, recorder>>
    BY <1>1 DEF ActionDone, Happens
  <2>2. /\ events' \in Seq(ActionKinds) /\ Len(events') = Len(events) + 1
        /\ \A k \in 1..Len(events) : events'[k] = events[k]
        /\ events'[Len(events) + 1] = kind /\ DOMAIN events' = 1..(Len(events) + 1)
    BY <1>t, <2>1
  <2>3. \A q \in asked : q.of \in 1..Len(events) /\ q.of # Len(events')
    BY <1>t, <2>2 DEF TraceInv, LookupsAreOpen
  <2>4. \A k \in DOMAIN steps : steps[k].of <= Len(events) /\ steps[k].of \in Nat
    <3>1. ASSUME NEW k \in DOMAIN steps
          PROVE  steps[k] \in TraceSteps
      BY <1>t, <3>1
    <3>. QED
      BY <1>t, <3>1 DEF TraceInv, LookupsAreOpen, TraceSteps
  <2>5. CASE UNCHANGED <<asked, steps>>
    BY <1>t, <2>1, <2>2, <2>3, <2>4, <2>5 DEF TraceInv, TraceTypeOK, LookupsAreOpen, TraceIsReplayable
  <2>6. CASE /\ kind \in {"click", "scroll"} /\ UNCHANGED steps
             /\ asked' = asked \cup {[of |-> Len(events'), length |-> Len(steps)]}
    <3>. DEFINE new == [of |-> Len(events'), length |-> Len(steps)]
    <3>1. new.of = Len(events) + 1 /\ new \in [of : 1..MaxEvents, length : 0..MaxEvents]
      BY <1>t, <2>1, <2>2
    <3>2. new \notin asked
      BY <1>t, <2>2, <2>3, <3>1
    <3>3. asked' = asked \cup {new}
      BY <2>6
    <3>. HIDE DEF new
    <3>4. IsFiniteSet(asked') /\ Cardinality(asked') = Cardinality(asked) + 1
      BY <1>t, <3>2, <3>3, FS_AddElement
    <3>5. \A q \in asked' :
            /\ q.of <= Len(events') /\ events'[q.of] \in {"click", "scroll"}
            /\ \A p \in asked' : p.of = q.of => p = q
            /\ \A k \in DOMAIN steps' : steps'[k].of # q.of
      <4>1. ASSUME NEW q \in asked
            PROVE  /\ q.of <= Len(events') /\ events'[q.of] \in {"click", "scroll"}
                   /\ \A p \in asked' : p.of = q.of => p = q
                   /\ \A k \in DOMAIN steps' : steps'[k].of # q.of
        BY <1>t, <2>2, <2>3, <2>6, <3>1, <3>3 DEF TraceInv, LookupsAreOpen
      <4>2. /\ new.of <= Len(events') /\ events'[new.of] \in {"click", "scroll"}
            /\ \A p \in asked' : p.of = new.of => p = new
            /\ \A k \in DOMAIN steps' : steps'[k].of # new.of
        BY <1>t, <2>2, <2>3, <2>4, <2>6, <3>1, <3>3
      <4>. QED
        BY <3>3, <4>1, <4>2
    <3>6. LookupsAreOpen'
      BY <1>t, <2>1, <2>2, <2>4, <2>6, <3>4, <3>5 DEF LookupsAreOpen
    <3>. QED
      BY <1>t, <2>1, <2>2, <2>6, <3>1, <3>3, <3>6 DEF TraceInv, TraceTypeOK, TraceIsReplayable
  <2>7. CASE /\ kind # "move" /\ (kind = "type" => lastClick # 0)
             /\ Push(Len(steps), kind, IF kind = "load" THEN 0 ELSE lastClick, Len(events'))
             /\ UNCHANGED asked
    <3>. DEFINE locator == IF kind = "load" THEN 0 ELSE lastClick
    <3>1. locator \in 0..MaxEvents /\ Len(events') \in 1..MaxEvents /\ Len(steps) < MaxEvents
      BY <1>t, <2>1, <2>2
    <3>2. kind = "type" => locator \in 1..(Len(events') - 1)
      BY <1>t, <2>2, <2>7
    <3>3. \A k \in DOMAIN steps : steps[k].of # Len(events')
      BY <1>t, <2>2, <2>4
    <3>4. Push(Len(steps), kind, locator, Len(events'))
      BY <2>7
    <3>. HIDE DEF locator
    <3>5. /\ steps' \in Seq(TraceSteps) /\ Len(steps') = Len(steps) + 1
          /\ \A k \in DOMAIN steps' : (k \in DOMAIN steps /\ steps'[k] = steps[k]) \/ steps'[k].of = Len(events')
          /\ TraceIsReplayable'
      BY <3>1, <3>2, <3>3, <3>4, PushIsInOrder
    <3>6. \A q \in asked : \A k \in DOMAIN steps' : steps'[k].of # q.of
      BY <2>3, <3>5 DEF TraceInv, LookupsAreOpen
    <3>7. \A k \in DOMAIN steps' : steps'[k].of <= Len(events')
      BY <1>t, <2>2, <2>4, <3>5
    <3>8. LookupsAreOpen'
      BY <1>t, <2>1, <2>2, <2>3, <2>7, <3>5, <3>6, <3>7 DEF TraceInv, LookupsAreOpen
    <3>. QED
      BY <1>t, <2>1, <2>2, <2>7, <3>5, <3>8 DEF TraceInv, TraceTypeOK
  <2>. QED
    BY <1>1, <2>5, <2>6, <2>7 DEF ActionDone
<1>2. ASSUME NEW q \in asked, LookedUp(q)
      PROVE  TraceInv'
  <2>1. /\ asked' = asked \ {q} /\ UNCHANGED <<events, recorder>>
        /\ q.of \in 1..MaxEvents /\ q.of <= Len(events) /\ events[q.of] \in {"click", "scroll"}
    BY <1>2, <1>t DEF LookedUp, TraceInv, LookupsAreOpen
  <2>2. IsFiniteSet(asked') /\ Cardinality(asked') = Cardinality(asked) - 1 /\ Cardinality(asked) > 0
    <3>1. IsFiniteSet(asked') /\ Cardinality(asked') = Cardinality(asked) - 1
      BY <1>t, <2>1, FS_RemoveElement
    <3>2. Cardinality(asked') \in Nat
      BY <3>1, FS_CardinalityType
    <3>. QED
      BY <1>t, <3>1, <3>2
  <2>3. \A p \in asked' : p \in asked /\ p.of # q.of
    BY <2>1 DEF TraceInv, LookupsAreOpen
  <2>4. lastClick' \in 0..MaxEvents /\ lastClick' <= Len(events)
    BY <1>2, <1>t, <2>1 DEF LookedUp
  <2>5. CASE UNCHANGED steps
    BY <1>t, <2>1, <2>2, <2>3, <2>4, <2>5 DEF TraceInv, TraceTypeOK, LookupsAreOpen, TraceIsReplayable
  <2>6. CASE Push(Len(steps), events[q.of], q.of, q.of)
    <3>1. events[q.of] \in ActionKinds /\ events[q.of] # "type" /\ q.of \in 0..MaxEvents /\ Len(steps) < MaxEvents
      BY <1>t, <2>1, <2>2 DEF ActionKinds
    <3>2. \A k \in DOMAIN steps : steps[k].of # q.of
      BY DEF TraceInv, LookupsAreOpen
    <3>3. /\ steps' \in Seq(TraceSteps) /\ Len(steps') = Len(steps) + 1
          /\ \A k \in DOMAIN steps' : (k \in DOMAIN steps /\ steps'[k] = steps[k]) \/ steps'[k].of = q.of
          /\ TraceIsReplayable'
      BY <2>1, <2>6, <3>1, <3>2, PushIsInOrder
    <3>4. \A p \in asked' : \A k \in DOMAIN steps' : steps'[k].of # p.of
      BY <2>3, <3>3 DEF TraceInv, LookupsAreOpen
    <3>5. LookupsAreOpen'
      <4>1. \A k \in DOMAIN steps' : steps'[k].of <= Len(events)
        BY <2>1, <3>3 DEF TraceInv, LookupsAreOpen
      <4>2. \A p \in asked' :
              /\ p.of <= Len(events) /\ events[p.of] \in {"click", "scroll"}
              /\ \A o \in asked' : o.of = p.of => o = p
        BY <2>3 DEF TraceInv, LookupsAreOpen
      <4>. QED
        BY <1>t, <2>1, <2>2, <2>4, <3>3, <3>4, <4>1, <4>2 DEF LookupsAreOpen
    <3>. QED
      BY <1>t, <2>1, <2>4, <3>3, <3>5 DEF TraceInv, TraceTypeOK
  <2>. QED
    BY <1>2, <2>5, <2>6 DEF LookedUp
<1>3. CASE StopRecording
  BY <1>t, <1>3 DEF StopRecording, TraceInv, TraceTypeOK, LookupsAreOpen, TraceIsReplayable
<1>4. CASE UNCHANGED traceVars
  BY <1>t, <1>4 DEF traceVars, TraceInv, TraceTypeOK, LookupsAreOpen, TraceIsReplayable
<1>. QED
  BY <1>1, <1>2, <1>3, <1>4 DEF TraceNext

\* The recorder's variables have their types.
THEOREM TraceTypes == TraceSpec => []TraceTypeOK
<1>1. TraceInv => TraceTypeOK
  BY DEF TraceInv
<1>. QED
  BY <1>1, TraceStart, TraceStep, PTL DEF TraceSpec

\* A recording can be replayed: its numbers have no gap and no double, no action is in it
\* twice, and text is typed where a click was before.
THEOREM RecordingsReplay == TraceSpec => []TraceIsReplayable
<1>1. TraceInv => TraceIsReplayable
  BY DEF TraceInv
<1>. QED
  BY <1>1, TraceStart, TraceStep, PTL DEF TraceSpec
=============================================================================
