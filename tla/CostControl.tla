----------------------------- MODULE CostControl -----------------------------
(***************************************************************************)
(* Cost control of one user (workers/costControl.ts): the rows of          *)
(* gh_user_usage, one per billing month; the budget check every execution  *)
(* makes first; the CostTracker of each running execution; the recording   *)
(* of its cost when it ends; and GET /users/:id/usage, which reads the     *)
(* usage the same way as the check and may therefore create the row too.   *)
(*                                                                         *)
(* A slot is the one execution a worker can have (JobQueue,                *)
(* OneTaskPerWorker).  Abstracted: money is a natural number; tokens,      *)
(* action counts and the user's tier (it only selects Budget).             *)
(***************************************************************************)
EXTENDS Naturals, FiniteSets, Functions

CONSTANTS
  Workers,      (* each may run one job of the user                         *)
  Kinds,        (* kinds of jobs: preset, job type and handler              *)
  Agents,       (* the kinds AgentApplyHandler runs                         *)
  Budget,       (* MONTHLY_BUDGET of the user's tier                        *)
  TaskBudget,   (* per kind, what the preflight check asks for              *)
  TaskLimit,    (* per kind, what the CostTracker enforces                  *)
  MaxCall,      (* bound: the most one LLM call, or one agent run, costs    *)
  MaxRefused,   (* bound: budget errors a handler catches and ignores       *)
  Ceiling,      (* at least what any execution can have counted at its end  *)
  LastMonth     (* bound: months are 0 .. LastMonth                         *)

\* A call over the limit is counted before it is refused, and so is every further
\* call of a handler that ignores the refusal; an agent's run may be counted twice.
MostCounted(k) ==
  IF k \in Agents THEN 2 * MaxCall ELSE TaskLimit[k] + (MaxRefused + 1) * MaxCall

ASSUME CostAssumption ==
  /\ IsFiniteSet(Workers)
  /\ Agents \subseteq Kinds
  /\ Budget \in Nat /\ MaxCall \in Nat /\ MaxRefused \in Nat /\ LastMonth \in Nat
  /\ TaskBudget \in [Kinds -> Nat \ {0}] /\ TaskLimit \in [Kinds -> Nat]
  /\ Ceiling \in Nat /\ \A k \in Kinds : MostCounted(k) <= Ceiling

VARIABLES
  month,        (* the current billing period                               *)
  created,      (* the months that have a row                               *)
  usage,        (* total_cost_usd of each month's row (0 without a row)     *)
  slot,         (* the execution of each worker                             *)
  viewing,      (* months whose row some usage request found missing        *)
  tracked,      (* history: what all CostTrackers together have counted     *)
  blind         (* history: executions let in on a row nobody has looked at *)

rowVars == <<created, usage>>
vars == <<month, rowVars, slot, viewing, tracked, blind>>

Months == 0 .. LastMonth
Idle == [phase |-> "idle"]

\* cost is what the tracker counted, spent what the provider charged.
Execution == [phase : {"creating", "running", "recording"}, kind : Kinds,
              month : Months, cost : Nat, spent : Nat, refused : 0 .. MaxRefused]

Fill(w, phase, k) ==
  slot' = [slot EXCEPT ![w] = [phase |-> phase, kind |-> k, month |-> month,
                               cost |-> 0, spent |-> 0, refused |-> 0]]

Left(m) == IF usage[m] <= Budget THEN Budget - usage[m] ELSE 0

-----------------------------------------------------------------------------
(* preflightBudgetCheck() and getUserUsage().                              *)

\* Mutant: the remaining budget is not compared.
AdmitsAll(k, left) == TRUE
Admits(k, left) == left >= TaskBudget[k]

\* Nothing is reserved: the check and the recording are minutes apart.
PreflightFindsRow(w) ==
  /\ slot[w].phase = "idle"
  /\ month \in created
  /\ \E k \in Kinds : Admits(k, Left(month)) /\ Fill(w, "running", k)
  /\ UNCHANGED <<month, rowVars, viewing, tracked, blind>>

\* No row, or the SELECT failed: its error is dropped and looks the same.
PreflightFindsNothing(w) ==
  /\ slot[w].phase = "idle"
  /\ \E k \in Kinds : Fill(w, "creating", k)
  /\ UNCHANGED <<month, rowVars, viewing, tracked, blind>>

\* Mutant: the row is created for the next billing period.
CreateNextRow(m) ==
  /\ created' = created \cup {m + 1}
  /\ usage' = [usage EXCEPT ![m] = 0]

\* The upsert that creates the row writes zero over a row that is there.
CreateRow(m) ==
  /\ created' = created \cup {m}
  /\ usage' = [usage EXCEPT ![m] = 0]

\* getUserUsage() then reports nothing used, whatever the row holds.
LetIn(w) ==
  slot' = [slot EXCEPT ![w] = IF Admits(@.kind, Budget)
                              THEN [@ EXCEPT !.phase = "running"] ELSE Idle]

PreflightCreatesRow(w) ==
  /\ slot[w].phase = "creating"
  /\ CreateRow(slot[w].month)
  /\ LetIn(w)
  /\ UNCHANGED <<month, viewing, tracked, blind>>

\* The upsert fails too, and its error is dropped like the SELECT's: the row stays
\* as it is, and the execution is let in without a look at it.
PreflightWritesNothing(w) ==
  /\ slot[w].phase = "creating"
  /\ LetIn(w)
  /\ blind' = IF slot[w].month \in created THEN blind + 1 ELSE blind
  /\ UNCHANGED <<month, rowVars, viewing, tracked>>

ViewFindsNothing ==
  /\ viewing' = viewing \cup {month}
  /\ UNCHANGED <<month, rowVars, slot, tracked, blind>>

\* Any number of requests may be about to create the same row.
ViewCreatesRow ==
  \E m \in viewing :
    /\ CreateRow(m)
    /\ viewing' \in {viewing, viewing \ {m}}
    /\ UNCHANGED <<month, slot, tracked, blind>>

ViewWritesNothing ==
  \E m \in viewing :
    /\ viewing' = viewing \ {m}
    /\ UNCHANGED <<month, rowVars, slot, tracked, blind>>

-----------------------------------------------------------------------------
(* The execution: CostTracker.recordTokenUsage() and recordJobCost().      *)

Recording(s) == [s EXCEPT !.phase = "recording", !.month = month]

Counted(s, counted, charged) ==
  [s EXCEPT !.cost = @ + counted, !.spent = @ + charged]

\* Mutant: the limit is not enforced.
SpendOn(w) ==
  /\ slot[w].phase = "running"
  /\ slot[w].kind \notin Agents
  /\ \E c \in 1 .. MaxCall :
       /\ slot' = [slot EXCEPT ![w] = Counted(@, c, c)]
       /\ tracked' = tracked + c
  /\ UNCHANGED <<month, rowVars, viewing, blind>>

\* An LLM call.  Over the limit recordTokenUsage() throws after counting it: the
\* handler ends, or it is one that catches the error and goes on.
Spend(w) ==
  /\ slot[w].phase = "running"
  /\ slot[w].kind \notin Agents
  /\ \E c \in 1 .. MaxCall :
       LET s == Counted(slot[w], c, c) IN
       /\ tracked' = tracked + c
       /\ \/ s.cost <= TaskLimit[s.kind] /\ slot' = [slot EXCEPT ![w] = s]
          \/ s.cost > TaskLimit[s.kind] /\ slot' = [slot EXCEPT ![w] = Recording(s)]
          \/ /\ s.cost > TaskLimit[s.kind]
             /\ s.refused < MaxRefused
             /\ slot' = [slot EXCEPT ![w] = [s EXCEPT !.refused = @ + 1]]
  /\ UNCHANGED <<month, rowVars, viewing, blind>>

\* AgentApplyHandler counts the whole run when it is over, inside the try whose
\* catch counts it again: over the limit, the run is counted twice.
AgentRuns(w) ==
  /\ slot[w].phase = "running"
  /\ slot[w].kind \in Agents
  /\ \E c \in 0 .. MaxCall :
       LET times == IF c > TaskLimit[slot[w].kind] THEN 2 ELSE 1 IN
       /\ slot' = [slot EXCEPT ![w] = Recording(Counted(@, times * c, c))]
       /\ tracked' = tracked + times * c
  /\ UNCHANGED <<month, rowVars, viewing, blind>>

\* The execution completes, fails or is cancelled, and calls recordJobCost().
Finish(w) ==
  /\ slot[w].phase = "running"
  /\ slot' = [slot EXCEPT ![w] = Recording(@)]
  /\ UNCHANGED <<month, rowVars, viewing, tracked, blind>>

\* Mutant: the cost of a completed job is recorded again by the error path.
StillRunning(s) == [s EXCEPT !.phase = "running"]
Recorded(s) == Idle

\* gh_increment_user_usage: INSERT ... ON CONFLICT DO UPDATE SET col = col + delta.
RecordJobCost(w) ==
  /\ slot[w].phase = "recording"
  /\ created' = created \cup {slot[w].month}
  /\ usage' = [usage EXCEPT ![slot[w].month] = @ + slot[w].cost]
  /\ slot' = [slot EXCEPT ![w] = Recorded(@)]
  /\ UNCHANGED <<month, viewing, tracked, blind>>

\* The RPC fails (the executor swallows that), or the worker dies.
LoseCost(w) ==
  /\ slot[w].phase # "idle"
  /\ slot' = [slot EXCEPT ![w] = Idle]
  /\ UNCHANGED <<month, rowVars, viewing, tracked, blind>>

MonthEnds ==
  /\ month < LastMonth
  /\ month' = month + 1
  /\ UNCHANGED <<rowVars, slot, viewing, tracked, blind>>

-----------------------------------------------------------------------------
Init ==
  /\ month = 0
  /\ created = {}
  /\ usage = [m \in Months |-> 0]
  /\ slot = [w \in Workers |-> Idle]
  /\ viewing = {}
  /\ tracked = 0
  /\ blind = 0

Begins == \E w \in Workers : PreflightFindsRow(w) \/ PreflightFindsNothing(w)

Continues ==
  \/ \E w \in Workers :
       \/ PreflightCreatesRow(w) \/ PreflightWritesNothing(w)
       \/ Spend(w) \/ AgentRuns(w) \/ Finish(w) \/ RecordJobCost(w) \/ LoseCost(w)
  \/ ViewFindsNothing \/ ViewCreatesRow \/ ViewWritesNothing \/ MonthEnds

Next == Begins \/ Continues
Spec == Init /\ [][Next]_vars

-----------------------------------------------------------------------------
TypeOK ==
  /\ month \in Months
  /\ created \subseteq Months
  /\ usage \in [Months -> Nat]
  /\ \A m \in Months : m \notin created => usage[m] = 0
  /\ slot \in [Workers -> {Idle} \cup Execution]
  /\ viewing \subseteq Months
  /\ tracked \in Nat
  /\ blind \in Nat

Bound == Budget + (Cardinality(Workers) + blind) * Ceiling

\* The usage a month can reach is bounded although the check reserves nothing,
\* rows are created late and set back, and executions run over the turn of the
\* month: the budget, one execution at its ceiling for every worker, and one for
\* every execution let in because neither the SELECT nor the upsert of its check
\* got through.  Nothing else makes the monthly budget leak.
UsageIsBounded == \A m \in Months : usage[m] <= Bound

\* An execution whose cost may still be added to a month without a look at its
\* row: an admitted one, or one about to create the row of an earlier month.
Reaches(s, m) ==
  \/ s.phase = "running" /\ month <= m
  \/ s.phase = "creating" /\ month <= m /\ s.month < m
  \/ s.phase = "recording" /\ s.month = m

MayReach(m) == {w \in Workers : Reaches(slot[w], m)}

\* What an execution can have counted so far.
Capped(s) ==
  s.phase # "idle" =>
    /\ s.month <= month
    /\ s.phase = "creating" => s.cost = 0 /\ s.refused = 0
    /\ s.phase = "running" =>
         IF s.kind \in Agents THEN s.cost = 0
         ELSE s.cost <= TaskLimit[s.kind] + s.refused * MaxCall
    /\ s.cost <= Ceiling

\* No execution counts more than its ceiling: the limit, the call that went over
\* it, and one call for every refusal its handler ignored.
CostsAreCapped == \A w \in Workers : Capped(slot[w])

\* UsageIsBounded with room left for every execution that may still add to the
\* month: the inductive form.
RoomIsLeft ==
  \A m \in Months :
    /\ usage[m] + Cardinality(MayReach(m)) * Ceiling <= Bound
    /\ m > month => usage[m] = 0

\* What the executions have counted and not yet recorded.
Unrecorded == [w \in Workers |-> IF slot[w].phase = "idle" THEN 0 ELSE slot[w].cost]

\* A cost is recorded at most once, whichever way the execution ends: what the
\* rows and the running executions hold together was counted by some tracker.
CostsRecordedOnce == SumFunction(usage) + SumFunction(Unrecorded) <= tracked

-----------------------------------------------------------------------------
(* Statements of the project's comments that fail.                         *)

\* "Creates the usage row if it does not exist"; recording is an increment that is
\* "safe under concurrent access": recorded usage does not go away.
UsageOnlyGrows == [][\A m \in Months : usage'[m] >= usage[m]]_vars

\* "Act/observe sub-call tokens are separate API calls [...] They do NOT overlap, so
\* we SUM all three": the tracker counts what the provider charges, once.
CountedIsSpent ==
  \A w \in Workers : slot[w].phase # "idle" => slot[w].cost = slot[w].spent
=============================================================================
