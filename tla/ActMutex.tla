------------------------------ MODULE ActMutex ------------------------------
(***************************************************************************)
(* The mutex around act() and exec() of a browser adapter                  *)
(* (adapters/actMutex.ts, used by adapters/magnitude.ts and                *)
(* adapters/stagehand.ts).  The SDK cannot abort an act(): one that timed  *)
(* out for its caller still runs in the page.  The caller is the task      *)
(* handler, which awaits each of its calls; the soft failure after         *)
(* _syncActivePage() is Stagehand's, exec() is Magnitude's.                *)
(***************************************************************************)
EXTENDS Naturals, FiniteSets

CONSTANT MaxActs        (* bound: calls of the SDK's act() *)

ASSUME MaxActsAssumption == MaxActs \in Nat

VARIABLES
  mutex,      (* ActMutexState; pendingAct is the number of a call, or 0   *)
  caller,     (* where the handler is: "idle" or inside act() or exec()    *)
  started,    (* calls of the SDK's act() so far                           *)
  running     (* those whose promise has not settled                       *)

actVars == <<mutex, caller, started, running>>

Acts == 1..MaxActs
Open == [actInFlight |-> FALSE, poisoned |-> FALSE, pendingAct |-> 0]
Settled == mutex.pendingAct \notin running

\* The flags are taken and the SDK called before anything else can run.
TakeHand ==
  /\ started < MaxActs
  /\ started' = started + 1
  /\ running' = running \cup {started'}
  /\ mutex' = [Open EXCEPT !.actInFlight = TRUE, !.pendingAct = started']
  /\ caller' = "acting"

-----------------------------------------------------------------------------
\* act() on a mutex that is free, or poisoned with no promise to wait for.
ActAtOnce ==
  /\ caller = "idle"
  /\ IF mutex.poisoned THEN mutex.pendingAct = 0 ELSE ~mutex.actInFlight
  /\ TakeHand

\* The old promise is given half a second.
ActAfterPoison ==
  /\ caller = "idle" /\ mutex.poisoned /\ mutex.pendingAct # 0
  /\ caller' = "acquiring"
  /\ UNCHANGED <<mutex, started, running>>

\* Mutant: half a second is taken for an answer.
AcquireAnyway ==
  /\ caller = "acquiring"
  /\ TakeHand

AcquireSettled ==
  /\ caller = "acquiring" /\ Settled
  /\ TakeHand

\* 'adapter busy: previous act() still running' is thrown.
AcquireBusy ==
  /\ caller = "acquiring" /\ ~Settled
  /\ caller' = "idle"
  /\ UNCHANGED <<mutex, started, running>>

ActSettles(a) ==
  /\ a \in running
  /\ running' = running \ {a}
  /\ UNCHANGED <<mutex, caller, started>>

Release(next) ==
  /\ mutex' = [mutex EXCEPT !.actInFlight = FALSE, !.pendingAct = 0]
  /\ caller' = next
  /\ UNCHANGED <<started, running>>

\* The SDK's promise won the race; Stagehand then looks for a new tab.
ActReturns ==
  /\ caller = "acting" /\ Settled
  /\ Release("idle") \/ Release("syncing")

\* The timer won, or the SDK's own error says 'timed out'.
ActTimesOut ==
  /\ caller = "acting"
  /\ mutex' = [mutex EXCEPT !.poisoned = TRUE]
  /\ caller' = "idle"
  /\ UNCHANGED <<started, running>>

\* result.success is false: its message is thrown, and may say 'timed out' too.
SyncReturns ==
  /\ caller = "syncing"
  /\ \/ Release("idle")
     \/ /\ mutex' = [mutex EXCEPT !.poisoned = TRUE]
        /\ caller' = "idle"
        /\ UNCHANGED <<started, running>>

\* exec() refreshes the mutex first.
Exec ==
  /\ caller = "idle"
  /\ caller' = "refreshing"
  /\ UNCHANGED <<mutex, started, running>>

Refresh ==
  /\ caller = "refreshing"
  /\ mutex' = IF mutex.poisoned /\ mutex.pendingAct # 0 /\ Settled THEN Open ELSE mutex
  /\ caller' = IF mutex'.poisoned \/ mutex'.actInFlight THEN "idle" ELSE "execing"
  /\ UNCHANGED <<started, running>>

ExecReturns ==
  /\ caller = "execing"
  /\ caller' = "idle"
  /\ UNCHANGED <<mutex, started, running>>

-----------------------------------------------------------------------------
ActInit ==
  /\ mutex = Open
  /\ caller = "idle"
  /\ started = 0
  /\ running = {}

Awaits ==
  AcquireSettled \/ AcquireBusy \/ ActReturns \/ ActTimesOut \/ SyncReturns
  \/ Refresh \/ ExecReturns

ActNext ==
  \/ ActAtOnce \/ ActAfterPoison \/ Exec \/ Awaits
  \/ \E a \in Acts : ActSettles(a)

ActSpec == ActInit /\ [][ActNext]_actVars

-----------------------------------------------------------------------------
ActTypeOK ==
  /\ mutex \in [actInFlight : BOOLEAN, poisoned : BOOLEAN, pendingAct : 0..MaxActs]
  /\ caller \in {"idle", "acquiring", "acting", "syncing", "refreshing", "execing"}
  /\ started \in 0..MaxActs
  /\ running \subseteq Acts

\* However its calls end, the page is driven by one act() or one exec() at a time:
\* what a handler does after a timeout never runs beside the act() it gave up.
OneHandOnThePage ==
  /\ \A a, b \in running : a = b
  /\ caller = "execing" => running = {}
=============================================================================
