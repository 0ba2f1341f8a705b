--------------------------- MODULE ExecutorProofs ---------------------------
(***************************************************************************)
(* What module Executor promises for any number of executions, crash       *)
(* recoveries, requests for a human and pooled clients.                    *)
(***************************************************************************)
EXTENDS Executor, FiniteSetTheorems, TLAPS

(* The updates the actions are made of.                                    *)

\* An execution that changes its phase changes nothing else of itself.
LEMMA Moves ==
  ASSUME x \in Execution, NEW pc \in Phases, Goto(pc)
  PROVE  x' \in Execution /\ x' = [x EXCEPT !.pc = pc]
BY DEF Goto, Execution

\* A write that is dropped, or not, leaves a status in the row.
LEMMA Writes ==
  ASSUME row \in [Execs -> Statuses], NEW m \in Execs, NEW s \in Statuses, Write(m, s)
  PROVE  row' \in [Execs -> Statuses]
BY DEF Write

\* What an execution records and reports.
LEMMA Settles ==
  ASSUME out \in [Execs -> Outcome], x.n \in Execs,
         NEW s \in SUBSET {"completed", "cancelled", "failed"}, Settle(s)
  PROVE  /\ out' \in [Execs -> Outcome]
         /\ out'[x.n] = [cost |-> out[x.n].cost + 1, told |-> out[x.n].told \cup s]
         /\ \A m \in Execs \ {x.n} : out'[m] = out[m]
<1>1. out[x.n] \in Outcome
  OBVIOUS
<1>2. out[x.n].cost \in Nat
      /\ out[x.n].told \in SUBSET {"rejected", "completed", "cancelled", "failed"}
  BY <1>1 DEF Outcome
<1>3. [cost |-> out[x.n].cost + 1, told |-> out[x.n].told \cup s] \in Outcome
  <2>1. out[x.n].cost + 1 \in Nat
    BY <1>2
  <2>2. out[x.n].told \cup s \in SUBSET {"rejected", "completed", "cancelled", "failed"}
    BY <1>2
  <2>. QED
    BY <2>1, <2>2 DEF Outcome
<1>. QED
  BY <1>3 DEF Settle

\* A rejection is reported and costs nothing.
LEMMA Rejects ==
  ASSUME out \in [Execs -> Outcome], x.n \in Execs, Report("rejected")
  PROVE  /\ out' \in [Execs -> Outcome]
         /\ out'[x.n] = [cost |-> out[x.n].cost, told |-> out[x.n].told \cup {"rejected"}]
         /\ \A m \in Execs \ {x.n} : out'[m] = out[m]
<1>1. out[x.n] \in Outcome
  OBVIOUS
<1>2. [out[x.n] EXCEPT !.told = @ \cup {"rejected"}]
        = [cost |-> out[x.n].cost, told |-> out[x.n].told \cup {"rejected"}]
  BY <1>1 DEF Outcome
<1>3. [cost |-> out[x.n].cost, told |-> out[x.n].told \cup {"rejected"}] \in Outcome
  BY <1>1 DEF Outcome
<1>. QED
  BY <1>2, <1>3 DEF Report

\* A stop, whether it fails or not, is of adapters there are.
LEMMA Stops ==
  ASSUME alive \subseteq Adapters, leaks \subseteq Adapters,
         NEW a, NEW started \in SUBSET Adapters, NEW left \in SUBSET Adapters,
         StopOf(a, started, left)
  PROVE  /\ alive' \subseteq Adapters /\ leaks' \subseteq Adapters
         /\ alive' \subseteq alive \cup started /\ leaks \subseteq leaks'
         /\ alive' \subseteq (alive \ {a}) \cup started \cup leaks'
BY DEF StopOf

\* A call belongs to an execution.
LEMMA CallOfExecution ==
  ASSUME NEW c \in Calls
  PROVE  c[1] \in Execs
BY DEF Calls

\* A call that changes its phase, or that ends and is forgotten.
LEMMA CallMoves ==
  ASSUME calls \in [Calls -> Call], NEW c \in Calls, NEW pc \in CallPhases,
         CallTo(c, pc) \/ (pc \in Over /\ CallEnds(c, pc))
  PROVE  /\ calls' \in [Calls -> Call]
         /\ calls'[c].pc \in Over \cup {pc}
         /\ pc \notin Over => calls'[c].pc = pc
         /\ \A d \in Calls \ {c} : calls'[d] = calls[d]
<1>1. [calls[c] EXCEPT !.pc = pc] \in Call /\ NoCall \in Call
      /\ [NoCall EXCEPT !.pc = "thrown"] \in Call
      /\ [NoCall EXCEPT !.pc = "thrown"].pc = "thrown"
      /\ [calls[c] EXCEPT !.pc = pc].pc = pc
  BY ExecutorAssumption DEF Call, NoCall, CallPhases, Over
<1>2. CASE CallTo(c, pc)
  BY <1>1, <1>2 DEF CallTo
<1>3. CASE pc \in Over /\ CallEnds(c, pc)
  BY <1>1, <1>3 DEF CallEnds, CallTo, Over
<1>. QED
  BY <1>2, <1>3

-----------------------------------------------------------------------------
(* The inductive invariant.                                                *)

\* An execution that is under way has a job, and an adapter before it starts one.
Working ==
  /\ x.pc # "idle" => x.n \in Execs
  /\ x.pc = "starting" => x.adapter \in Adapters

\* The client of the cancel channel is held from the LISTEN to the finally.
ClientInHand == x.client => x.pc \notin {"idle", "stamp", "listen", "stopping"}

\* Until the adapter has started, no browser runs but those left behind.
NotStarted == {"idle", "stamp", "listen", "preflight", "validate", "starting"}
NoBrowserYet == x.pc \in NotStarted => alive \subseteq leaks

\* What an execution leaves behind; nothing before it ends.
Ended == {"closing", "stopping", "idle", "review"}
NoOutcome == [cost |-> 0, told |-> {}]
Refused == [cost |-> 0, told |-> {"rejected"}]
Told == {{}, {"completed"}, {"cancelled"}, {"failed"}}
Final(o) == o = Refused \/ \E s \in Told : o = [cost |-> 1, told |-> s]
Accounts ==
  \A m \in Execs :
    IF m < x.n \/ (m = x.n /\ x.pc \in Ended) THEN Final(out[m]) ELSE out[m] = NoOutcome

IInv ==
  /\ TypeOK /\ Working
  /\ ClientInHand /\ PoolBalances
  /\ NoBrowserYet /\ BrowserIsOwned
  /\ Accounts

-----------------------------------------------------------------------------
(* Types.                                                                  *)

\* The clients that calls hold are finitely many.
LEMMA HoldersFinite ==
  /\ IsFiniteSet(Calls) /\ IsFiniteSet(Holders)
  /\ \A S \in SUBSET Holders :
       IsFiniteSet(S) /\ Cardinality(S) \in Nat /\ Cardinality(S) <= Cardinality(Holders)
  /\ Cardinality(Holders) \in Nat
  /\ \A c \in Holders : 1 <= Cardinality(Holders)
<1>1. IsFiniteSet(Execs) /\ IsFiniteSet(1..MaxAsks)
  BY FS_Interval, ExecutorAssumption DEF Execs
<1>2. IsFiniteSet(Calls)
  BY <1>1, FS_Product DEF Calls
<1>3. IsFiniteSet(Holders)
  BY <1>2, FS_Subset DEF Holders
<1>4. Cardinality(Holders) \in Nat
  BY <1>3, FS_CardinalityType
<1>5. ASSUME NEW S \in SUBSET Holders
      PROVE  IsFiniteSet(S) /\ Cardinality(S) \in Nat /\ Cardinality(S) <= Cardinality(Holders)
  BY <1>3, FS_Subset, FS_CardinalityType
<1>6. ASSUME NEW c \in Holders PROVE 1 <= Cardinality(Holders)
  <2>1. Cardinality({c}) = 1
    BY FS_Singleton
  <2>. QED
    BY <1>5, <2>1
<1>. QED
  BY <1>2, <1>3, <1>4, <1>5, <1>6

\* The initial state is well typed.
LEMMA TypeInit == Init => TypeOK
<1>. SUFFICES ASSUME Init PROVE TypeOK
  OBVIOUS
<1>1. NoCall \in Call /\ Idle \in Execution
  BY ExecutorAssumption DEF NoCall, Call, CallPhases, Over, Idle, Execution, Phases
<1>2. [cost |-> 0, told |-> {}] \in Outcome
  BY DEF Outcome
<1>3. NoBeat \in [of : 0..Executions, says : {"nothing", "attempt", "cancelled"}]
  BY ExecutorAssumption DEF NoBeat
<1>4. row \in [Execs -> Statuses] /\ calls \in [Calls -> Call] /\ out \in [Execs -> Outcome]
  BY <1>1, <1>2 DEF Init, Statuses
<1>5. free \in 0..Clients /\ alive \subseteq Adapters /\ leaks \subseteq Adapters
      /\ active \in Adapters \cup {None}
  BY ExecutorAssumption DEF Init
<1>. QED
  BY <1>1, <1>3, <1>4, <1>5 DEF Init, TypeOK

\* Every step keeps the types.
LEMMA TypeStep ==
  ASSUME TypeOK, Working, PoolBalances, Next
  PROVE  TypeOK'
<1>0. /\ x \in Execution /\ x.n \in 0..Executions /\ x.recoveries \in 0..MaxRecoveries
      /\ x.adapter \in Adapters \cup {None} /\ x.pc \in Phases
      /\ x.pc # "idle" => x.n \in Execs
  BY DEF TypeOK, Working, Execution
<1>1. ASSUME Begin PROVE TypeOK'
  <2>1. PICK k \in 0..MaxAsks : x' = [Idle EXCEPT !.n = x.n + 1, !.pc = "stamp", !.asks = k]
    BY <1>1 DEF Begin
  <2>2. x.n + 1 \in 0..Executions /\ 0 \in 0..MaxRecoveries
    BY <1>0, <1>1, ExecutorAssumption DEF Begin
  <2>3. x' = [n |-> x.n + 1, pc |-> "stamp", adapter |-> None, recoveries |-> 0,
              client |-> FALSE, stamped |-> FALSE, wired |-> FALSE, asks |-> k]
    BY <2>1 DEF Idle
  <2>4. x' \in Execution
    BY <2>2, <2>3 DEF Execution, Phases
  <2>. QED
    BY <1>1, <2>4 DEF Begin, TypeOK
<1>2. ASSUME Stamp PROVE TypeOK'
  <2>1. x' \in Execution
    BY <1>0, <1>2, Moves DEF Stamp, Execution, Phases
  <2>. QED
    BY <1>2, <2>1 DEF Stamp, TypeOK, browserVars
<1>3. ASSUME ListenForCancel PROVE TypeOK'
  <2>1. x' \in Execution
    BY <1>0, <1>3, Moves DEF ListenForCancel, Execution, Phases
  <2>2. free' \in 0..Clients
    BY <1>3, ExecutorAssumption DEF ListenForCancel, PoolServes, TypeOK
  <2>. QED
    BY <1>3, <2>1, <2>2 DEF ListenForCancel, TypeOK, browserVars
<1>4. ASSUME Reject PROVE TypeOK'
  <2>1. x' \in Execution /\ row' \in [Execs -> Statuses]
    BY <1>0, <1>4, Moves, Writes DEF Reject, Phases, Statuses, TypeOK
  <2>. QED
    BY <1>0, <1>4, <2>1, Rejects DEF Reject, TypeOK, browserVars
<1>5. ASSUME Run PROVE TypeOK'
  <2>1. x' \in Execution /\ row' \in [Execs -> Statuses]
    BY <1>0, <1>5, Moves, Writes DEF Run, Phases, Statuses, TypeOK
  <2>. QED
    BY <1>0, <1>5, <2>1 DEF Run, TypeOK, browserVars
<1>6. ASSUME CreateAdapter PROVE TypeOK'
  <2>1. <<x.n, 0>> \in Adapters
    BY <1>0, <1>6, ExecutorAssumption DEF CreateAdapter, Adapters
  <2>2. x' \in Execution /\ active' = <<x.n, 0>>
    BY <1>0, <1>6, <2>1 DEF CreateAdapter, Execution, Phases
  <2>. QED
    BY <1>6, <2>1, <2>2 DEF CreateAdapter, TypeOK
<1>7. ASSUME StartAdapter PROVE TypeOK'
  <2>1. x' \in Execution
    BY <1>0, <1>7, Moves DEF StartAdapter, Phases
  <2>2. alive' \subseteq Adapters /\ leaks' \subseteq Adapters
    BY <1>0, <1>7 DEF StartAdapter, TypeOK, Working
  <2>. QED
    BY <1>7, <2>1, <2>2 DEF StartAdapter, TypeOK
<1>8. ASSUME InitialCheckClear \/ InitialCheckEnds \/ InitialCheckTimesOut \/ Replay PROVE TypeOK'
  <2>1. x' \in Execution
    BY <1>0, <1>8, Moves DEF InitialCheckClear, InitialCheckEnds, InitialCheckTimesOut,
       Replay, Phases
  <2>. QED
    BY <1>8, <2>1 DEF InitialCheckClear, InitialCheckEnds, InitialCheckTimesOut, Replay,
       TypeOK, browserVars
<1>9. ASSUME FallBack PROVE TypeOK'
  <2>1. x' \in Execution /\ row' \in [Execs -> Statuses]
    BY <1>0, <1>9, Writes DEF FallBack, Execution, Phases, Statuses, TypeOK
  <2>. QED
    BY <1>0, <1>9, <2>1 DEF FallBack, TypeOK, browserVars
<1>10. ASSUME HandlerReturns \/ HandlerThrows \/ CaughtError \/ CatchGivesUp \/ CatchCannotAsk PROVE TypeOK'
  <2>1. x' \in Execution
    BY <1>0, <1>10, Moves DEF HandlerReturns, HandlerThrows, CaughtError, CatchGivesUp,
       CatchCannotAsk, Phases
  <2>. QED
    BY <1>10, <2>1 DEF HandlerReturns, HandlerThrows, CaughtError, CatchGivesUp,
       CatchCannotAsk, TypeOK, browserVars
<1>11. ASSUME HandlerCrashes PROVE TypeOK'
  <2>1. x.recoveries + 1 \in 0..MaxRecoveries
    BY <1>0, <1>11, ExecutorAssumption DEF HandlerCrashes
  <2>2. x' \in Execution
    BY <1>0, <1>11, <2>1 DEF HandlerCrashes, Execution, Phases
  <2>. QED
    BY <1>11, <2>2 DEF HandlerCrashes, TypeOK, browserVars
<1>12. ASSUME Recover PROVE TypeOK'
  <2>1. <<x.n, x.recoveries>> \in Adapters
    BY <1>0, <1>12 DEF Recover, Adapters
  <2>2. x' \in Execution /\ row' \in [Execs -> Statuses]
    BY <1>0, <1>12, <2>1, Writes DEF Recover, Execution, Phases, Statuses, TypeOK
  <2>3. alive' \subseteq Adapters /\ leaks' \subseteq Adapters
    <3>1. StopOf(x.adapter, {<<x.n, x.recoveries>>}, {})
      BY <1>12 DEF Recover
    <3>2. {<<x.n, x.recoveries>>} \in SUBSET Adapters /\ {} \in SUBSET Adapters
      BY <2>1
    <3>. QED
      BY <3>1, <3>2, Stops DEF TypeOK
  <2>. QED
    BY <1>12, <2>1, <2>2, <2>3 DEF Recover, TypeOK
<1>13. ASSUME RecoveryFails PROVE TypeOK'
  <2>1. x' \in Execution
    BY <1>0, <1>13, Moves DEF RecoveryFails, Phases
  <2>2. <<x.n, x.recoveries>> \in Adapters
    BY <1>0, <1>13 DEF RecoveryFails, Adapters
  <2>3. alive' \subseteq Adapters /\ leaks' \subseteq Adapters
    <3>1. PICK left \in SUBSET {<<x.n, x.recoveries>>} : StopOf(x.adapter, {}, left)
      BY <1>13 DEF RecoveryFails
    <3>2. left \in SUBSET Adapters /\ {} \in SUBSET Adapters
      BY <2>2
    <3>. QED
      BY <3>1, <3>2, Stops DEF TypeOK
  <2>. QED
    BY <1>13, <2>1, <2>3 DEF RecoveryFails, TypeOK
<1>14. ASSUME Complete PROVE TypeOK'
  <2>1. x' \in Execution /\ row' \in [Execs -> Statuses]
    BY <1>0, <1>14, Moves, Writes DEF Complete, Phases, Statuses, TypeOK
  <2>. QED
    BY <1>0, <1>14, <2>1, Settles DEF Complete, TypeOK, browserVars
<1>15. ASSUME AwaitUserReview PROVE TypeOK'
  <2>1. x' \in Execution /\ row' \in [Execs -> Statuses]
    BY <1>0, <1>15, Moves, Writes DEF AwaitUserReview, Phases, Statuses, TypeOK
  <2>. QED
    BY <1>0, <1>15, <2>1, Settles DEF AwaitUserReview, TypeOK, browserVars
<1>16. ASSUME CaughtCancelled \/ CatchResumed PROVE TypeOK'
  <2>1. x' \in Execution
    BY <1>0, <1>16, Moves DEF CaughtCancelled, CatchResumed, Phases
  <2>. QED
    BY <1>0, <1>16, <2>1, Settles DEF CaughtCancelled, CatchResumed, TypeOK, browserVars
<1>17. ASSUME HandleJobError PROVE TypeOK'
  <2>1. x' \in Execution /\ row' \in [Execs -> Statuses]
    BY <1>0, <1>17, Moves, Writes DEF HandleJobError, Phases, Statuses, TypeOK
  <2>. QED
    BY <1>0, <1>17, <2>1, Settles DEF HandleJobError, TypeOK, browserVars
<1>18. ASSUME Close PROVE TypeOK'
  <2>1. x' \in Execution
    BY <1>0, <1>18 DEF Close, Execution, Phases
  <2>2. free' \in 0..Clients
    BY <1>18, HoldersFinite, ExecutorAssumption DEF Close, PoolBalances, Held, TypeOK
  <2>. QED
    BY <1>18, <2>1, <2>2 DEF Close, TypeOK
<1>19. ASSUME StopAdapter PROVE TypeOK'
  <2>1. x' \in Execution
    BY <1>0, <1>19, Moves DEF StopAdapter, Phases
  <2>2. alive' \subseteq Adapters /\ leaks' \subseteq Adapters
    BY <1>19, Stops DEF StopAdapter, TypeOK
  <2>. QED
    BY <1>19, <2>1, <2>2 DEF StopAdapter, TypeOK
<1>20. ASSUME Heartbeat \/ HeartbeatAnswered PROVE TypeOK'
  <2>1. beat' \in [of : 0..Executions, says : {"nothing", "attempt", "cancelled"}]
    BY <1>0, <1>20, ExecutorAssumption DEF Heartbeat, HeartbeatAnswered, NoBeat, TypeOK
  <2>2. cancelled' \in BOOLEAN /\ alive' \subseteq Adapters
    BY <1>20 DEF Heartbeat, HeartbeatAnswered, StopActive, TypeOK, browserVars
  <2>. QED
    BY <1>20, <2>1, <2>2 DEF Heartbeat, HeartbeatAnswered, TypeOK, browserVars
<1>21. ASSUME NEW c \in Calls, Finds(c) PROVE TypeOK'
  <2>1. x' \in Execution
    BY <1>0, <1>21, Moves DEF Finds, InitialCheckFinds, BackgroundCheckFinds, CatchCheckFinds,
       CatchAsks, Phases
  <2>2. PICK by \in {"initial", "background", "catch", "direct"} : Detect(c, by)
    BY <1>21 DEF Finds, InitialCheckFinds, BackgroundCheckFinds, CatchCheckFinds, CatchAsks
  <2>3. [pc |-> "found", by |-> by, adapter |-> x.adapter, checks |-> 0] \in Call
    BY <1>0, ExecutorAssumption DEF Call, CallPhases, Over
  <2>4. calls' \in [Calls -> Call]
    BY <2>2, <2>3 DEF Detect, TypeOK
  <2>. QED
    BY <2>1, <2>2, <2>4 DEF Detect, TypeOK, browserVars
<1>22. ASSUME NEW c \in Calls, AskHuman(c) PROVE TypeOK'
  <2>1. calls' \in [Calls -> Call] /\ row' \in [Execs -> Statuses]
    BY <1>22, CallMoves, Writes, CallOfExecution DEF AskHuman, CallPhases, Over, TypeOK,
       Statuses
  <2>. QED
    BY <1>22, <2>1 DEF AskHuman, TypeOK, browserVars
<1>23. ASSUME NEW c \in Calls, AskFails(c) PROVE TypeOK'
  <2>1. calls' \in [Calls -> Call]
    BY <1>23, CallMoves DEF AskFails, CallPhases, Over, TypeOK
  <2>. QED
    BY <1>23, <2>1 DEF AskFails, TypeOK, browserVars
<1>24. ASSUME NEW c \in Calls, WaitForResume(c) PROVE TypeOK'
  <2>1. calls' \in [Calls -> Call]
    BY <1>24, CallMoves DEF WaitForResume, CallPhases, Over, TypeOK
  <2>2. free' \in 0..Clients
    BY <1>24, ExecutorAssumption DEF WaitForResume, PoolServes, TypeOK
  <2>. QED
    BY <1>24, <2>1, <2>2 DEF WaitForResume, TypeOK, browserVars
<1>25. ASSUME NEW c \in Calls, PollSeesRunning(c) PROVE TypeOK'
  <2>1. calls' \in [Calls -> Call]
    BY <1>25, CallMoves DEF PollSeesRunning, CallPhases, Over, TypeOK
  <2>. QED
    BY <1>25, <2>1 DEF PollSeesRunning, TypeOK, browserVars
<1>26. ASSUME NEW c \in Calls, HumanTimeout(c) PROVE TypeOK'
  <2>1. calls' \in [Calls -> Call] /\ row' \in [Execs -> Statuses]
    BY <1>26, CallMoves, Writes, CallOfExecution DEF HumanTimeout, CallPhases, Over,
       TypeOK, Statuses
  <2>2. free' \in 0..Clients
    BY <1>26, HoldersFinite, ExecutorAssumption DEF HumanTimeout, PoolBalances, Held,
       Holders, TypeOK
  <2>. QED
    BY <1>26, <2>1, <2>2 DEF HumanTimeout, TypeOK, browserVars
<1>27. ASSUME NEW c \in Calls, ReadResolution(c) PROVE TypeOK'
  <2>1. calls' \in [Calls -> Call]
    BY <1>27, CallMoves DEF ReadResolution, CallPhases, Over, TypeOK
  <2>. QED
    BY <1>27, <2>1 DEF ReadResolution, TypeOK, browserVars
<1>28. ASSUME NEW c \in Calls, Resume(c) PROVE TypeOK'
  <2>1. calls' \in [Calls -> Call] /\ row' \in [Execs -> Statuses]
    BY <1>28, CallMoves, Writes, CallOfExecution DEF Resume, CallPhases, Over, TypeOK,
       Statuses
  <2>. QED
    BY <1>28, <2>1 DEF Resume, TypeOK, browserVars
<1>29. ASSUME NEW c \in Calls, Recheck(c) PROVE TypeOK'
  <2>1. CASE CallEnds(c, "clear") \/ CallEnds(c, "blocked")
    BY <1>29, <2>1, CallMoves DEF Recheck, CallPhases, Over, TypeOK, browserVars
  <2>2. CASE /\ calls[c].checks + 1 < MaxRechecks
             /\ calls' = [calls EXCEPT ![c].checks = calls[c].checks + 1, ![c].pc = "found"]
    <3>1. calls[c] \in Call
      BY DEF TypeOK
    <3>2. [calls[c] EXCEPT !.checks = calls[c].checks + 1, !.pc = "found"] \in Call
      <4>1. calls[c].checks \in 0..MaxRechecks
        BY <3>1 DEF Call
      <4>2. calls[c].checks + 1 \in 0..MaxRechecks
        BY <2>2, <4>1, ExecutorAssumption
      <4>. QED
        BY <3>1, <4>2 DEF Call, CallPhases
    <3>3. calls' = [calls EXCEPT ![c] = [calls[c] EXCEPT !.checks = calls[c].checks + 1,
    !.pc = "found"]]
      BY <2>2, <3>1 DEF TypeOK
    <3>. QED
      BY <1>29, <3>2, <3>3 DEF Recheck, TypeOK, browserVars
  <2>. QED
    BY <1>29, <2>1, <2>2 DEF Recheck
<1>30. ASSUME NEW m \in Execs, HumanAnswers(m) PROVE TypeOK'
  <2>. DEFINE heard == {c \in Calls : c[1] = m /\ calls[c].pc = "listening"}
  <2>1. \A c \in Calls : [calls[c] EXCEPT !.pc = "answered"] \in Call /\ calls[c] \in Call
    BY DEF TypeOK, Call, CallPhases
  <2>2. calls' \in [Calls -> Call]
    BY <1>30, <2>1 DEF HumanAnswers
  <2>3. heard \in SUBSET Holders
    BY DEF Holders
  <2>4. free' \in 0..Clients
    <3>1. Cardinality(heard) \in Nat /\ Cardinality(heard) <= Cardinality(Holders)
      BY <2>3, HoldersFinite
    <3>. QED
      BY <1>30, <3>1, HoldersFinite, ExecutorAssumption DEF HumanAnswers, PoolBalances,
         Held, TypeOK
  <2>5. row' \in [Execs -> Statuses]
    BY <1>30 DEF HumanAnswers, TypeOK, Statuses
  <2>. QED
    BY <1>30, <2>2, <2>4, <2>5 DEF HumanAnswers, TypeOK, browserVars
<1>31. ASSUME NEW m \in Execs, Cancel(m) PROVE TypeOK'
  BY <1>31 DEF Cancel, StopActive, Statuses, TypeOK
<1>32. ASSUME NEW a \in Adapters, BrowserDies(a) PROVE TypeOK'
  BY <1>32 DEF BrowserDies, TypeOK
<1>. QED
  BY <1>1, <1>2, <1>3, <1>4, <1>5, <1>6, <1>7, <1>8, <1>9, <1>10, <1>11, <1>12, <1>13,
     <1>14, <1>15, <1>16, <1>17, <1>18, <1>19, <1>20, <1>21, <1>22, <1>23, <1>24, <1>25,
     <1>26, <1>27, <1>28, <1>29, <1>30, <1>31, <1>32
     DEF Next, Routine, Disturbance, Setup, Handling, Ending, CallStep

-----------------------------------------------------------------------------
(* The browser and the client of the cancel channel.                       *)

Control == Working /\ ClientInHand /\ NoBrowserYet /\ BrowserIsOwned

\* A step of the execution that only moves on, and starts no browser.
LEMMA MovesOn ==
  ASSUME x \in Execution, Control, NEW pc \in Phases, Goto(pc), alive' \subseteq alive,
         leaks \subseteq leaks',
         pc \notin {"idle", "starting", "stopping"}, x.pc # "idle",
         pc \in NotStarted => x.pc \in NotStarted,
         pc \in {"stamp", "listen"} => ~x.client
  PROVE  Control'
<1>1. x' = [x EXCEPT !.pc = pc]
  BY Moves
<1>2. x'.pc = pc /\ x'.n = x.n /\ x'.adapter = x.adapter /\ x'.client = x.client
  BY <1>1 DEF Execution
<1>. QED
  BY <1>2 DEF Control, Working, ClientInHand, NoBrowserYet, BrowserIsOwned, NotStarted

\* A step beside the execution starts no browser either.
LEMMA StandsStill ==
  ASSUME Control, UNCHANGED x, alive' \subseteq alive, leaks \subseteq leaks'
  PROVE  Control'
BY DEF Control, Working, ClientInHand, NoBrowserYet, BrowserIsOwned

\* Every step leaves the browser and the client in the execution's hand.
LEMMA ControlStep ==
  ASSUME TypeOK, Control, Next
  PROVE  Control'
<1>0. x \in Execution /\ x.pc \in Phases /\ x.n \in 0..Executions
  BY DEF TypeOK, Execution
<1>. USE DEF NotStarted
<1>1. ASSUME Begin PROVE Control'
  <2>1. PICK k \in 0..MaxAsks : x' = [Idle EXCEPT !.n = x.n + 1, !.pc = "stamp", !.asks = k]
    BY <1>1 DEF Begin
  <2>2. x'.n = x.n + 1 /\ x'.pc = "stamp" /\ x'.client = FALSE
    BY <2>1 DEF Idle
  <2>3. x.n + 1 \in Execs
    BY <1>0, <1>1, ExecutorAssumption DEF Begin, Execs
  <2>. QED
    BY <1>1, <2>2, <2>3 DEF Begin, Control, Working, ClientInHand, NoBrowserYet,
       BrowserIsOwned
<1>2. ASSUME Stamp PROVE Control'
  <2>1. /\ x'.pc \in {"listen", "caught"} /\ x'.n = x.n
        /\ x'.adapter = x.adapter /\ x'.client = x.client
    BY <1>0, <1>2 DEF Stamp, Execution, Goto, browserVars
  <2>. QED
    BY <1>0, <1>2, <2>1 DEF Stamp, browserVars, Control, Working, ClientInHand,
       NoBrowserYet, BrowserIsOwned
<1>3. ASSUME ListenForCancel PROVE Control'
  <2>1. x'.pc = "preflight" /\ x'.n = x.n /\ x'.adapter = x.adapter
    BY <1>0, <1>3 DEF ListenForCancel, Execution, Goto
  <2>. QED
    BY <1>0, <1>3, <2>1 DEF ListenForCancel, browserVars, Control, Working, ClientInHand,
       NoBrowserYet, BrowserIsOwned
<1>4. ASSUME Reject PROVE Control'
  BY <1>0, <1>4, MovesOn DEF Reject, Phases, browserVars
<1>5. ASSUME Run PROVE Control'
  BY <1>0, <1>5, MovesOn DEF Run, Phases, browserVars
<1>6. ASSUME InitialCheckClear PROVE Control'
  BY <1>0, <1>6, MovesOn DEF InitialCheckClear, Phases, browserVars
<1>7. ASSUME InitialCheckEnds PROVE Control'
  BY <1>0, <1>7, MovesOn DEF InitialCheckEnds, Phases, browserVars
<1>8. ASSUME InitialCheckTimesOut PROVE Control'
  BY <1>0, <1>8, MovesOn DEF InitialCheckTimesOut, Phases, browserVars
<1>9. ASSUME Replay PROVE Control'
  BY <1>0, <1>9, MovesOn DEF Replay, Phases, browserVars
<1>10. ASSUME FallBack PROVE Control'
  <2>1. x'.pc = "handler" /\ x'.n = x.n /\ x'.adapter = x.adapter /\ x'.client = x.client
    BY <1>0, <1>10 DEF FallBack, Execution
  <2>. QED
    BY <1>0, <1>10, <2>1 DEF FallBack, browserVars, Control, Working, ClientInHand,
       NoBrowserYet, BrowserIsOwned
<1>11. ASSUME HandlerReturns PROVE Control'
  BY <1>0, <1>11, MovesOn DEF HandlerReturns, Phases, browserVars
<1>12. ASSUME HandlerThrows PROVE Control'
  BY <1>0, <1>12, MovesOn DEF HandlerThrows, Phases, browserVars
<1>13. ASSUME RecoveryFails PROVE Control'
  <2>1. alive' \subseteq alive /\ leaks \subseteq leaks'
    BY <1>13 DEF RecoveryFails, StopOf
  <2>. QED
    BY <1>0, <1>13, <2>1, MovesOn DEF RecoveryFails, Phases
<1>14. ASSUME Complete PROVE Control'
  BY <1>0, <1>14, MovesOn DEF Complete, Phases, browserVars
<1>15. ASSUME AwaitUserReview PROVE Control'
  BY <1>0, <1>15, MovesOn DEF AwaitUserReview, Phases, browserVars
<1>16. ASSUME CaughtCancelled PROVE Control'
  BY <1>0, <1>16, MovesOn DEF CaughtCancelled, Phases, browserVars
<1>17. ASSUME CaughtError PROVE Control'
  BY <1>0, <1>17, MovesOn DEF CaughtError, Phases, browserVars
<1>18. ASSUME CatchGivesUp PROVE Control'
  BY <1>0, <1>18, MovesOn DEF CatchGivesUp, Phases, browserVars
<1>19. ASSUME CatchResumed PROVE Control'
  BY <1>0, <1>19, MovesOn DEF CatchResumed, Phases, browserVars
<1>20. ASSUME CatchCannotAsk PROVE Control'
  BY <1>0, <1>20, MovesOn DEF CatchCannotAsk, Phases, browserVars
<1>21. ASSUME HandleJobError PROVE Control'
  BY <1>0, <1>21, MovesOn DEF HandleJobError, Phases, browserVars
<1>22. ASSUME CreateAdapter PROVE Control'
  <2>1. x'.pc = "starting" /\ x'.n = x.n /\ x'.adapter = <<x.n, 0>> /\ x'.client = x.client
        /\ <<x.n, 0>> \in Adapters
    BY <1>0, <1>22, ExecutorAssumption DEF CreateAdapter, Execution, Working, Control,
       Adapters
  <2>. QED
    BY <1>0, <1>22, <2>1 DEF CreateAdapter, Control, Working, ClientInHand, NoBrowserYet,
       BrowserIsOwned
<1>23. ASSUME StartAdapter PROVE Control'
  <2>1. x'.pc \in {"initial", "cookbook", "caught"} /\ x'.n = x.n
        /\ x'.adapter = x.adapter /\ x'.client = x.client
    BY <1>0, <1>23 DEF StartAdapter, Execution, Goto
  <2>. QED
    BY <1>0, <1>23, <2>1 DEF StartAdapter, Control, Working, ClientInHand, NoBrowserYet,
       BrowserIsOwned
<1>24. ASSUME HandlerCrashes PROVE Control'
  <2>1. x'.pc = "recovering" /\ x'.n = x.n
        /\ x'.adapter = x.adapter /\ x'.client = x.client
    BY <1>0, <1>24 DEF HandlerCrashes, Execution
  <2>. QED
    BY <1>0, <1>24, <2>1 DEF HandlerCrashes, browserVars, Control, Working, ClientInHand,
       NoBrowserYet, BrowserIsOwned
<1>25. ASSUME Recover PROVE Control'
  <2>1. x'.pc = "handler" /\ x'.n = x.n
        /\ x'.adapter = <<x.n, x.recoveries>> /\ x'.client = x.client
    BY <1>0, <1>25 DEF Recover, Execution
  <2>. QED
    BY <1>0, <1>25, <2>1 DEF Recover, StopOf, Control, Working, ClientInHand, NoBrowserYet,
       BrowserIsOwned
<1>26. ASSUME Close PROVE Control'
  <2>1. x'.pc = "stopping" /\ x'.n = x.n
        /\ x'.adapter = x.adapter /\ x'.client = FALSE
    BY <1>0, <1>26 DEF Close, Execution
  <2>. QED
    BY <1>0, <1>26, <2>1 DEF Close, Control, Working, ClientInHand, NoBrowserYet,
       BrowserIsOwned
<1>27. ASSUME StopAdapter PROVE Control'
  <2>1. x'.pc = "idle" /\ x'.n = x.n
        /\ x'.adapter = x.adapter /\ x'.client = x.client
    BY <1>0, <1>27 DEF StopAdapter, Execution, Goto
  <2>. QED
    BY <1>0, <1>27, <2>1 DEF StopAdapter, StopOf, Control, Working, ClientInHand, NoBrowserYet,
       BrowserIsOwned
<1>28. ASSUME Heartbeat \/ HeartbeatAnswered PROVE Control'
  BY <1>28, StandsStill DEF Heartbeat, HeartbeatAnswered, StopActive, browserVars
<1>29. ASSUME NEW c \in Calls, Finds(c) PROVE Control'
  <2>1. alive' \subseteq alive /\ leaks \subseteq leaks'
    BY <1>29 DEF Finds, InitialCheckFinds, BackgroundCheckFinds, CatchCheckFinds, CatchAsks,
       Detect, browserVars
  <2>2. CASE UNCHANGED x
    BY <2>1, <2>2, StandsStill
  <2>3. CASE x.pc = "initial" /\ Goto("checking")
    BY <1>0, <2>1, <2>3, MovesOn DEF Phases
  <2>4. CASE x.pc \in {"rechecking", "catching"} /\ Goto("catching")
    BY <1>0, <2>1, <2>4, MovesOn DEF Phases
  <2>. QED
    BY <1>29, <2>2, <2>3, <2>4 DEF Finds, InitialCheckFinds, BackgroundCheckFinds,
       CatchCheckFinds, CatchAsks
<1>30. ASSUME NEW c \in Calls, CallStep(c) PROVE Control'
  BY <1>30, StandsStill DEF CallStep, AskHuman, AskFails, WaitForResume, PollSeesRunning,
     HumanTimeout, ReadResolution, Resume, Recheck, browserVars
<1>31. ASSUME NEW m \in Execs, HumanAnswers(m) PROVE Control'
  BY <1>31, StandsStill DEF HumanAnswers, browserVars
<1>32. ASSUME NEW m \in Execs, Cancel(m) PROVE Control'
  BY <1>32, StandsStill DEF Cancel, StopActive
<1>33. ASSUME NEW a \in Adapters, BrowserDies(a) PROVE Control'
  BY <1>33, StandsStill DEF BrowserDies
<1>. QED
  BY <1>1, <1>2, <1>3, <1>4, <1>5, <1>6, <1>7, <1>8, <1>9, <1>10, <1>11, <1>12,
     <1>13, <1>14, <1>15, <1>16, <1>17, <1>18, <1>19, <1>20, <1>21, <1>22, <1>23,
     <1>24, <1>25, <1>26, <1>27, <1>28, <1>29, <1>30, <1>31, <1>32, <1>33
     DEF Next, Routine, Disturbance, Setup, Handling, Ending

-----------------------------------------------------------------------------
(* The pool.                                                               *)

\* The numbers PoolBalances is about.
LEMMA Counts ==
  ASSUME TypeOK, Working
  PROVE  /\ Held \in Nat /\ Closed \in Nat /\ free \in Nat /\ Clients \in Nat
         /\ Held = Cardinality(Holders) + (IF x.client THEN 1 ELSE 0)
         /\ x.n \in Nat /\ x.client \in BOOLEAN
         /\ x.pc \notin {"idle", "stopping"} => Closed = x.n - 1 /\ x.n >= 1
         /\ x.pc \in {"idle", "stopping"} => Closed = x.n
<1>1. x.n \in 0..Executions /\ x.client \in BOOLEAN
  BY DEF TypeOK, Execution
<1>2. x.n \in Nat /\ free \in Nat /\ Clients \in Nat
  BY <1>1, ExecutorAssumption DEF TypeOK
<1>3. Held \in Nat
  BY HoldersFinite DEF Held
<1>4. x.pc # "idle" => x.n >= 1
  BY ExecutorAssumption DEF Working, Execs
<1>. QED
  BY <1>1, <1>2, <1>3, <1>4 DEF Held, Closed

\* What leaves the sum of free and held clients alone keeps the balance.
LEMMA StaysBalanced ==
  ASSUME TypeOK, Working, PoolBalances, TypeOK', Working',
         free' + Held' = free + Held, Closed <= Closed'
  PROVE  PoolBalances'
<1>0. Closed' \in Int
  BY ExecutorAssumption DEF Closed, TypeOK, Execution
<1>1. /\ free + Held \in Nat /\ Clients \in Nat /\ Closed \in Nat
      /\ free + Held <= Clients /\ Clients - (free + Held) <= Closed
  BY Counts DEF PoolBalances, Lost
<1>2. /\ free' + Held' <= Clients /\ Clients - (free' + Held') <= Closed'
  BY <1>0, <1>1
<1>. QED
  BY <1>2 DEF PoolBalances, Lost

\* So does a step of the execution that takes no client and gives none back.
LEMMA MovesBalanced ==
  ASSUME TypeOK, Working, PoolBalances, TypeOK', Working',
         NEW pc \in Phases, Goto(pc), free' = free, Holders' = Holders,
         x.pc = "stopping" => pc \in {"idle", "stopping"}, x.pc # "idle"
  PROVE  PoolBalances'
<1>1. x'.pc = pc /\ x'.n = x.n /\ x'.client = x.client
  BY Moves DEF TypeOK, Execution
<1>2. Held' = Held
  BY <1>1 DEF Held
<1>3. Closed <= Closed'
  BY <1>1, Counts DEF Closed
<1>. QED
  BY <1>2, <1>3, StaysBalanced

\* So does a step beside the execution, if it keeps the sum.
LEMMA BesideBalanced ==
  ASSUME TypeOK, Working, PoolBalances, TypeOK', Working', UNCHANGED x,
         free' + Cardinality(Holders') = free + Cardinality(Holders)
  PROVE  PoolBalances'
<1>1. Closed' = Closed
  BY DEF Closed
<1>2. /\ Cardinality(Holders) \in Nat /\ Cardinality(Holders)' \in Nat
      /\ free \in Nat /\ free' \in Nat
  <2>1. Cardinality(Holders) \in Nat
    BY HoldersFinite
  <2>2. Cardinality(Holders)' \in Nat
    <3>1. Holders' \in SUBSET Calls
      BY DEF Holders
    <3>. QED
      BY <3>1, HoldersFinite, FS_Subset, FS_CardinalityType
  <2>. QED
    BY <2>1, <2>2, ExecutorAssumption DEF TypeOK
<1>3. free' + Held' = free + Held
  BY <1>2 DEF Held
<1>4. Closed <= Closed'
  BY <1>1, Counts
<1>. QED
  BY <1>3, <1>4, StaysBalanced

\* A call that does not start or stop listening keeps the holders.
LEMMA SameHolders ==
  ASSUME NEW c \in Calls, \A d \in Calls \ {c} : calls'[d] = calls[d],
         calls'[c].pc = "listening" <=> calls[c].pc = "listening"
  PROVE  Holders' = Holders
BY DEF Holders

\* Every step keeps the balance.
LEMMA PoolStep ==
  ASSUME TypeOK, Working, ClientInHand, PoolBalances, TypeOK', Working', Next
  PROVE  PoolBalances'
<1>0. x \in Execution /\ x.pc \in Phases /\ calls \in [Calls -> Call]
  BY DEF TypeOK, Execution
<1>1. ASSUME Begin PROVE PoolBalances'
  <2>1. PICK k \in 0..MaxAsks : x' = [Idle EXCEPT !.n = x.n + 1, !.pc = "stamp", !.asks = k]
    BY <1>1 DEF Begin
  <2>2. x'.n = x.n + 1 /\ x'.pc = "stamp" /\ x'.client = FALSE
    BY <2>1 DEF Idle
  <2>3. Held' = Held /\ free' = free
    BY <1>0, <1>1, <2>2 DEF Begin, Held, Holders, ClientInHand, Execution
  <2>4. Closed' = x.n /\ Closed = x.n
    BY <1>1, <2>2, Counts DEF Closed, Begin
  <2>. QED
    BY <2>3, <2>4, Counts, StaysBalanced
<1>2. ASSUME Stamp PROVE PoolBalances'
  <2>1. /\ x'.pc \in {"listen", "caught"} /\ x'.n = x.n /\ x'.client = x.client
        /\ x.pc = "stamp"
    BY <1>0, <1>2 DEF Stamp, Execution, Goto
  <2>2. Held' = Held /\ free' = free
    BY <1>2, <2>1 DEF Stamp, Held, Holders
  <2>3. Closed' = Closed
    BY <2>1, Counts DEF Closed
  <2>. QED
    BY <2>2, <2>3, Counts, StaysBalanced
<1>3. ASSUME ListenForCancel PROVE PoolBalances'
  <2>1. x'.pc = "preflight" /\ x'.n = x.n /\ x.pc = "listen" /\ x.client = FALSE
    BY <1>0, <1>3 DEF ListenForCancel, Execution, Goto, ClientInHand
  <2>2. \/ x'.client = TRUE /\ free' = free - 1
        \/ x'.client = FALSE /\ free' = free
    BY <1>0, <1>3, <2>1 DEF ListenForCancel, Execution, Goto
  <2>3. Holders' = Holders
    BY <1>3 DEF ListenForCancel, Holders
  <2>4. free' + Held' = free + Held
    BY <2>1, <2>2, <2>3, HoldersFinite, Counts DEF Held
  <2>5. Closed' = Closed
    BY <2>1, Counts DEF Closed
  <2>. QED
    BY <2>4, <2>5, Counts, StaysBalanced
<1>4. ASSUME Reject PROVE PoolBalances'
  <2>1. free' = free /\ Holders' = Holders
    BY <1>4 DEF Reject, Holders
  <2>. QED
    BY <1>0, <1>4, <2>1, MovesBalanced DEF Reject, Phases
<1>5. ASSUME Run PROVE PoolBalances'
  <2>1. free' = free /\ Holders' = Holders
    BY <1>5 DEF Run, Holders
  <2>. QED
    BY <1>0, <1>5, <2>1, MovesBalanced DEF Run, Phases
<1>6. ASSUME StartAdapter PROVE PoolBalances'
  <2>1. free' = free /\ Holders' = Holders
    BY <1>6 DEF StartAdapter, Holders
  <2>. QED
    BY <1>0, <1>6, <2>1, MovesBalanced DEF StartAdapter, Phases
<1>7. ASSUME InitialCheckClear PROVE PoolBalances'
  <2>1. free' = free /\ Holders' = Holders
    BY <1>7 DEF InitialCheckClear, Holders
  <2>. QED
    BY <1>0, <1>7, <2>1, MovesBalanced DEF InitialCheckClear, Phases
<1>8. ASSUME InitialCheckEnds PROVE PoolBalances'
  <2>1. free' = free /\ Holders' = Holders
    BY <1>8 DEF InitialCheckEnds, Holders
  <2>. QED
    BY <1>0, <1>8, <2>1, MovesBalanced DEF InitialCheckEnds, Phases
<1>9. ASSUME InitialCheckTimesOut PROVE PoolBalances'
  <2>1. free' = free /\ Holders' = Holders
    BY <1>9 DEF InitialCheckTimesOut, Holders
  <2>. QED
    BY <1>0, <1>9, <2>1, MovesBalanced DEF InitialCheckTimesOut, Phases
<1>10. ASSUME Replay PROVE PoolBalances'
  <2>1. free' = free /\ Holders' = Holders
    BY <1>10 DEF Replay, Holders
  <2>. QED
    BY <1>0, <1>10, <2>1, MovesBalanced DEF Replay, Phases
<1>11. ASSUME FallBack PROVE PoolBalances'
  <2>1. free' = free /\ x.pc = "cookbook" /\ x'.pc = "handler"
        /\ x'.n = x.n /\ x'.client = x.client
    BY <1>0, <1>11 DEF FallBack, Execution
  <2>2. Held' = Held /\ Closed' = Closed
    BY <1>11, <2>1 DEF FallBack, Held, Holders, Closed
  <2>. QED
    BY <2>1, <2>2, Counts, StaysBalanced
<1>12. ASSUME HandlerReturns PROVE PoolBalances'
  <2>1. free' = free /\ Holders' = Holders
    BY <1>12 DEF HandlerReturns, Holders
  <2>. QED
    BY <1>0, <1>12, <2>1, MovesBalanced DEF HandlerReturns, Phases
<1>13. ASSUME HandlerThrows PROVE PoolBalances'
  <2>1. free' = free /\ Holders' = Holders
    BY <1>13 DEF HandlerThrows, Holders
  <2>. QED
    BY <1>0, <1>13, <2>1, MovesBalanced DEF HandlerThrows, Phases
<1>14. ASSUME RecoveryFails PROVE PoolBalances'
  <2>1. free' = free /\ Holders' = Holders
    BY <1>14 DEF RecoveryFails, Holders
  <2>. QED
    BY <1>0, <1>14, <2>1, MovesBalanced DEF RecoveryFails, Phases
<1>15. ASSUME Complete PROVE PoolBalances'
  <2>1. free' = free /\ Holders' = Holders
    BY <1>15 DEF Complete, Holders
  <2>. QED
    BY <1>0, <1>15, <2>1, MovesBalanced DEF Complete, Phases
<1>16. ASSUME AwaitUserReview PROVE PoolBalances'
  <2>1. free' = free /\ Holders' = Holders
    BY <1>16 DEF AwaitUserReview, Holders
  <2>. QED
    BY <1>0, <1>16, <2>1, MovesBalanced DEF AwaitUserReview, Phases
<1>17. ASSUME CaughtCancelled PROVE PoolBalances'
  <2>1. free' = free /\ Holders' = Holders
    BY <1>17 DEF CaughtCancelled, Holders
  <2>. QED
    BY <1>0, <1>17, <2>1, MovesBalanced DEF CaughtCancelled, Phases
<1>18. ASSUME CaughtError PROVE PoolBalances'
  <2>1. free' = free /\ Holders' = Holders
    BY <1>18 DEF CaughtError, Holders
  <2>. QED
    BY <1>0, <1>18, <2>1, MovesBalanced DEF CaughtError, Phases
<1>19. ASSUME CatchGivesUp PROVE PoolBalances'
  <2>1. free' = free /\ Holders' = Holders
    BY <1>19 DEF CatchGivesUp, Holders
  <2>. QED
    BY <1>0, <1>19, <2>1, MovesBalanced DEF CatchGivesUp, Phases
<1>20. ASSUME CatchResumed PROVE PoolBalances'
  <2>1. free' = free /\ Holders' = Holders
    BY <1>20 DEF CatchResumed, Holders
  <2>. QED
    BY <1>0, <1>20, <2>1, MovesBalanced DEF CatchResumed, Phases
<1>21. ASSUME CatchCannotAsk PROVE PoolBalances'
  <2>1. free' = free /\ Holders' = Holders
    BY <1>21 DEF CatchCannotAsk, Holders
  <2>. QED
    BY <1>0, <1>21, <2>1, MovesBalanced DEF CatchCannotAsk, Phases
<1>22. ASSUME HandleJobError PROVE PoolBalances'
  <2>1. free' = free /\ Holders' = Holders
    BY <1>22 DEF HandleJobError, Holders
  <2>. QED
    BY <1>0, <1>22, <2>1, MovesBalanced DEF HandleJobError, Phases
<1>23. ASSUME StopAdapter PROVE PoolBalances'
  <2>1. free' = free /\ Holders' = Holders
    BY <1>23 DEF StopAdapter, Holders
  <2>. QED
    BY <1>0, <1>23, <2>1, MovesBalanced DEF StopAdapter, Phases
<1>24. ASSUME CreateAdapter PROVE PoolBalances'
  <2>1. /\ x'.pc = "starting" /\ x'.n = x.n /\ x'.client = x.client
        /\ x.pc = "validate"
    BY <1>0, <1>24 DEF CreateAdapter, Execution
  <2>2. Held' = Held /\ free' = free
    BY <1>24, <2>1 DEF CreateAdapter, Held, Holders
  <2>3. Closed' = Closed
    BY <2>1, Counts DEF Closed
  <2>. QED
    BY <2>2, <2>3, Counts, StaysBalanced
<1>25. ASSUME HandlerCrashes PROVE PoolBalances'
  <2>1. /\ x'.pc = "recovering" /\ x'.n = x.n /\ x'.client = x.client
        /\ x.pc = "handler"
    BY <1>0, <1>25 DEF HandlerCrashes, Execution
  <2>2. Held' = Held /\ free' = free
    BY <1>25, <2>1 DEF HandlerCrashes, Held, Holders
  <2>3. Closed' = Closed
    BY <2>1, Counts DEF Closed
  <2>. QED
    BY <2>2, <2>3, Counts, StaysBalanced
<1>26. ASSUME Recover PROVE PoolBalances'
  <2>1. /\ x'.pc = "handler" /\ x'.n = x.n /\ x'.client = x.client
        /\ x.pc = "recovering"
    BY <1>0, <1>26 DEF Recover, Execution
  <2>2. Held' = Held /\ free' = free
    BY <1>26, <2>1 DEF Recover, Held, Holders
  <2>3. Closed' = Closed
    BY <2>1, Counts DEF Closed
  <2>. QED
    BY <2>2, <2>3, Counts, StaysBalanced
<1>27. ASSUME Close PROVE PoolBalances'
  <2>1. x'.pc = "stopping" /\ x'.n = x.n /\ x'.client = FALSE /\ x.pc = "closing"
    BY <1>0, <1>27 DEF Close, Execution
  <2>2. Held' = Cardinality(Holders) /\ Closed' = x.n /\ Closed = x.n - 1 /\ x.n >= 1
    BY <1>27, <2>1, Counts, HoldersFinite DEF Close, Held, Holders, Closed
  <2>3. (x.client /\ free' = free + 1) \/ free' = free
    BY <1>27 DEF Close
  <2>4. /\ free + Held <= Clients /\ Clients - (free + Held) <= x.n - 1
    BY <2>2 DEF PoolBalances, Lost
  <2>5. free' + Held' <= free + Held /\ free + Held <= free' + Held' + 1
    BY <2>2, <2>3, Counts, HoldersFinite
  <2>6. free' + Held' <= Clients /\ Clients - (free' + Held') <= Closed'
    BY <2>2, <2>3, <2>4, <2>5, Counts, HoldersFinite
  <2>. QED
    BY <2>6 DEF PoolBalances, Lost
<1>28. ASSUME Heartbeat \/ HeartbeatAnswered PROVE PoolBalances'
  <2>1. UNCHANGED <<x, free>> /\ Holders' = Holders
    BY <1>28 DEF Heartbeat, HeartbeatAnswered, Holders
  <2>. QED
    BY <2>1, BesideBalanced
<1>29. ASSUME NEW c \in Calls, Finds(c) PROVE PoolBalances'
  <2>1. PICK by \in {"initial", "background", "catch", "direct"} : Detect(c, by)
    BY <1>29 DEF Finds, InitialCheckFinds, BackgroundCheckFinds, CatchCheckFinds, CatchAsks
  <2>2. free' = free /\ Holders' = Holders
    BY <1>0, <2>1, SameHolders DEF Detect
  <2>3. CASE UNCHANGED x
    BY <2>2, <2>3, BesideBalanced
  <2>4. CASE x.pc \in {"initial", "rechecking", "catching"}
             /\ (Goto("checking") \/ Goto("catching"))
    BY <2>2, <2>4, MovesBalanced DEF Phases
  <2>. QED
    BY <1>29, <2>3, <2>4 DEF Finds, InitialCheckFinds, BackgroundCheckFinds,
       CatchCheckFinds, CatchAsks
<1>30. ASSUME NEW c \in Calls, AskHuman(c) PROVE PoolBalances'
  <2>1. UNCHANGED <<x, free>>
    BY <1>30 DEF AskHuman
  <2>2. Holders' = Holders
    BY <1>0, <1>30, CallMoves, SameHolders DEF AskHuman, CallPhases, Over
  <2>. QED
    BY <2>1, <2>2, BesideBalanced
<1>31. ASSUME NEW c \in Calls, AskFails(c) PROVE PoolBalances'
  <2>1. UNCHANGED <<x, free>>
    BY <1>31 DEF AskFails
  <2>2. Holders' = Holders
    BY <1>0, <1>31, CallMoves, SameHolders DEF AskFails, CallPhases, Over
  <2>. QED
    BY <2>1, <2>2, BesideBalanced
<1>32. ASSUME NEW c \in Calls, WaitForResume(c) PROVE PoolBalances'
  <2>1. CASE free' = free - 1 /\ CallTo(c, "listening")
    <3>1. c \notin Holders /\ Holders' = Holders \cup {c}
      BY <1>0, <1>32, <2>1, CallMoves DEF WaitForResume, Holders, CallPhases, Over
    <3>2. Cardinality(Holders') = Cardinality(Holders) + 1
      BY <3>1, HoldersFinite, FS_AddElement
    <3>. QED
      BY <1>32, <2>1, <3>2, HoldersFinite, Counts, BesideBalanced DEF WaitForResume
  <2>2. CASE free' = free /\ (CallTo(c, "polling") \/ CallEnds(c, "thrown"))
    <3>1. Holders' = Holders
      BY <1>0, <1>32, <2>2, CallMoves, SameHolders DEF WaitForResume, CallPhases, Over
    <3>. QED
      BY <1>32, <2>2, <3>1, BesideBalanced DEF WaitForResume
  <2>. QED
    BY <1>32, <2>1, <2>2 DEF WaitForResume
<1>33. ASSUME NEW c \in Calls, PollSeesRunning(c) PROVE PoolBalances'
  <2>1. UNCHANGED <<x, free>>
    BY <1>33 DEF PollSeesRunning
  <2>2. Holders' = Holders
    BY <1>0, <1>33, CallMoves, SameHolders DEF PollSeesRunning, CallPhases, Over
  <2>. QED
    BY <2>1, <2>2, BesideBalanced
<1>34. ASSUME NEW c \in Calls, HumanTimeout(c) PROVE PoolBalances'
  <2>1. calls'[c].pc # "listening" /\ \A d \in Calls \ {c} : calls'[d] = calls[d]
    BY <1>0, <1>34, CallMoves DEF HumanTimeout, CallPhases, Over
  <2>2. CASE calls[c].pc = "listening"
    <3>1. c \in Holders /\ Holders' = Holders \ {c}
      BY <2>1, <2>2 DEF Holders
    <3>2. Cardinality(Holders') = Cardinality(Holders) - 1
      BY <3>1, HoldersFinite, FS_RemoveElement
    <3>. QED
      BY <1>34, <2>2, <3>2, HoldersFinite, Counts, BesideBalanced DEF HumanTimeout
  <2>3. CASE calls[c].pc # "listening"
    <3>1. Holders' = Holders
      BY <2>1, <2>3, SameHolders
    <3>2. free' = free
      BY <1>34, <2>3, Counts DEF HumanTimeout
    <3>. QED
      BY <1>34, <3>1, <3>2, BesideBalanced DEF HumanTimeout
  <2>. QED
    BY <2>2, <2>3
<1>35. ASSUME NEW c \in Calls, ReadResolution(c) PROVE PoolBalances'
  <2>1. UNCHANGED <<x, free>>
    BY <1>35 DEF ReadResolution
  <2>2. Holders' = Holders
    BY <1>0, <1>35, CallMoves, SameHolders DEF ReadResolution, CallPhases, Over
  <2>. QED
    BY <2>1, <2>2, BesideBalanced
<1>36. ASSUME NEW c \in Calls, Resume(c) PROVE PoolBalances'
  <2>1. UNCHANGED <<x, free>>
    BY <1>36 DEF Resume
  <2>2. Holders' = Holders
    BY <1>0, <1>36, CallMoves, SameHolders DEF Resume, CallPhases, Over
  <2>. QED
    BY <2>1, <2>2, BesideBalanced
<1>37. ASSUME NEW c \in Calls, Recheck(c) PROVE PoolBalances'
  <2>1. calls'[c].pc # "listening" /\ \A d \in Calls \ {c} : calls'[d] = calls[d]
    <3>1. CASE CallEnds(c, "clear") \/ CallEnds(c, "blocked")
      BY <1>0, <3>1, CallMoves DEF CallPhases, Over
    <3>2. CASE calls' = [calls EXCEPT ![c].checks = calls[c].checks + 1, ![c].pc = "found"]
      <4>1. calls[c] \in Call
        BY <1>0
      <4>2. [calls[c] EXCEPT !.checks = calls[c].checks + 1, !.pc = "found"].pc = "found"
        BY <4>1 DEF Call
      <4>3. calls' = [calls EXCEPT ![c] =
                        [calls[c] EXCEPT !.checks = calls[c].checks + 1, !.pc = "found"]]
        BY <1>0, <3>2
      <4>. QED
        BY <1>0, <4>2, <4>3
    <3>. QED
      BY <1>37, <3>1, <3>2 DEF Recheck
  <2>2. Holders' = Holders
    BY <1>37, <2>1, SameHolders DEF Recheck
  <2>. QED
    BY <1>37, <2>2, BesideBalanced DEF Recheck
<1>38. ASSUME NEW m \in Execs, HumanAnswers(m) PROVE PoolBalances'
  <2>. DEFINE heard == {c \in Calls : c[1] = m /\ calls[c].pc = "listening"}
  <2>1. heard \in SUBSET Holders /\ free' = free + Cardinality(heard) /\ UNCHANGED x
    BY <1>38 DEF HumanAnswers, Holders
  <2>2. \A c \in Calls : [calls[c] EXCEPT !.pc = "answered"].pc = "answered"
    BY <1>0 DEF Call
  <2>3. Holders' = Holders \ heard
    BY <1>38, <2>2 DEF HumanAnswers, Holders
  <2>4. Holders \cap heard = heard
    BY <2>1
  <2>5. Cardinality(Holders') = Cardinality(Holders) - Cardinality(heard)
    <3>1. Cardinality(Holders \ heard)
            = Cardinality(Holders) - Cardinality(Holders \cap heard)
      BY HoldersFinite, FS_Difference
    <3>2. Cardinality(Holders') = Cardinality(Holders \ heard)
      BY <2>3
    <3>. QED
      BY <2>4, <3>1, <3>2
  <2>6. Cardinality(heard) \in Nat
    BY <2>1, HoldersFinite
  <2>. QED
    BY <2>1, <2>5, <2>6, HoldersFinite, Counts, BesideBalanced
<1>39. ASSUME NEW m \in Execs, Cancel(m) PROVE PoolBalances'
  <2>1. UNCHANGED <<x, free>> /\ Holders' = Holders
    BY <1>39 DEF Cancel, Holders
  <2>. QED
    BY <2>1, BesideBalanced
<1>40. ASSUME NEW a \in Adapters, BrowserDies(a) PROVE PoolBalances'
  <2>1. UNCHANGED <<x, free>> /\ Holders' = Holders
    BY <1>40 DEF BrowserDies, Holders
  <2>. QED
    BY <2>1, BesideBalanced
<1>. QED
  BY <1>1, <1>2, <1>3, <1>4, <1>5, <1>6, <1>7, <1>8, <1>9, <1>10, <1>11, <1>12,
     <1>13, <1>14, <1>15, <1>16, <1>17, <1>18, <1>19, <1>20, <1>21, <1>22, <1>23,
     <1>24, <1>25, <1>26, <1>27, <1>28, <1>29, <1>30, <1>31, <1>32, <1>33, <1>34,
     <1>35, <1>36, <1>37, <1>38, <1>39, <1>40
     DEF Next, Routine, Disturbance, Setup, Handling, Ending, CallStep

-----------------------------------------------------------------------------
(* How executions end.                                                      *)

\* A step that records nothing and neither ends nor begins an execution.
LEMMA SameAccounts ==
  ASSUME Accounts, x'.n = x.n, out' = out, x'.pc \in Ended <=> x.pc \in Ended
  PROVE  Accounts'
BY DEF Accounts

\* A step that ends the execution and leaves what it has recorded.
LEMMA SettledAccounts ==
  ASSUME Accounts, x'.n = x.n, x.n \in Execs, x'.pc \in Ended, x.pc \notin Ended,
         out \in [Execs -> Outcome], Final(out'[x.n]),
         \A m \in Execs \ {x.n} : out'[m] = out[m]
  PROVE  Accounts'
BY DEF Accounts, Final

\* Every step keeps the accounts.
LEMMA AccountsStep ==
  ASSUME TypeOK, Working, Accounts, Next
  PROVE  Accounts'
<1>0. /\ x \in Execution /\ x.pc \in Phases /\ x.n \in 0..Executions
      /\ out \in [Execs -> Outcome]
  BY DEF TypeOK, Execution
<1>a. \A pc \in Phases : Goto(pc) => x'.pc = pc /\ x'.n = x.n
  BY <1>0, Moves DEF Execution
<1>b. x.pc \notin Ended => x.n \in Execs /\ out[x.n] = NoOutcome
  BY ExecutorAssumption DEF Accounts, Working, Ended, Execs
<1>c. ASSUME x.pc \notin Ended, x'.pc \in Ended, x'.n = x.n,
             \/ Report("rejected")
             \/ \E s \in Told : Settle(s)
      PROVE  Accounts'
  <2>1. x.n \in Execs /\ out[x.n] = NoOutcome
    BY <1>b, <1>c
  <2>2. Final(out'[x.n]) /\ \A m \in Execs \ {x.n} : out'[m] = out[m]
    <3>1. CASE Report("rejected")
      BY <1>0, <2>1, <3>1, Rejects DEF NoOutcome, Refused, Final
    <3>2. ASSUME NEW s \in Told, Settle(s)
          PROVE  Final(out'[x.n]) /\ \A m \in Execs \ {x.n} : out'[m] = out[m]
      <4>1. s \in SUBSET {"completed", "cancelled", "failed"}
        BY DEF Told
      <4>2. /\ out'[x.n] = [cost |-> out[x.n].cost + 1, told |-> out[x.n].told \cup s]
            /\ \A m \in Execs \ {x.n} : out'[m] = out[m]
        BY <1>0, <2>1, <3>2, <4>1, Settles
      <4>3. out'[x.n] = [cost |-> 1, told |-> s]
        BY <2>1, <4>2 DEF NoOutcome
      <4>. QED
        BY <4>2, <4>3 DEF Final
    <3>. QED
      BY <1>c, <3>1, <3>2
  <2>. QED
    BY <1>0, <1>c, <2>1, <2>2, SettledAccounts
<1>1. ASSUME Begin PROVE Accounts'
  <2>1. PICK k \in 0..MaxAsks : x' = [Idle EXCEPT !.n = x.n + 1, !.pc = "stamp", !.asks = k]
    BY <1>1 DEF Begin
  <2>2. x'.n = x.n + 1 /\ x'.pc = "stamp" /\ x.pc = "idle" /\ out' = out
    BY <1>1, <2>1 DEF Idle, Begin
  <2>3. \A m \in Execs : m < x.n + 1 <=> m < x.n \/ m = x.n
    BY <1>0, ExecutorAssumption DEF Execs
  <2>. QED
    BY <2>2, <2>3 DEF Accounts, Ended
<1>2. ASSUME Stamp PROVE Accounts'
  <2>1. x'.n = x.n /\ (x'.pc \in Ended <=> x.pc \in Ended)
    BY <1>0, <1>a, <1>2 DEF Stamp, Execution, Phases, Ended
  <2>. QED
    BY <1>2, <2>1, SameAccounts DEF Stamp
<1>3. ASSUME ListenForCancel PROVE Accounts'
  <2>1. x'.n = x.n /\ (x'.pc \in Ended <=> x.pc \in Ended)
    BY <1>0, <1>a, <1>3 DEF ListenForCancel, Execution, Phases, Ended
  <2>. QED
    BY <1>3, <2>1, SameAccounts DEF ListenForCancel
<1>4. ASSUME Run PROVE Accounts'
  BY <1>a, <1>4, SameAccounts DEF Run, Phases, Ended
<1>5. ASSUME CreateAdapter PROVE Accounts'
  <2>1. x'.n = x.n /\ (x'.pc \in Ended <=> x.pc \in Ended)
    BY <1>0, <1>a, <1>5 DEF CreateAdapter, Execution, Phases, Ended
  <2>. QED
    BY <1>5, <2>1, SameAccounts DEF CreateAdapter
<1>6. ASSUME StartAdapter PROVE Accounts'
  BY <1>a, <1>6, SameAccounts DEF StartAdapter, Phases, Ended
<1>7. ASSUME InitialCheckClear PROVE Accounts'
  BY <1>a, <1>7, SameAccounts DEF InitialCheckClear, Phases, Ended
<1>8. ASSUME InitialCheckEnds PROVE Accounts'
  BY <1>a, <1>8, SameAccounts DEF InitialCheckEnds, Phases, Ended
<1>9. ASSUME InitialCheckTimesOut PROVE Accounts'
  BY <1>a, <1>9, SameAccounts DEF InitialCheckTimesOut, Phases, Ended
<1>10. ASSUME Replay PROVE Accounts'
  BY <1>a, <1>10, SameAccounts DEF Replay, Phases, Ended
<1>11. ASSUME FallBack PROVE Accounts'
  <2>1. x'.n = x.n /\ (x'.pc \in Ended <=> x.pc \in Ended)
    BY <1>0, <1>11 DEF FallBack, Execution, Ended
  <2>. QED
    BY <1>11, <2>1, SameAccounts DEF FallBack
<1>12. ASSUME HandlerReturns PROVE Accounts'
  BY <1>a, <1>12, SameAccounts DEF HandlerReturns, Phases, Ended
<1>13. ASSUME HandlerThrows PROVE Accounts'
  BY <1>a, <1>13, SameAccounts DEF HandlerThrows, Phases, Ended
<1>14. ASSUME HandlerCrashes PROVE Accounts'
  <2>1. x'.n = x.n /\ (x'.pc \in Ended <=> x.pc \in Ended)
    BY <1>0, <1>a, <1>14 DEF HandlerCrashes, Execution, Phases, Ended
  <2>. QED
    BY <1>14, <2>1, SameAccounts DEF HandlerCrashes
<1>15. ASSUME Recover PROVE Accounts'
  <2>1. x'.n = x.n /\ (x'.pc \in Ended <=> x.pc \in Ended)
    BY <1>0, <1>a, <1>15 DEF Recover, Execution, Phases, Ended
  <2>. QED
    BY <1>15, <2>1, SameAccounts DEF Recover
<1>16. ASSUME RecoveryFails PROVE Accounts'
  BY <1>a, <1>16, SameAccounts DEF RecoveryFails, Phases, Ended
<1>17. ASSUME CaughtError PROVE Accounts'
  BY <1>a, <1>17, SameAccounts DEF CaughtError, Phases, Ended
<1>18. ASSUME CatchGivesUp PROVE Accounts'
  BY <1>a, <1>18, SameAccounts DEF CatchGivesUp, Phases, Ended
<1>19. ASSUME CatchCannotAsk PROVE Accounts'
  BY <1>a, <1>19, SameAccounts DEF CatchCannotAsk, Phases, Ended
<1>20. ASSUME Close PROVE Accounts'
  <2>1. x'.n = x.n /\ (x'.pc \in Ended <=> x.pc \in Ended)
    BY <1>0, <1>a, <1>20 DEF Close, Execution, Phases, Ended
  <2>. QED
    BY <1>20, <2>1, SameAccounts DEF Close
<1>21. ASSUME StopAdapter PROVE Accounts'
  BY <1>a, <1>21, SameAccounts DEF StopAdapter, Phases, Ended
<1>22. ASSUME Reject PROVE Accounts'
  BY <1>a, <1>c, <1>22 DEF Reject, Phases, Ended, Told
<1>23. ASSUME Complete PROVE Accounts'
  BY <1>a, <1>c, <1>23 DEF Complete, Phases, Ended, Told
<1>24. ASSUME AwaitUserReview PROVE Accounts'
  BY <1>a, <1>c, <1>24 DEF AwaitUserReview, Phases, Ended, Told
<1>25. ASSUME CaughtCancelled PROVE Accounts'
  BY <1>a, <1>c, <1>25 DEF CaughtCancelled, Phases, Ended, Told
<1>26. ASSUME CatchResumed PROVE Accounts'
  BY <1>a, <1>c, <1>26 DEF CatchResumed, Phases, Ended, Told
<1>27. ASSUME HandleJobError PROVE Accounts'
  BY <1>a, <1>c, <1>27 DEF HandleJobError, Phases, Ended, Told
<1>28. ASSUME NEW c \in Calls, Finds(c) PROVE Accounts'
  <2>1. x'.n = x.n /\ (x'.pc \in Ended <=> x.pc \in Ended)
    BY <1>a, <1>28 DEF Finds, InitialCheckFinds, BackgroundCheckFinds, CatchCheckFinds,
       CatchAsks,
       Phases, Ended
  <2>2. out' = out
    BY <1>28 DEF Finds, InitialCheckFinds, BackgroundCheckFinds, CatchCheckFinds,
       CatchAsks, Detect
  <2>. QED
    BY <2>1, <2>2, SameAccounts
<1>29. ASSUME Heartbeat \/ HeartbeatAnswered PROVE Accounts'
  BY <1>29, SameAccounts DEF Heartbeat, HeartbeatAnswered
<1>30. ASSUME NEW c \in Calls, CallStep(c) PROVE Accounts'
  BY <1>30, SameAccounts DEF CallStep, AskHuman, AskFails, WaitForResume, PollSeesRunning,
     HumanTimeout, ReadResolution, Resume, Recheck
<1>31. ASSUME NEW m \in Execs, HumanAnswers(m) \/ Cancel(m) PROVE Accounts'
  BY <1>31, SameAccounts DEF HumanAnswers, Cancel
<1>32. ASSUME NEW a \in Adapters, BrowserDies(a) PROVE Accounts'
  BY <1>32, SameAccounts DEF BrowserDies
<1>. QED
  BY <1>1, <1>2, <1>3, <1>4, <1>5, <1>6, <1>7, <1>8, <1>9, <1>10, <1>11, <1>12,
     <1>13, <1>14, <1>15, <1>16, <1>17, <1>18, <1>19, <1>20, <1>21, <1>22, <1>23,
     <1>24, <1>25, <1>26, <1>27, <1>28, <1>29, <1>30, <1>31, <1>32
     DEF Next, Routine, Disturbance, Setup, Handling, Ending

-----------------------------------------------------------------------------
(* The theorems.                                                           *)

\* The initial state satisfies the inductive invariant.
LEMMA InvInit == Init => IInv
<1>. SUFFICES ASSUME Init PROVE IInv
  OBVIOUS
<1>1. x.n = 0 /\ x.pc = "idle" /\ x.client = FALSE /\ x.adapter = None
  BY DEF Init, Idle
<1>2. PoolBalances
  <2>1. Holders = {}
    BY DEF Holders, Init, NoCall
  <2>2. Held = 0 /\ Closed = 0
    BY <1>1, <2>1, FS_EmptySet DEF Held, Closed
  <2>. QED
    BY <2>2, ExecutorAssumption DEF PoolBalances, Lost, Init
<1>3. Accounts
  BY <1>1, ExecutorAssumption DEF Accounts, NoOutcome, Init, Execs
<1>. QED
  BY <1>1, <1>2, <1>3, TypeInit
     DEF IInv, Working, ClientInHand, NoBrowserYet, NotStarted, BrowserIsOwned, Init

\* The inductive invariant is inductive.
LEMMA InvStep == IInv /\ [Next]_vars => IInv'
<1>. SUFFICES ASSUME IInv, [Next]_vars PROVE IInv'
  OBVIOUS
<1>1. CASE Next
  <2>1. TypeOK'
    BY <1>1, TypeStep DEF IInv
  <2>2. Control'
    BY <1>1, ControlStep DEF IInv, Control
  <2>3. PoolBalances'
    BY <1>1, <2>1, <2>2, PoolStep DEF IInv, Control
  <2>4. Accounts'
    BY <1>1, AccountsStep DEF IInv
  <2>. QED
    BY <2>1, <2>2, <2>3, <2>4 DEF IInv, Control
<1>2. CASE UNCHANGED vars
  <2>1. Holders' = Holders /\ Held' = Held /\ Closed' = Closed
    BY <1>2 DEF vars, Holders, Held, Closed
  <2>2. TypeOK'
    BY <1>2 DEF vars, IInv, TypeOK
  <2>3. PoolBalances'
    BY <1>2, <2>1 DEF vars, IInv, PoolBalances, Lost
  <2>4. Control' /\ Accounts'
    BY <1>2 DEF vars, IInv, Control, Working, ClientInHand, NoBrowserYet, BrowserIsOwned,
       Accounts
  <2>. QED
    BY <2>2, <2>3, <2>4 DEF IInv, Control
<1>. QED
  BY <1>1, <1>2

\* The accounts say what EndsAreAccounted says.
LEMMA AccountsSuffice == IInv => EndsAreAccounted
<1>. SUFFICES ASSUME IInv, NEW m \in Execs
     PROVE  /\ out[m].cost <= 1
            /\ Cardinality(out[m].told) <= 1
            /\ out[m].told # {} => (out[m].cost = 0 <=> out[m].told = {"rejected"})
            /\ (\/ m < x.n
                \/ m = x.n /\ x.pc \in {"closing", "stopping", "idle", "review"})
               => out[m].cost = 1 \/ out[m].told = {"rejected"}
  BY DEF EndsAreAccounted
<1>1. Cardinality({}) <= 1
  <2>1. Cardinality({}) = 0
    BY FS_EmptySet
  <2>. QED
    BY <2>1
<1>2. ASSUME NEW r PROVE Cardinality({r}) <= 1
  <2>1. Cardinality({r}) = 1
    BY FS_Singleton
  <2>. QED
    BY <2>1
<1>3. CASE out[m] = Refused
  <2>1. out[m].cost = 0 /\ out[m].told = {"rejected"}
    BY <1>3 DEF Refused
  <2>2. Cardinality(out[m].told) <= 1
    BY <2>1, <1>2
  <2>. QED
    BY <2>1, <2>2
<1>4. ASSUME NEW s \in Told, out[m] = [cost |-> 1, told |-> s]
      PROVE  /\ out[m].cost = 1 /\ Cardinality(out[m].told) <= 1
             /\ out[m].told # {"rejected"}
  <2>1. out[m].cost = 1 /\ out[m].told = s
    BY <1>4
  <2>2. s # {"rejected"}
    BY DEF Told
  <2>3. Cardinality(s) <= 1
    BY <1>1, <1>2 DEF Told
  <2>. QED
    BY <2>1, <2>2, <2>3
<1>5. CASE out[m] = NoOutcome
  <2>1. ~Final(out[m])
    <3>1. out[m].cost = 0 /\ out[m].told = {}
      BY <1>5 DEF NoOutcome
    <3>2. out[m] # Refused
      BY <3>1 DEF Refused
    <3>3. \A s \in Told : out[m] # [cost |-> 1, told |-> s]
      BY <3>1
    <3>. QED
      BY <3>2, <3>3 DEF Final
  <2>2. ~(m < x.n \/ (m = x.n /\ x.pc \in {"closing", "stopping", "idle", "review"}))
    BY <2>1 DEF IInv, Accounts, Ended
  <2>3. out[m].cost = 0 /\ out[m].told = {}
    BY <1>5 DEF NoOutcome
  <2>. QED
    BY <1>1, <2>2, <2>3
<1>6. CASE \E s \in Told : out[m] = [cost |-> 1, told |-> s]
  <2>1. /\ out[m].cost = 1 /\ Cardinality(out[m].told) <= 1
        /\ out[m].told # {"rejected"}
    BY <1>4, <1>6, Zenon
  <2>. QED
    BY <2>1
<1>7. Final(out[m]) \/ out[m] = NoOutcome
  BY DEF IInv, Accounts
<1>. QED
  BY <1>3, <1>5, <1>6, <1>7 DEF Final

\* The inductive invariant holds in every reachable state.
THEOREM Invariance == Spec => []IInv
<1>. QED
  BY InvInit, InvStep, PTL DEF Spec

\* Every variable keeps its type, and the pool never has more clients than it was
\* made with: JobExecutor and resumeListener release each client once at most.
THEOREM TypeCorrect == Spec => []TypeOK
<1>1. IInv => TypeOK
  BY DEF IInv
<1>. QED
  BY <1>1, Invariance, PTL

\* However many executions, recoveries, cancellations, late heartbeats and failing
\* stops there are, execute() has one browser at most, and leaves one behind only
\* where a start() or stop() of its own adapter failed.
THEOREM BrowserOwned == Spec => []BrowserIsOwned
<1>1. IInv => BrowserIsOwned
  BY DEF IInv
<1>. QED
  BY <1>1, Invariance, PTL

\* Whatever becomes of the requests for a human, a pooled client is free, held by
\* one of them or by the cancel channel, or was lost by an UNLISTEN that failed.
THEOREM PoolStaysBalanced == Spec => []PoolBalances
<1>1. IInv => PoolBalances
  BY DEF IInv
<1>. QED
  BY <1>1, Invariance, PTL

\* Every execution that ends has recorded its cost once, or was refused, and has
\* reported one final status at most.
THEOREM EndsAccounted == Spec => []EndsAreAccounted
<1>. QED
  BY AccountsSuffice, Invariance, PTL

=============================================================================
