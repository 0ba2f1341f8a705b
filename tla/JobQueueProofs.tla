--------------------------- MODULE JobQueueProofs ---------------------------
(***************************************************************************)
(* What module JobQueue promises for any number of workers, jobs and       *)
(* attempts.  The argument: the executor's and the poller's fields of a    *)
(* worker agree with each other (SlotsAgree), hence one task per worker;   *)
(* a claim needs a process that is still listening (also SlotsAgree),      *)
(* hence nothing is left claimed after a shutdown; and whoever writes a    *)
(* finished row without an API retry already held its job.                 *)
(***************************************************************************)
EXTENDS JobQueue, TLAPS

(* Record fields: the updates the actions make stay inside the types.      *)

\* An execution that only changes phase stays well typed.
LEMMA GotoType ==
  ASSUME exec \in [Attempts -> Execution], NEW a \in Attempts,
         NEW p \in Phases, Goto(a, p)
  PROVE  exec' \in [Attempts -> Execution]
BY DEF Goto, Execution

\* The fields of a well typed execution.
LEMMA ExecutionFields ==
  ASSUME exec \in [Attempts -> Execution], NEW a \in Attempts
  PROVE  /\ exec[a].phase \in Phases
         /\ exec[a].worker \in Workers \cup {NoWorker}
         /\ exec[a].job \in Jobs \cup {NoJob}
         /\ exec[a].retries \in Nat
BY DEF Execution

\* The empty execution is well typed.
LEMMA NoExecType == NoExec \in Execution
BY DEF NoExec, Execution, Phases

\* Waking the execution that awaits a human keeps the type.
LEMMA AskedType ==
  ASSUME exec \in [Attempts -> Execution], NEW w, NEW j,
         NEW S \in SUBSET Phases, AskedGoesTo(w, j, S)
  PROVE  exec' \in [Attempts -> Execution]
BY DEF AskedGoesTo, Execution

-----------------------------------------------------------------------------
(* Type correctness.                                                       *)

\* The initial state is of the right type.
LEMMA TypeInit == Init => TypeOK
<1> SUFFICES ASSUME Init PROVE TypeOK
  OBVIOUS
<1>1. NoPickup \in Pickup /\ NoRecovery \in Recovery /\ NoExec \in Execution
  BY NoExecType DEF NoPickup, Pickup, NoRecovery, Recovery
<1>2. NoHitl \in [Jobs -> {"no", "waiting", "answered"}]
  BY DEF NoHitl
<1> QED
  BY <1>1, <1>2 DEF Init, TypeOK, Statuses

\* Every step keeps the type: one case per action.
LEMMA TypeStep ==
  ASSUME TypeOK, SlotsAgree, [Next]_vars
  PROVE  TypeOK'
<1>0. exec \in [Attempts -> Execution] /\ pickup \in [Workers -> Pickup]
        /\ recovery \in [Workers -> Recovery]
        /\ hitl \in [Workers -> [Jobs -> {"no", "waiting", "answered"}]]
  BY DEF TypeOK
<1>1. ASSUME NEW j \in Jobs, Submit(j) PROVE TypeOK'
  BY <1>1 DEF Submit, Claimable, Statuses, TypeOK, rowVars, procVars, humanVars
<1>2. ASSUME NEW j \in Jobs, Cancel(j) PROVE TypeOK'
  BY <1>2 DEF Cancel, Cancellable, Statuses, TypeOK, rowVars, procVars, humanVars
<1>3. ASSUME NEW j \in Jobs, Retry(j) PROVE TypeOK'
  BY <1>3 DEF Retry, Retryable, Statuses, TypeOK, rowVars, procVars, humanVars
<1>4. ASSUME NEW j \in Jobs, ResumeCheck(j) PROVE TypeOK'
  BY <1>4 DEF ResumeCheck, TypeOK, rowVars, procVars, humanVars
<1>5. ASSUME NEW j \in Jobs, ResumeNotify(j) PROVE TypeOK'
  <2>1. hitl' \in [Workers -> [Jobs -> {"no", "waiting", "answered"}]]
    BY <1>0, <1>5 DEF ResumeNotify
  <2> QED
    BY <1>5, <2>1 DEF ResumeNotify, TypeOK, rowVars, procVars, humanVars
<1>6. ASSUME NEW j \in Jobs, ResumeWrite(j) PROVE TypeOK'
  BY <1>6 DEF ResumeWrite, Statuses, TypeOK, rowVars, procVars, humanVars
<1>7. ASSUME NEW j \in Jobs, HeartbeatLapses(j) PROVE TypeOK'
  BY <1>7 DEF HeartbeatLapses, TypeOK, rowVars, procVars, humanVars
<1>8. ASSUME NEW w \in Workers, Start(w) PROVE TypeOK'
  <2>1. recovery' \in [Workers -> Recovery]
    BY <1>0, <1>8 DEF Start, Recovery, Stuck
  <2> QED
    BY <1>8, <2>1 DEF Start, Stuck, TypeOK, rowVars, procVars, humanVars
<1>9. ASSUME NEW w \in Workers, RecoverCount(w) PROVE TypeOK'
  <2>1. recovery' \in [Workers -> Recovery]
    BY <1>0, <1>9 DEF RecoverCount, Recovery, TypeOK
  <2> QED
    BY <1>9, <2>1 DEF RecoverCount, TypeOK, rowVars, procVars, humanVars
<1>10. ASSUME NEW w \in Workers, RecoverWrite(w) PROVE TypeOK'
  <2>1. recovery' \in [Workers -> Recovery]
    BY <1>0, <1>10 DEF RecoverWrite, Recovery
  <2> QED
    BY <1>10, <2>1 DEF RecoverWrite, Statuses, TypeOK, rowVars, procVars, humanVars
<1>11. ASSUME NEW w \in Workers, TryPickup(w) PROVE TypeOK'
  <2>1. pickup' \in [Workers -> Pickup]
    BY <1>0, <1>11 DEF TryPickup, Pickup
  <2> QED
    BY <1>11, <2>1 DEF TryPickup, MaxConcurrent, Running, TypeOK, rowVars,
       procVars, humanVars
<1>12. ASSUME NEW w \in Workers, PickupEmpty(w) PROVE TypeOK'
  <2>1. pickup' \in [Workers -> Pickup]
    BY <1>0, <1>12 DEF PickupEmpty, NoPickup, Pickup
  <2> QED
    BY <1>12, <2>1 DEF PickupEmpty, NoPickup, TypeOK, rowVars, procVars, humanVars
<1>13. ASSUME NEW w \in Workers, PickupClaim(w) PROVE TypeOK'
  <2>1. \A j \in Jobs : retry_count[j] \in Nat
    BY <1>0, <1>13 DEF TypeOK
  <2>2. pickup' \in [Workers -> Pickup]
    BY <1>0, <1>13, <2>1 DEF PickupClaim, Eligible, Pickup
  <2> QED
    BY <1>13, <2>1, <2>2 DEF PickupClaim, Eligible, Claimable, Statuses,
       TypeOK, rowVars, procVars, humanVars
<1>14. ASSUME NEW w \in Workers, BeginExecution(w) PROVE TypeOK'
  <2>1. pickup' \in [Workers -> Pickup]
    BY <1>0, <1>14 DEF BeginExecution, NoPickup, Pickup
  <2>2. exec' \in [Attempts -> Execution]
    BY <1>0, <1>14, <2>1 DEF BeginExecution, SlotsAgree, Execution, Pickup, Phases
  <2> QED
    BY <1>14, <2>1, <2>2 DEF BeginExecution, Counted, Fresh, NoPickup,
       TypeOK, rowVars, procVars, humanVars
<1>15. ASSUME NEW w \in Workers, Stop(w) PROVE TypeOK'
  BY <1>15 DEF Stop, TypeOK, rowVars, procVars, humanVars
<1>16. ASSUME NEW w \in Workers, Unlistened(w) PROVE TypeOK'
  BY <1>16 DEF Unlistened, TypeOK, rowVars, procVars, humanVars
<1>17. ASSUME NEW w \in Workers, ReleaseClaimedJobs(w) PROVE TypeOK'
  BY <1>17 DEF ReleaseClaimedJobs, ReleaseRows, Held, Statuses, TypeOK,
     rowVars, procVars, humanVars
<1>18. ASSUME NEW w \in Workers, ForceRelease(w) PROVE TypeOK'
  BY <1>18 DEF ForceRelease, ReleaseRows, Held, Statuses, TypeOK, rowVars,
     procVars, humanVars
<1>19. ASSUME NEW w \in Workers, Die(w) PROVE TypeOK'
  <2>1. NoPickup \in Pickup /\ NoRecovery \in Recovery
    BY <1>0, <1>19 DEF NoPickup, Pickup, NoRecovery, Recovery
  <2>2. exec' \in [Attempts -> Execution]
    BY <1>0, <1>19, <2>1, NoExecType DEF Die
  <2>3. NoHitl \in [Jobs -> {"no", "waiting", "answered"}]
    BY <1>0, <1>19, <2>1, <2>2 DEF NoHitl
  <2> QED
    BY <1>19, <2>1, <2>2, <2>3 DEF Die, Alive, TypeOK, rowVars, procVars, humanVars
<1>20. ASSUME NEW w \in Workers, Deregister(w) PROVE TypeOK'
  BY <1>20 DEF Deregister, Statuses, TypeOK, rowVars, procVars, humanVars
<1>21. ASSUME NEW a \in Attempts, Stamp(a) PROVE TypeOK'
  <2>1. exec' \in [Attempts -> Execution]
    BY <1>0, <1>21, GotoType DEF Stamp, Phases
  <2> QED
    BY <1>21, <2>1 DEF Stamp, TypeOK, rowVars, procVars, humanVars
<1>22. ASSUME NEW a \in Attempts, PreflightPasses(a) PROVE TypeOK'
  <2>1. exec' \in [Attempts -> Execution]
    BY <1>0, <1>22, GotoType DEF PreflightPasses, Phases
  <2> QED
    BY <1>22, <2>1 DEF PreflightPasses, WriteStatusAndBeat, WriteStatus,
       Statuses, TypeOK, rowVars, procVars, humanVars
<1>23. ASSUME NEW a \in Attempts, Reject(a) PROVE TypeOK'
  <2>1. exec' \in [Attempts -> Execution]
    BY <1>0, <1>23, GotoType DEF Reject, Phases
  <2> QED
    BY <1>23, <2>1 DEF Reject, WriteStatusAndBeat, WriteStatus, Statuses,
       TypeOK, rowVars, procVars, humanVars
<1>24. ASSUME NEW a \in Attempts, Launch(a) PROVE TypeOK'
  <2>1. exec' \in [Attempts -> Execution]
    BY <1>0, <1>24, GotoType DEF Launch, Phases
  <2> QED
    BY <1>24, <2>1 DEF Launch, WriteStatusAndBeat, WriteStatus, Statuses,
       TypeOK, rowVars, procVars, humanVars
<1>25. ASSUME NEW a \in Attempts, BrowserRecovered(a) PROVE TypeOK'
  BY <1>25 DEF BrowserRecovered, WriteStatusAndBeat, WriteStatus, Statuses,
     TypeOK, rowVars, procVars, humanVars
<1>26. ASSUME NEW a \in Attempts, StepCompleted(a) PROVE TypeOK'
  BY <1>26 DEF StepCompleted, TypeOK, rowVars, procVars, humanVars
<1>27. ASSUME NEW a \in Attempts, Succeeds(a) PROVE TypeOK'
  <2>1. exec' \in [Attempts -> Execution]
    BY <1>0, <1>27, GotoType DEF Succeeds, Phases
  <2> QED
    BY <1>27, <2>1 DEF Succeeds, WriteStatus, Statuses, TypeOK, rowVars,
       procVars, humanVars
<1>28. ASSUME NEW a \in Attempts, AwaitUserReview(a) PROVE TypeOK'
  <2>1. exec' \in [Attempts -> Execution]
    BY <1>0, <1>28, GotoType DEF AwaitUserReview, Phases
  <2> QED
    BY <1>28, <2>1 DEF AwaitUserReview, WriteStatus, Statuses, TypeOK,
       rowVars, procVars, humanVars
<1>29. ASSUME NEW a \in Attempts, Throws(a) PROVE TypeOK'
  <2>1. exec' \in [Attempts -> Execution]
    BY <1>0, <1>29, GotoType DEF Throws, Phases
  <2> QED
    BY <1>29, <2>1 DEF Throws, TypeOK, rowVars, procVars, humanVars
<1>30. ASSUME NEW a \in Attempts, RetryLater(a) PROVE TypeOK'
  <2>1. exec' \in [Attempts -> Execution]
    BY <1>0, <1>30, GotoType DEF RetryLater, Phases
  <2>2. exec[a].retries + 1 \in Nat
    BY <1>0, <1>30, <2>1, ExecutionFields
  <2> QED
    BY <1>30, <2>1, <2>2 DEF RetryLater, WriteStatus, Statuses, TypeOK,
       rowVars, procVars, humanVars
<1>31. ASSUME NEW a \in Attempts, GiveUp(a) PROVE TypeOK'
  <2>1. exec' \in [Attempts -> Execution]
    BY <1>0, <1>31, GotoType DEF GiveUp, Phases
  <2> QED
    BY <1>31, <2>1 DEF GiveUp, WriteStatus, Statuses, TypeOK, rowVars, procVars, humanVars
<1>32. ASSUME NEW a \in Attempts, Close(a) PROVE TypeOK'
  <2>1. exec' \in [Attempts -> Execution]
    BY <1>0, <1>32, NoExecType DEF Close
  <2>2. exec[a].worker \in Workers /\ current[exec[a].worker] = a
    BY <1>0, <1>32, <2>1 DEF Close, SlotsAgree, Live
  <2>3. active[exec[a].worker] = 1
    BY <1>0, <1>32, <2>1, <2>2, ConstantsAssumption DEF SlotsAgree
  <2> QED
    BY <1>32, <2>1, <2>2, <2>3 DEF Close, GivenBack, NoExec, TypeOK,
       rowVars, procVars, humanVars
<1>33. ASSUME NEW a \in Attempts, AskHuman(a) PROVE TypeOK'
  <2>1. exec' \in [Attempts -> Execution]
    BY <1>0, <1>33 DEF AskHuman, Execution, Phases
  <2>2. exec[a].job \in Jobs
    BY <1>0, <1>33, <2>1 DEF SlotsAgree, Live, AskHuman
  <2>3. hitl' \in [Workers -> [Jobs -> {"no", "waiting", "answered"}]]
    BY <1>0, <1>33, <2>1, <2>2 DEF AskHuman
  <2> QED
    BY <1>33, <2>1, <2>2, <2>3 DEF AskHuman, WriteStatus, Statuses, TypeOK,
       rowVars, procVars, humanVars
<1>34. ASSUME NEW a \in Attempts, Heartbeat(a) PROVE TypeOK'
  BY <1>34 DEF Heartbeat, SeesCancelled, TypeOK, rowVars, procVars, humanVars
<1>35. ASSUME NEW a \in Attempts, ToldToStop(a) PROVE TypeOK'
  BY <1>35 DEF ToldToStop, TypeOK, rowVars, procVars, humanVars
<1>36. ASSUME NEW w \in Workers, NEW j \in Jobs, HumanResumed(w, j) PROVE TypeOK'
  <2>1. exec' \in [Attempts -> Execution]
    BY <1>0, <1>36, AskedType DEF HumanResumed, Phases
  <2>2. hitl' \in [Workers -> [Jobs -> {"no", "waiting", "answered"}]]
    BY <1>0, <1>36, <2>1 DEF HumanResumed
  <2> QED
    BY <1>36, <2>1, <2>2 DEF HumanResumed, WriteStatus, Statuses, TypeOK,
       rowVars, procVars, humanVars
<1>37. ASSUME NEW w \in Workers, NEW j \in Jobs, HumanTimeout(w, j) PROVE TypeOK'
  <2>1. exec' \in [Attempts -> Execution]
    BY <1>0, <1>37, AskedType DEF HumanTimeout, Phases
  <2>2. hitl' \in [Workers -> [Jobs -> {"no", "waiting", "answered"}]]
    BY <1>0, <1>37, <2>1 DEF HumanTimeout
  <2> QED
    BY <1>37, <2>1, <2>2 DEF HumanTimeout, WriteStatus, Statuses, TypeOK,
       rowVars, procVars, humanVars
<1>39. ASSUME NEW w \in Workers, PickupFails(w) PROVE TypeOK'
  <2>1. pickup' \in [Workers -> Pickup]
    BY <1>0, <1>39 DEF PickupFails, NoPickup, Pickup
  <2>2. CASE UNCHANGED <<status, worker_id, last_heartbeat>>
    BY <1>39, <2>1, <2>2 DEF PickupFails, TypeOK, procVars, humanVars
  <2>3. CASE \E j \in Eligible(w) :
               /\ status' = [status EXCEPT ![j] = "queued"]
               /\ worker_id' = [worker_id EXCEPT ![j] = w]
               /\ last_heartbeat' = [last_heartbeat EXCEPT ![j] = "fresh"]
    BY <1>39, <2>1, <2>3 DEF PickupFails, Eligible, Statuses, TypeOK, procVars,
       humanVars
  <2> QED
    BY <1>39, <2>2, <2>3 DEF PickupFails
<1>40. ASSUME NEW w \in Workers, ReleaseFails(w) PROVE TypeOK'
  BY <1>40 DEF ReleaseFails, TypeOK, rowVars, procVars, humanVars
<1>38. CASE UNCHANGED vars
  BY <1>38 DEF vars, TypeOK, rowVars, procVars, humanVars
<1>41. CASE Routine
  BY <1>1, <1>5, <1>6, <1>7, <1>8, <1>9, <1>10, <1>11, <1>12, <1>13, <1>14,
     <1>16, <1>17, <1>18, <1>19, <1>21, <1>22, <1>23, <1>24, <1>25, <1>26,
     <1>27, <1>28, <1>29, <1>30, <1>31, <1>32, <1>34, <1>36, <1>37, <1>41
     DEF Routine
<1>42. CASE Disturbance
  BY <1>2, <1>3, <1>4, <1>7, <1>15, <1>19, <1>20, <1>33, <1>35, <1>39, <1>40,
     <1>42 DEF Disturbance
<1> QED
  BY <1>38, <1>41, <1>42 DEF Next

-----------------------------------------------------------------------------
(* The fields of a worker and its executions agree.                        *)

SlotVars == <<proc, pickup, active, current>>

\* Who executes what is the same before and after.
SameExecutions ==
  \A a \in Attempts :
    /\ Live(a)' <=> Live(a)
    /\ exec'[a].worker = exec[a].worker
    /\ exec'[a].job = exec[a].job

\* A step that leaves the slots, the processes and the owners of executions alone
\* keeps SlotsAgree: most of the executor's steps are of this kind.
LEMMA SlotsUntouched ==
  ASSUME TypeOK, SlotsAgree, SameExecutions, UNCHANGED SlotVars
  PROVE  SlotsAgree'
<1>1. \A w \in Workers : current[w] # NoAttempt => current[w] \in Attempts
  BY DEF TypeOK
<1>2. /\ proc' = proc /\ pickup' = pickup /\ active' = active /\ current' = current
  BY DEF SlotVars
<1>3. ASSUME NEW w \in Workers, current[w] # NoAttempt
      PROVE  Live(current[w])' /\ exec'[current[w]].worker = w /\ Alive(w)'
  <2>1. current[w] \in Attempts /\ exec[current[w]].phase # "none"
          /\ exec[current[w]].worker = w /\ proc[w] # "down"
    BY <1>1, <1>3 DEF SlotsAgree, Live, Alive
  <2>2. exec'[current[w]].phase # "none" /\ exec'[current[w]].worker = w
    BY <2>1 DEF SameExecutions, Live
  <2> QED
    BY <1>2, <2>1, <2>2 DEF Live, Alive
<1>4. ASSUME NEW a \in Attempts, Live(a)'
      PROVE  /\ exec'[a].worker \in Workers /\ exec'[a].job \in Jobs
             /\ current[exec'[a].worker] = a
  BY <1>4 DEF SlotsAgree, SameExecutions
<1> QED
  BY <1>2, <1>3, <1>4 DEF SlotsAgree, Live

\* Nothing happens to the executions.
LEMMA SameExecutionsUnchanged ==
  ASSUME UNCHANGED exec PROVE SameExecutions
BY DEF SameExecutions, Live

\* A change of phase among live phases keeps worker and job.
LEMMA SameExecutionsGoto ==
  ASSUME exec \in [Attempts -> Execution], NEW a \in Attempts, Live(a),
         NEW p \in Phases \ {"none"}, Goto(a, p)
  PROVE  SameExecutions
BY DEF SameExecutions, Live, Goto, Execution

\* So does waking the execution that awaits a human.
LEMMA SameExecutionsAsked ==
  ASSUME exec \in [Attempts -> Execution], NEW w, NEW j,
         NEW S \in SUBSET (Phases \ {"none"}), AskedGoesTo(w, j, S)
  PROVE  SameExecutions
BY DEF SameExecutions, Live, AskedGoesTo, Execution

\* No worker has a task at the start.
LEMMA SlotsInit == Init => SlotsAgree
BY ConstantsAssumption DEF Init, SlotsAgree, NoExec, NoPickup, Live

\* Every step keeps SlotsAgree: one case per action.
LEMMA SlotsStep ==
  ASSUME TypeOK, SlotsAgree, [Next]_vars
  PROVE  SlotsAgree'
<1>0. /\ exec \in [Attempts -> Execution] /\ pickup \in [Workers -> Pickup]
      /\ current \in [Workers -> Attempts \cup {NoAttempt}]
      /\ active \in [Workers -> Nat]
      /\ proc \in [Workers -> {"down", "up", "unlisten", "drain", "stopped", "unreleased"}]
      /\ NoAttempt \notin Attempts
  BY ConstantsAssumption DEF TypeOK
<1>1. ASSUME NEW j \in Jobs, Submit(j) PROVE SlotsAgree'
  BY <1>1, SlotsUntouched, SameExecutionsUnchanged DEF Submit, SlotVars, procVars
<1>2. ASSUME NEW j \in Jobs, Cancel(j) PROVE SlotsAgree'
  BY <1>2, SlotsUntouched, SameExecutionsUnchanged DEF Cancel, SlotVars, procVars
<1>3. ASSUME NEW j \in Jobs, Retry(j) PROVE SlotsAgree'
  BY <1>3, SlotsUntouched, SameExecutionsUnchanged DEF Retry, SlotVars, procVars
<1>4. ASSUME NEW j \in Jobs, ResumeCheck(j) PROVE SlotsAgree'
  BY <1>4, SlotsUntouched, SameExecutionsUnchanged DEF ResumeCheck, SlotVars, procVars
<1>5. ASSUME NEW j \in Jobs, ResumeNotify(j) PROVE SlotsAgree'
  BY <1>5, SlotsUntouched, SameExecutionsUnchanged DEF ResumeNotify, SlotVars, procVars
<1>6. ASSUME NEW j \in Jobs, ResumeWrite(j) PROVE SlotsAgree'
  BY <1>6, SlotsUntouched, SameExecutionsUnchanged DEF ResumeWrite, SlotVars, procVars
<1>7. ASSUME NEW j \in Jobs, HeartbeatLapses(j) PROVE SlotsAgree'
  BY <1>7, SlotsUntouched, SameExecutionsUnchanged DEF HeartbeatLapses, SlotVars, procVars
<1>8. ASSUME NEW w \in Workers, Start(w) PROVE SlotsAgree'
  BY <1>0, <1>8 DEF Start, Stuck, SlotsAgree, Live, Alive
<1>9. ASSUME NEW w \in Workers, RecoverCount(w) PROVE SlotsAgree'
  BY <1>9, SlotsUntouched, SameExecutionsUnchanged DEF RecoverCount, SlotVars, procVars
<1>10. ASSUME NEW w \in Workers, RecoverWrite(w) PROVE SlotsAgree'
  BY <1>10, SlotsUntouched, SameExecutionsUnchanged DEF RecoverWrite, SlotVars, procVars
<1>11. ASSUME NEW w \in Workers, TryPickup(w) PROVE SlotsAgree'
  BY <1>0, <1>11 DEF TryPickup, MaxConcurrent, Running, SlotsAgree, Live, Alive, Pickup
<1>12. ASSUME NEW w \in Workers, PickupEmpty(w) PROVE SlotsAgree'
  BY <1>0, <1>12 DEF PickupEmpty, NoPickup, SlotsAgree, Live, Alive, Pickup
<1>13. ASSUME NEW w \in Workers, PickupClaim(w) PROVE SlotsAgree'
  BY <1>0, <1>13 DEF PickupClaim, Eligible, Claimable, SlotsAgree, Live, Alive, Pickup
<1>14. ASSUME NEW w \in Workers, BeginExecution(w) PROVE SlotsAgree'
  BY <1>0, <1>14 DEF BeginExecution, Counted, Fresh, NoPickup, SlotsAgree,
     Live, Alive, Pickup
<1>15. ASSUME NEW w \in Workers, Stop(w) PROVE SlotsAgree'
  BY <1>0, <1>15 DEF Stop, SlotsAgree, Live, Alive
<1>16. ASSUME NEW w \in Workers, Unlistened(w) PROVE SlotsAgree'
  BY <1>0, <1>16 DEF Unlistened, SlotsAgree, Live, Alive
<1>17. ASSUME NEW w \in Workers, ReleaseClaimedJobs(w) PROVE SlotsAgree'
  BY <1>0, <1>17 DEF ReleaseClaimedJobs, ReleaseRows, Held, SlotsAgree, Live, Alive
<1>18. ASSUME NEW w \in Workers, ForceRelease(w) PROVE SlotsAgree'
  BY <1>18, SlotsUntouched, SameExecutionsUnchanged DEF ForceRelease, SlotVars, procVars
<1>19. ASSUME NEW w \in Workers, Die(w) PROVE SlotsAgree'
  BY <1>0, <1>19 DEF Die, NoExec, NoPickup, NoRecovery, NoHitl, Alive, SlotsAgree, Live
<1>20. ASSUME NEW w \in Workers, Deregister(w) PROVE SlotsAgree'
  BY <1>20, SlotsUntouched, SameExecutionsUnchanged DEF Deregister, SlotVars, procVars
<1>21. ASSUME NEW a \in Attempts, Stamp(a) PROVE SlotsAgree'
  <2>1. Live(a) /\ UNCHANGED SlotVars
    BY <1>21 DEF Stamp, Live, SlotVars, procVars
  <2>2. SameExecutions
    BY <1>0, <1>21, <2>1, SameExecutionsGoto DEF Stamp, Phases
  <2> QED
    BY <2>1, <2>2, SlotsUntouched
<1>22. ASSUME NEW a \in Attempts, PreflightPasses(a) PROVE SlotsAgree'
  <2>1. Live(a) /\ UNCHANGED SlotVars
    BY <1>22 DEF PreflightPasses, Live, SlotVars, procVars
  <2>2. SameExecutions
    BY <1>0, <1>22, <2>1, SameExecutionsGoto DEF PreflightPasses, Phases
  <2> QED
    BY <2>1, <2>2, SlotsUntouched
<1>23. ASSUME NEW a \in Attempts, Reject(a) PROVE SlotsAgree'
  <2>1. Live(a) /\ UNCHANGED SlotVars
    BY <1>23 DEF Reject, Live, SlotVars, procVars
  <2>2. SameExecutions
    BY <1>0, <1>23, <2>1, SameExecutionsGoto DEF Reject, Phases
  <2> QED
    BY <2>1, <2>2, SlotsUntouched
<1>24. ASSUME NEW a \in Attempts, Launch(a) PROVE SlotsAgree'
  <2>1. Live(a) /\ UNCHANGED SlotVars
    BY <1>24 DEF Launch, Live, SlotVars, procVars
  <2>2. SameExecutions
    BY <1>0, <1>24, <2>1, SameExecutionsGoto DEF Launch, Phases
  <2> QED
    BY <2>1, <2>2, SlotsUntouched
<1>25. ASSUME NEW a \in Attempts, BrowserRecovered(a) PROVE SlotsAgree'
  BY <1>25, SlotsUntouched, SameExecutionsUnchanged DEF BrowserRecovered,
     SlotVars, procVars
<1>26. ASSUME NEW a \in Attempts, StepCompleted(a) PROVE SlotsAgree'
  BY <1>26, SlotsUntouched, SameExecutionsUnchanged DEF StepCompleted, SlotVars, procVars
<1>27. ASSUME NEW a \in Attempts, Succeeds(a) PROVE SlotsAgree'
  <2>1. Live(a) /\ UNCHANGED SlotVars
    BY <1>27 DEF Succeeds, Live, SlotVars, procVars
  <2>2. SameExecutions
    BY <1>0, <1>27, <2>1, SameExecutionsGoto DEF Succeeds, Phases
  <2> QED
    BY <2>1, <2>2, SlotsUntouched
<1>28. ASSUME NEW a \in Attempts, AwaitUserReview(a) PROVE SlotsAgree'
  <2>1. Live(a) /\ UNCHANGED SlotVars
    BY <1>28 DEF AwaitUserReview, Live, SlotVars, procVars
  <2>2. SameExecutions
    BY <1>0, <1>28, <2>1, SameExecutionsGoto DEF AwaitUserReview, Phases
  <2> QED
    BY <2>1, <2>2, SlotsUntouched
<1>29. ASSUME NEW a \in Attempts, Throws(a) PROVE SlotsAgree'
  <2>1. Live(a) /\ UNCHANGED SlotVars
    BY <1>29 DEF Throws, Live, SlotVars, procVars
  <2>2. SameExecutions
    BY <1>0, <1>29, <2>1, SameExecutionsGoto DEF Throws, Phases
  <2> QED
    BY <2>1, <2>2, SlotsUntouched
<1>30. ASSUME NEW a \in Attempts, RetryLater(a) PROVE SlotsAgree'
  <2>1. Live(a) /\ UNCHANGED SlotVars
    BY <1>30 DEF RetryLater, Live, SlotVars, procVars
  <2>2. SameExecutions
    BY <1>0, <1>30, <2>1, SameExecutionsGoto DEF RetryLater, Phases
  <2> QED
    BY <2>1, <2>2, SlotsUntouched
<1>31. ASSUME NEW a \in Attempts, GiveUp(a) PROVE SlotsAgree'
  <2>1. Live(a) /\ UNCHANGED SlotVars
    BY <1>31 DEF GiveUp, Live, SlotVars, procVars
  <2>2. SameExecutions
    BY <1>0, <1>31, <2>1, SameExecutionsGoto DEF GiveUp, Phases
  <2> QED
    BY <2>1, <2>2, SlotsUntouched
<1>32. ASSUME NEW a \in Attempts, Close(a) PROVE SlotsAgree'
  BY <1>0, <1>32 DEF Close, GivenBack, NoExec, SlotsAgree, Live, Alive
<1>33. ASSUME NEW a \in Attempts, AskHuman(a) PROVE SlotsAgree'
  <2>1. SameExecutions /\ UNCHANGED SlotVars
    BY <1>0, <1>33 DEF AskHuman, SameExecutions, Live, Execution, SlotVars, procVars
  <2> QED
    BY <2>1, SlotsUntouched
<1>34. ASSUME NEW a \in Attempts, Heartbeat(a) PROVE SlotsAgree'
  BY <1>34, SlotsUntouched, SameExecutionsUnchanged DEF Heartbeat, SlotVars, procVars
<1>35. ASSUME NEW a \in Attempts, ToldToStop(a) PROVE SlotsAgree'
  BY <1>35, SlotsUntouched, SameExecutionsUnchanged DEF ToldToStop, SlotVars, procVars
<1>36. ASSUME NEW w \in Workers, NEW j \in Jobs, HumanResumed(w, j) PROVE SlotsAgree'
  <2>1. SameExecutions /\ UNCHANGED SlotVars
    BY <1>0, <1>36, SameExecutionsAsked DEF HumanResumed, Phases, SlotVars, procVars
  <2> QED
    BY <2>1, SlotsUntouched
<1>37. ASSUME NEW w \in Workers, NEW j \in Jobs, HumanTimeout(w, j) PROVE SlotsAgree'
  <2>1. SameExecutions /\ UNCHANGED SlotVars
    BY <1>0, <1>37, SameExecutionsAsked DEF HumanTimeout, Phases, SlotVars, procVars
  <2> QED
    BY <2>1, SlotsUntouched
<1>39. ASSUME NEW w \in Workers, PickupFails(w) PROVE SlotsAgree'
  BY <1>0, <1>39 DEF PickupFails, NoPickup, SlotsAgree, Live, Alive, Pickup
<1>40. ASSUME NEW w \in Workers, ReleaseFails(w) PROVE SlotsAgree'
  BY <1>0, <1>40 DEF ReleaseFails, SlotsAgree, Live, Alive
<1>38. CASE UNCHANGED vars
  BY <1>38, SlotsUntouched, SameExecutionsUnchanged DEF vars, SlotVars, procVars
<1>41. CASE Routine
  BY <1>1, <1>5, <1>6, <1>7, <1>8, <1>9, <1>10, <1>11, <1>12, <1>13, <1>14,
     <1>16, <1>17, <1>18, <1>19, <1>21, <1>22, <1>23, <1>24, <1>25, <1>26,
     <1>27, <1>28, <1>29, <1>30, <1>31, <1>32, <1>34, <1>36, <1>37, <1>41
     DEF Routine
<1>42. CASE Disturbance
  BY <1>2, <1>3, <1>4, <1>7, <1>15, <1>19, <1>20, <1>33, <1>35, <1>39, <1>40,
     <1>42 DEF Disturbance
<1> QED
  BY <1>38, <1>41, <1>42 DEF Next

\* Every state is of the right type, for any workers, jobs and attempts.
THEOREM TypeCorrect == Spec => []TypeOK
<1>1. Init => TypeOK /\ SlotsAgree
  BY TypeInit, SlotsInit
<1>2. TypeOK /\ SlotsAgree /\ [Next]_vars => (TypeOK /\ SlotsAgree)'
  BY TypeStep, SlotsStep
<1> QED
  BY <1>1, <1>2, PTL DEF Spec

\* activeJobs, the executor's fields and the executions of a worker agree in every
\* state: the inductive invariant behind OneTaskPerWorker.
THEOREM SlotsAlwaysAgree == Spec => []SlotsAgree
<1>1. Init => TypeOK /\ SlotsAgree
  BY TypeInit, SlotsInit
<1>2. TypeOK /\ SlotsAgree /\ [Next]_vars => (TypeOK /\ SlotsAgree)'
  BY TypeStep, SlotsStep
<1> QED
  BY <1>1, <1>2, PTL DEF Spec

\* A worker never has two executions, nor one while a pickup is in flight,
\* whatever the API, the recoveries and the other workers do.
THEOREM OneTask == Spec => []OneTaskPerWorker
<1>1. SlotsAgree => OneTaskPerWorker
  <2> SUFFICES ASSUME SlotsAgree PROVE OneTaskPerWorker
    OBVIOUS
  <2>1. ASSUME NEW a \in Attempts, Live(a)
        PROVE  exec[a].worker \in Workers /\ current[exec[a].worker] = a
    BY <2>1 DEF SlotsAgree
  <2>2. ASSUME NEW w \in Workers, pickup[w].state # "idle"
        PROVE  current[w] = NoAttempt
    BY <2>2 DEF SlotsAgree
  <2> QED
    BY <2>1, <2>2, ConstantsAssumption DEF OneTaskPerWorker
<1> QED
  BY <1>1, SlotsAlwaysAgree, PTL

-----------------------------------------------------------------------------
(* Who owns a row that waits or is claimed.                                *)

ClaimsAgree == NothingLeftClaimed /\ PendingIsUnowned /\ NewIsUnowned

\* A write that claims nothing and releases nothing.
LEMMA ClaimsUntouched ==
  ASSUME ClaimsAgree, UNCHANGED worker_id,
         \A j \in Jobs : \/ status'[j] = status[j]
                         \/ status'[j] \notin {"none", "pending", "queued"},
         \A w \in Workers : proc'[w] = "stopped" => proc[w] = "stopped"
  PROVE  ClaimsAgree'
BY DEF ClaimsAgree, NothingLeftClaimed, PendingIsUnowned, NewIsUnowned

\* No row has an owner at the start.
LEMMA ClaimsInit == Init => ClaimsAgree
BY DEF Init, ClaimsAgree, NothingLeftClaimed, PendingIsUnowned, NewIsUnowned

\* Every step keeps ClaimsAgree: one case per action.
LEMMA ClaimsStep ==
  ASSUME TypeOK, SlotsAgree, ClaimsAgree, [Next]_vars
  PROVE  ClaimsAgree'
<1>0. /\ status \in [Jobs -> Statuses]
      /\ worker_id \in [Jobs -> Workers \cup {NoWorker}]
      /\ proc \in [Workers -> {"down", "up", "unlisten", "drain", "stopped", "unreleased"}]
      /\ NoWorker \notin Workers
  BY ConstantsAssumption DEF TypeOK
<1>1. ASSUME NEW j \in Jobs, Submit(j) PROVE ClaimsAgree'
  BY <1>0, <1>1 DEF Submit, Claimable, ClaimsAgree, NothingLeftClaimed,
     PendingIsUnowned, NewIsUnowned, rowVars, procVars, InHand
<1>2. ASSUME NEW j \in Jobs, Cancel(j) PROVE ClaimsAgree'
  BY <1>0, <1>2, ClaimsUntouched DEF Cancel, Cancellable, rowVars, procVars
<1>3. ASSUME NEW j \in Jobs, Retry(j) PROVE ClaimsAgree'
  BY <1>0, <1>3 DEF Retry, Retryable, ClaimsAgree, NothingLeftClaimed,
     PendingIsUnowned, NewIsUnowned, rowVars, procVars, InHand
<1>4. ASSUME NEW j \in Jobs, ResumeCheck(j) PROVE ClaimsAgree'
  BY <1>0, <1>4, ClaimsUntouched DEF ResumeCheck, rowVars, procVars
<1>5. ASSUME NEW j \in Jobs, ResumeNotify(j) PROVE ClaimsAgree'
  BY <1>0, <1>5, ClaimsUntouched DEF ResumeNotify, rowVars, procVars
<1>6. ASSUME NEW j \in Jobs, ResumeWrite(j) PROVE ClaimsAgree'
  BY <1>0, <1>6, ClaimsUntouched DEF ResumeWrite, rowVars, procVars
<1>7. ASSUME NEW j \in Jobs, HeartbeatLapses(j) PROVE ClaimsAgree'
  BY <1>0, <1>7, ClaimsUntouched DEF HeartbeatLapses, rowVars, procVars
<1>8. ASSUME NEW w \in Workers, Start(w) PROVE ClaimsAgree'
  BY <1>0, <1>8, ClaimsUntouched DEF Start, Stuck, rowVars, procVars
<1>9. ASSUME NEW w \in Workers, RecoverCount(w) PROVE ClaimsAgree'
  BY <1>0, <1>9, ClaimsUntouched DEF RecoverCount, rowVars, procVars
<1>10. ASSUME NEW w \in Workers, RecoverWrite(w) PROVE ClaimsAgree'
  BY <1>0, <1>10 DEF RecoverWrite, ClaimsAgree, NothingLeftClaimed,
     PendingIsUnowned, NewIsUnowned, rowVars, procVars, InHand
<1>11. ASSUME NEW w \in Workers, TryPickup(w) PROVE ClaimsAgree'
  BY <1>0, <1>11, ClaimsUntouched DEF TryPickup, MaxConcurrent, Running, rowVars, procVars
<1>12. ASSUME NEW w \in Workers, PickupEmpty(w) PROVE ClaimsAgree'
  BY <1>0, <1>12, ClaimsUntouched DEF PickupEmpty, rowVars, procVars
<1>13. ASSUME NEW w \in Workers, PickupClaim(w) PROVE ClaimsAgree'
  BY <1>0, <1>13 DEF PickupClaim, Eligible, Claimable, ClaimsAgree,
     NothingLeftClaimed, PendingIsUnowned, NewIsUnowned, rowVars, procVars,
     InHand, SlotsAgree
<1>14. ASSUME NEW w \in Workers, BeginExecution(w) PROVE ClaimsAgree'
  BY <1>0, <1>14, ClaimsUntouched DEF BeginExecution, Fresh, rowVars, procVars
<1>15. ASSUME NEW w \in Workers, Stop(w) PROVE ClaimsAgree'
  BY <1>0, <1>15, ClaimsUntouched DEF Stop, rowVars, procVars
<1>16. ASSUME NEW w \in Workers, Unlistened(w) PROVE ClaimsAgree'
  BY <1>0, <1>16, ClaimsUntouched DEF Unlistened, rowVars, procVars
<1>17. ASSUME NEW w \in Workers, ReleaseClaimedJobs(w) PROVE ClaimsAgree'
  BY <1>0, <1>17 DEF ReleaseClaimedJobs, ReleaseRows, Held, ClaimsAgree,
     NothingLeftClaimed, PendingIsUnowned, NewIsUnowned, rowVars, procVars,
     InHand
<1>18. ASSUME NEW w \in Workers, ForceRelease(w) PROVE ClaimsAgree'
  BY <1>0, <1>18 DEF ForceRelease, ReleaseRows, Held, ClaimsAgree,
     NothingLeftClaimed, PendingIsUnowned, NewIsUnowned, rowVars, procVars,
     InHand
<1>19. ASSUME NEW w \in Workers, Die(w) PROVE ClaimsAgree'
  BY <1>0, <1>19, ClaimsUntouched DEF Die, Alive, rowVars, procVars
<1>20. ASSUME NEW w \in Workers, Deregister(w) PROVE ClaimsAgree'
  BY <1>0, <1>20, ClaimsUntouched DEF Deregister, rowVars, procVars
<1>21. ASSUME NEW a \in Attempts, Stamp(a) PROVE ClaimsAgree'
  BY <1>0, <1>21, ClaimsUntouched DEF Stamp, rowVars, procVars
<1>22. ASSUME NEW a \in Attempts, PreflightPasses(a) PROVE ClaimsAgree'
  BY <1>0, <1>22, ClaimsUntouched DEF PreflightPasses, WriteStatusAndBeat,
     WriteStatus, rowVars, procVars
<1>23. ASSUME NEW a \in Attempts, Reject(a) PROVE ClaimsAgree'
  BY <1>0, <1>23, ClaimsUntouched DEF Reject, WriteStatusAndBeat,
     WriteStatus, rowVars, procVars
<1>24. ASSUME NEW a \in Attempts, Launch(a) PROVE ClaimsAgree'
  BY <1>0, <1>24, ClaimsUntouched DEF Launch, WriteStatusAndBeat,
     WriteStatus, rowVars, procVars
<1>25. ASSUME NEW a \in Attempts, BrowserRecovered(a) PROVE ClaimsAgree'
  BY <1>0, <1>25, ClaimsUntouched DEF BrowserRecovered, WriteStatusAndBeat,
     WriteStatus, rowVars, procVars
<1>26. ASSUME NEW a \in Attempts, StepCompleted(a) PROVE ClaimsAgree'
  BY <1>0, <1>26, ClaimsUntouched DEF StepCompleted, rowVars, procVars
<1>27. ASSUME NEW a \in Attempts, Succeeds(a) PROVE ClaimsAgree'
  BY <1>0, <1>27, ClaimsUntouched DEF Succeeds, WriteStatus, rowVars, procVars
<1>28. ASSUME NEW a \in Attempts, AwaitUserReview(a) PROVE ClaimsAgree'
  BY <1>0, <1>28, ClaimsUntouched DEF AwaitUserReview, WriteStatus, rowVars, procVars
<1>29. ASSUME NEW a \in Attempts, Throws(a) PROVE ClaimsAgree'
  BY <1>0, <1>29, ClaimsUntouched DEF Throws, rowVars, procVars
<1>30. ASSUME NEW a \in Attempts, RetryLater(a) PROVE ClaimsAgree'
  BY <1>0, <1>30 DEF RetryLater, WriteStatus, ClaimsAgree,
     NothingLeftClaimed, PendingIsUnowned, NewIsUnowned, rowVars, procVars,
     InHand
<1>31. ASSUME NEW a \in Attempts, GiveUp(a) PROVE ClaimsAgree'
  BY <1>0, <1>31, ClaimsUntouched DEF GiveUp, WriteStatus, rowVars, procVars
<1>32. ASSUME NEW a \in Attempts, Close(a) PROVE ClaimsAgree'
  BY <1>0, <1>32, ClaimsUntouched DEF Close, rowVars, procVars
<1>33. ASSUME NEW a \in Attempts, AskHuman(a) PROVE ClaimsAgree'
  BY <1>0, <1>33, ClaimsUntouched DEF AskHuman, WriteStatus, rowVars, procVars
<1>34. ASSUME NEW a \in Attempts, Heartbeat(a) PROVE ClaimsAgree'
  BY <1>0, <1>34, ClaimsUntouched DEF Heartbeat, rowVars, procVars
<1>35. ASSUME NEW a \in Attempts, ToldToStop(a) PROVE ClaimsAgree'
  BY <1>0, <1>35, ClaimsUntouched DEF ToldToStop, rowVars, procVars
<1>36. ASSUME NEW w \in Workers, NEW j \in Jobs, HumanResumed(w, j) PROVE ClaimsAgree'
  BY <1>0, <1>36, ClaimsUntouched DEF HumanResumed, WriteStatus, rowVars, procVars
<1>37. ASSUME NEW w \in Workers, NEW j \in Jobs, HumanTimeout(w, j) PROVE ClaimsAgree'
  BY <1>0, <1>37, ClaimsUntouched DEF HumanTimeout, WriteStatus, rowVars, procVars
<1>39. ASSUME NEW w \in Workers, PickupFails(w) PROVE ClaimsAgree'
  BY <1>0, <1>39 DEF PickupFails, Eligible, Claimable, ClaimsAgree,
     NothingLeftClaimed, PendingIsUnowned, NewIsUnowned, rowVars, procVars,
     InHand, SlotsAgree
<1>40. ASSUME NEW w \in Workers, ReleaseFails(w) PROVE ClaimsAgree'
  BY <1>0, <1>40, ClaimsUntouched DEF ReleaseFails, rowVars, procVars
<1>38. CASE UNCHANGED vars
  BY <1>38, ClaimsUntouched DEF vars, rowVars, procVars
<1>41. CASE Routine
  BY <1>1, <1>5, <1>6, <1>7, <1>8, <1>9, <1>10, <1>11, <1>12, <1>13, <1>14,
     <1>16, <1>17, <1>18, <1>19, <1>21, <1>22, <1>23, <1>24, <1>25, <1>26,
     <1>27, <1>28, <1>29, <1>30, <1>31, <1>32, <1>34, <1>36, <1>37, <1>41
     DEF Routine
<1>42. CASE Disturbance
  BY <1>2, <1>3, <1>4, <1>7, <1>15, <1>19, <1>20, <1>33, <1>35, <1>39, <1>40,
     <1>42 DEF Disturbance
<1> QED
  BY <1>38, <1>41, <1>42 DEF Next

\* What the rows say of their owners, in every state: NothingLeftClaimed,
\* PendingIsUnowned and the part about rows not yet submitted that they need.
THEOREM ClaimsAlwaysAgree == Spec => []ClaimsAgree
<1>1. Init => TypeOK /\ SlotsAgree /\ ClaimsAgree
  BY TypeInit, SlotsInit, ClaimsInit
<1>2. TypeOK /\ SlotsAgree /\ ClaimsAgree /\ [Next]_vars
        => (TypeOK /\ SlotsAgree /\ ClaimsAgree)'
  BY TypeStep, SlotsStep, ClaimsStep
<1> QED
  BY <1>1, <1>2, PTL DEF Spec

\* After a release that went through no row is left 'queued' in the worker's
\* name, although a pickup may have been in flight when stop() was called, or may
\* have claimed a row without an answer.
THEOREM NothingLeft == Spec => []NothingLeftClaimed
BY ClaimsAlwaysAgree, PTL DEF ClaimsAgree

\* A pending row has no owner, whoever made it pending.
THEOREM PendingUnowned == Spec => []PendingIsUnowned
BY ClaimsAlwaysAgree, PTL DEF ClaimsAgree

-----------------------------------------------------------------------------
(* Finished rows.                                                          *)

\* A write to the row of an execution that is alive.
LEMMA FinishedByExecution ==
  ASSUME status \in [Jobs -> Statuses], NEW a \in Attempts, Live(a), NEW s,
         WriteStatus(exec[a].job, s)
  PROVE  LeavesFinishedAlone
BY DEF LeavesFinishedAlone, InFlight, Abandoned, WriteStatus

\* A step that writes no status leaves finished rows alone.
LEMMA FinishedUntouched ==
  ASSUME UNCHANGED status
  PROVE  LeavesFinishedAlone
BY DEF LeavesFinishedAlone

\* Every step leaves finished rows alone: one case per action.
LEMMA FinishedStep ==
  ASSUME TypeOK, [Next]_vars
  PROVE  LeavesFinishedAlone
<1>0. status \in [Jobs -> Statuses] /\ retry_count \in [Jobs -> Nat]
  BY DEF TypeOK
<1>1. ASSUME NEW j \in Jobs, Submit(j) PROVE LeavesFinishedAlone
  BY <1>0, <1>1 DEF Submit, Claimable, LeavesFinishedAlone, Terminal
<1>2. ASSUME NEW j \in Jobs, Cancel(j) PROVE LeavesFinishedAlone
  BY <1>0, <1>2 DEF Cancel, Cancellable, LeavesFinishedAlone, Terminal
<1>3. ASSUME NEW j \in Jobs, Retry(j) PROVE LeavesFinishedAlone
  BY <1>0, <1>3 DEF Retry, Retryable, LeavesFinishedAlone, Terminal
<1>4. ASSUME NEW j \in Jobs, ResumeCheck(j) PROVE LeavesFinishedAlone
  BY <1>4, FinishedUntouched DEF ResumeCheck, rowVars
<1>5. ASSUME NEW j \in Jobs, ResumeNotify(j) PROVE LeavesFinishedAlone
  BY <1>5, FinishedUntouched DEF ResumeNotify, rowVars
<1>6. ASSUME NEW j \in Jobs, ResumeWrite(j) PROVE LeavesFinishedAlone
  BY <1>0, <1>6 DEF ResumeWrite, LeavesFinishedAlone, Terminal, InFlight
<1>7. ASSUME NEW j \in Jobs, HeartbeatLapses(j) PROVE LeavesFinishedAlone
  BY <1>7, FinishedUntouched DEF HeartbeatLapses, rowVars
<1>8. ASSUME NEW w \in Workers, Start(w) PROVE LeavesFinishedAlone
  BY <1>8, FinishedUntouched DEF Start, rowVars
<1>9. ASSUME NEW w \in Workers, RecoverCount(w) PROVE LeavesFinishedAlone
  BY <1>9, FinishedUntouched DEF RecoverCount, rowVars
<1>10. ASSUME NEW w \in Workers, RecoverWrite(w) PROVE LeavesFinishedAlone
  BY <1>0, <1>10 DEF RecoverWrite, LeavesFinishedAlone, Terminal, InFlight
<1>11. ASSUME NEW w \in Workers, TryPickup(w) PROVE LeavesFinishedAlone
  BY <1>11, FinishedUntouched DEF TryPickup, rowVars
<1>12. ASSUME NEW w \in Workers, PickupEmpty(w) PROVE LeavesFinishedAlone
  BY <1>12, FinishedUntouched DEF PickupEmpty, rowVars
<1>13. ASSUME NEW w \in Workers, PickupClaim(w) PROVE LeavesFinishedAlone
  BY <1>0, <1>13 DEF PickupClaim, Eligible, Claimable, LeavesFinishedAlone, Terminal
<1>14. ASSUME NEW w \in Workers, BeginExecution(w) PROVE LeavesFinishedAlone
  BY <1>14, FinishedUntouched DEF BeginExecution, rowVars
<1>15. ASSUME NEW w \in Workers, Stop(w) PROVE LeavesFinishedAlone
  BY <1>15, FinishedUntouched DEF Stop, rowVars
<1>16. ASSUME NEW w \in Workers, Unlistened(w) PROVE LeavesFinishedAlone
  BY <1>16, FinishedUntouched DEF Unlistened, rowVars
<1>17. ASSUME NEW w \in Workers, ReleaseClaimedJobs(w) PROVE LeavesFinishedAlone
  BY <1>0, <1>17 DEF ReleaseClaimedJobs, ReleaseRows, Held,
     LeavesFinishedAlone, Terminal, InHand
<1>18. ASSUME NEW w \in Workers, ForceRelease(w) PROVE LeavesFinishedAlone
  BY <1>0, <1>18 DEF ForceRelease, ReleaseRows, Held, LeavesFinishedAlone,
     Terminal, InHand
<1>19. ASSUME NEW w \in Workers, Die(w) PROVE LeavesFinishedAlone
  BY <1>19, FinishedUntouched DEF Die, rowVars
<1>20. ASSUME NEW w \in Workers, Deregister(w) PROVE LeavesFinishedAlone
  BY <1>0, <1>20 DEF Deregister, LeavesFinishedAlone, Terminal, InHand
<1>21. ASSUME NEW a \in Attempts, Stamp(a) PROVE LeavesFinishedAlone
  BY <1>21, FinishedUntouched DEF Stamp, rowVars
<1>22. ASSUME NEW a \in Attempts, PreflightPasses(a) PROVE LeavesFinishedAlone
  BY <1>0, <1>22, FinishedByExecution DEF PreflightPasses, WriteStatusAndBeat, Live
<1>23. ASSUME NEW a \in Attempts, Reject(a) PROVE LeavesFinishedAlone
  BY <1>0, <1>23, FinishedByExecution DEF Reject, WriteStatusAndBeat, Live
<1>24. ASSUME NEW a \in Attempts, Launch(a) PROVE LeavesFinishedAlone
  BY <1>0, <1>24, FinishedByExecution DEF Launch, WriteStatusAndBeat, Live
<1>25. ASSUME NEW a \in Attempts, BrowserRecovered(a) PROVE LeavesFinishedAlone
  BY <1>0, <1>25, FinishedByExecution DEF BrowserRecovered, WriteStatusAndBeat, Live
<1>26. ASSUME NEW a \in Attempts, StepCompleted(a) PROVE LeavesFinishedAlone
  BY <1>26, FinishedUntouched DEF StepCompleted, rowVars
<1>27. ASSUME NEW a \in Attempts, Succeeds(a) PROVE LeavesFinishedAlone
  BY <1>0, <1>27, FinishedByExecution DEF Succeeds, Live
<1>28. ASSUME NEW a \in Attempts, AwaitUserReview(a) PROVE LeavesFinishedAlone
  BY <1>0, <1>28, FinishedByExecution DEF AwaitUserReview, Live
<1>29. ASSUME NEW a \in Attempts, Throws(a) PROVE LeavesFinishedAlone
  BY <1>29, FinishedUntouched DEF Throws, rowVars
<1>30. ASSUME NEW a \in Attempts, RetryLater(a) PROVE LeavesFinishedAlone
  BY <1>0, <1>30, FinishedByExecution DEF RetryLater, Live
<1>31. ASSUME NEW a \in Attempts, GiveUp(a) PROVE LeavesFinishedAlone
  BY <1>0, <1>31, FinishedByExecution DEF GiveUp, Live
<1>32. ASSUME NEW a \in Attempts, Close(a) PROVE LeavesFinishedAlone
  BY <1>32, FinishedUntouched DEF Close, rowVars
<1>33. ASSUME NEW a \in Attempts, AskHuman(a) PROVE LeavesFinishedAlone
  BY <1>0, <1>33, FinishedByExecution DEF AskHuman, Live
<1>34. ASSUME NEW a \in Attempts, Heartbeat(a) PROVE LeavesFinishedAlone
  BY <1>34, FinishedUntouched DEF Heartbeat, rowVars
<1>35. ASSUME NEW a \in Attempts, ToldToStop(a) PROVE LeavesFinishedAlone
  BY <1>35, FinishedUntouched DEF ToldToStop, rowVars
<1>36. ASSUME NEW w \in Workers, NEW j \in Jobs, HumanResumed(w, j) PROVE LeavesFinishedAlone
  BY <1>0, <1>36 DEF HumanResumed, WriteStatus, LeavesFinishedAlone, Terminal, InFlight
<1>37. ASSUME NEW w \in Workers, NEW j \in Jobs, HumanTimeout(w, j) PROVE LeavesFinishedAlone
  BY <1>0, <1>37 DEF HumanTimeout, WriteStatus, LeavesFinishedAlone, Terminal, InFlight
<1>39. ASSUME NEW w \in Workers, PickupFails(w) PROVE LeavesFinishedAlone
  BY <1>0, <1>39 DEF PickupFails, Eligible, Claimable, LeavesFinishedAlone, Terminal
<1>40. ASSUME NEW w \in Workers, ReleaseFails(w) PROVE LeavesFinishedAlone
  BY <1>40, FinishedUntouched DEF ReleaseFails, rowVars
<1>38. CASE UNCHANGED vars
  BY <1>38, FinishedUntouched DEF vars, rowVars
<1>41. CASE Routine
  BY <1>1, <1>5, <1>6, <1>7, <1>8, <1>9, <1>10, <1>11, <1>12, <1>13, <1>14,
     <1>16, <1>17, <1>18, <1>19, <1>21, <1>22, <1>23, <1>24, <1>25, <1>26,
     <1>27, <1>28, <1>29, <1>30, <1>31, <1>32, <1>34, <1>36, <1>37, <1>41
     DEF Routine
<1>42. CASE Disturbance
  BY <1>2, <1>3, <1>4, <1>7, <1>15, <1>19, <1>20, <1>33, <1>35, <1>39, <1>40,
     <1>42 DEF Disturbance
<1> QED
  BY <1>38, <1>41, <1>42 DEF Next

\* Nobody brings a finished job back but an API retry and those that already
\* held the job when it finished.
THEOREM FinishedAlone == Spec => FinishedStaysFinished
<1>1. TypeOK /\ [Next]_vars => [LeavesFinishedAlone]_vars
  BY FinishedStep
<1> QED
  BY <1>1, TypeCorrect, PTL DEF Spec, FinishedStaysFinished

-----------------------------------------------------------------------------
(* JobQueue implements WorkerSlots: whatever happens to rows, heartbeats   *)
(* and attempts, a worker takes one allowed job at a time, and none once   *)
(* its shutdown has passed the UNLISTEN.                                   *)

slotvars == <<SlotMode, SlotTask>>

\* The initial state of the queue is one of the slots.
LEMMA SlotsInitially == Init => Slots!Init
BY DEF Init, Slots!Init, SlotMode, SlotTask, NoPickup

\* Steps that change no slot.
LEMMA SlotsStutter ==
  ASSUME TypeOK, SameExecutions, UNCHANGED SlotVars
  PROVE  UNCHANGED slotvars
<1>1. proc' = proc /\ pickup' = pickup /\ current' = current
  BY DEF SlotVars
<1>2. \A w \in Workers : current[w] # NoAttempt => current[w] \in Attempts
  BY DEF TypeOK
<1>3. \A w \in Workers : current[w] # NoAttempt
                           => exec'[current[w]].job = exec[current[w]].job
  BY <1>2 DEF SameExecutions
<1>4. SlotMode' = SlotMode
  BY <1>1 DEF SlotMode
<1>5. SlotTask' = SlotTask
  BY <1>1, <1>3 DEF SlotTask
<1> QED
  BY <1>4, <1>5 DEF slotvars

\* A job the pickup statement may take is one the routing rules allow.
LEMMA ClaimAllowed ==
  ASSUME NEW w \in Workers, NEW j \in Eligible(w)
  PROVE  j \in Jobs /\ <<w, j>> \in {p \in Workers \X Jobs : MayClaim(p[1], p[2])}
BY DEF Eligible

\* Every step of the queue is a step of the slots or a stutter.
LEMMA SlotsSimulate ==
  ASSUME TypeOK, SlotsAgree, [Next]_vars
  PROVE  Slots!Next \/ UNCHANGED slotvars
<1>0. /\ exec \in [Attempts -> Execution] /\ pickup \in [Workers -> Pickup]
      /\ current \in [Workers -> Attempts \cup {NoAttempt}]
      /\ proc \in [Workers -> {"down", "up", "unlisten", "drain", "stopped", "unreleased"}]
      /\ NoAttempt \notin Attempts /\ NoJob \notin Jobs
  BY ConstantsAssumption DEF TypeOK
<1>1. ASSUME NEW j \in Jobs, Submit(j) PROVE Slots!Next \/ UNCHANGED slotvars
  BY <1>1, SlotsStutter, SameExecutionsUnchanged DEF Submit, SlotVars, procVars
<1>2. ASSUME NEW j \in Jobs, Cancel(j) PROVE Slots!Next \/ UNCHANGED slotvars
  BY <1>2, SlotsStutter, SameExecutionsUnchanged DEF Cancel, SlotVars, procVars
<1>3. ASSUME NEW j \in Jobs, Retry(j) PROVE Slots!Next \/ UNCHANGED slotvars
  BY <1>3, SlotsStutter, SameExecutionsUnchanged DEF Retry, SlotVars, procVars
<1>4. ASSUME NEW j \in Jobs, ResumeCheck(j) PROVE Slots!Next \/ UNCHANGED slotvars
  BY <1>4, SlotsStutter, SameExecutionsUnchanged DEF ResumeCheck, SlotVars, procVars
<1>5. ASSUME NEW j \in Jobs, ResumeNotify(j) PROVE Slots!Next \/ UNCHANGED slotvars
  BY <1>5, SlotsStutter, SameExecutionsUnchanged DEF ResumeNotify, SlotVars, procVars
<1>6. ASSUME NEW j \in Jobs, ResumeWrite(j) PROVE Slots!Next \/ UNCHANGED slotvars
  BY <1>6, SlotsStutter, SameExecutionsUnchanged DEF ResumeWrite, SlotVars, procVars
<1>7. ASSUME NEW j \in Jobs, HeartbeatLapses(j) PROVE Slots!Next \/ UNCHANGED slotvars
  BY <1>7, SlotsStutter, SameExecutionsUnchanged DEF HeartbeatLapses, SlotVars, procVars
<1>8. ASSUME NEW w \in Workers, Start(w) PROVE Slots!Next \/ UNCHANGED slotvars
  <2>1. SlotMode[w] = "off" /\ SlotMode' = [SlotMode EXCEPT ![w] = "open"]
    BY <1>0, <1>8 DEF Start, SlotMode
  <2>2. SlotTask' = SlotTask
    BY <1>8 DEF Start, SlotTask
  <2> QED
    BY <2>1, <2>2 DEF Slots!Next, Slots!Boot
<1>9. ASSUME NEW w \in Workers, RecoverCount(w) PROVE Slots!Next \/ UNCHANGED slotvars
  BY <1>9, SlotsStutter, SameExecutionsUnchanged DEF RecoverCount, SlotVars, procVars
<1>10. ASSUME NEW w \in Workers, RecoverWrite(w) PROVE Slots!Next \/ UNCHANGED slotvars
  BY <1>10, SlotsStutter, SameExecutionsUnchanged DEF RecoverWrite, SlotVars, procVars
<1>11. ASSUME NEW w \in Workers, TryPickup(w) PROVE Slots!Next \/ UNCHANGED slotvars
  <2>1. SlotTask' = SlotTask
    BY <1>0, <1>11 DEF TryPickup, SlotTask, Pickup
  <2> QED
    BY <1>11, <2>1 DEF TryPickup, SlotMode, slotvars
<1>12. ASSUME NEW w \in Workers, PickupEmpty(w) PROVE Slots!Next \/ UNCHANGED slotvars
  <2>1. SlotTask' = SlotTask
    BY <1>0, <1>12 DEF PickupEmpty, SlotTask, NoPickup
  <2> QED
    BY <1>12, <2>1 DEF PickupEmpty, SlotMode, slotvars
<1>13. ASSUME NEW w \in Workers, PickupClaim(w) PROVE Slots!Next \/ UNCHANGED slotvars
  <2>1. PICK j \in Eligible(w) :
          pickup' = [pickup EXCEPT ![w] =
            [state |-> "claimed", job |-> j, retries |-> retry_count[j]]]
    BY <1>13 DEF PickupClaim
  <2>2. /\ current[w] = NoAttempt /\ proc[w] \in {"up", "unlisten"}
        /\ pickup[w].state = "sent" /\ proc' = proc /\ current' = current
        /\ exec' = exec
    BY <1>13 DEF PickupClaim, SlotsAgree
  <2>3. SlotMode[w] = "open" /\ SlotMode' = SlotMode
    BY <2>2 DEF SlotMode
  <2>4. SlotTask[w] = NoJob /\ SlotTask' = [SlotTask EXCEPT ![w] = j]
    BY <1>0, <2>1, <2>2 DEF SlotTask
  <2>5. Slots!Take(w, j)
    BY <2>3, <2>4, ClaimAllowed DEF Slots!Take
  <2> QED
    BY <2>5, ClaimAllowed DEF Slots!Next
<1>14. ASSUME NEW w \in Workers, BeginExecution(w) PROVE Slots!Next \/ UNCHANGED slotvars
  <2>1. PICK a \in Attempts :
          /\ ~Live(a)
          /\ exec' = [exec EXCEPT ![a] =
               [phase |-> "stamp", worker |-> w, job |-> pickup[w].job,
                retries |-> pickup[w].retries]]
          /\ current' = [current EXCEPT ![w] = a]
    BY <1>14 DEF BeginExecution, Fresh
  <2>2. /\ pickup[w].state = "claimed" /\ pickup' = [pickup EXCEPT ![w] = NoPickup]
        /\ proc' = proc
    BY <1>14 DEF BeginExecution
  <2>3. \A v \in Workers : current[v] # NoAttempt
                             => current[v] \in Attempts /\ current[v] # a
    BY <1>0, <2>1 DEF SlotsAgree
  <2>4. exec'[a].job = pickup[w].job /\ a # NoAttempt
    BY <1>0, <2>1
  <2>5. \A b \in Attempts : b # a => exec'[b] = exec[b]
    BY <1>0, <2>1
  <2>6. ASSUME NEW v \in Workers PROVE SlotTask'[v] = SlotTask[v]
    <3>1. CASE v = w
      BY <1>0, <2>1, <2>2, <2>4, <3>1 DEF SlotTask, NoPickup
    <3>2. CASE v # w
      BY <1>0, <2>1, <2>2, <2>3, <2>5, <3>2 DEF SlotTask
    <3> QED
      BY <3>1, <3>2
  <2>7. SlotTask' = SlotTask
    BY <2>6 DEF SlotTask
  <2> QED
    BY <2>2, <2>7 DEF SlotMode, slotvars
<1>15. ASSUME NEW w \in Workers, Stop(w) PROVE Slots!Next \/ UNCHANGED slotvars
  <2>1. SlotMode' = SlotMode
    BY <1>0, <1>15 DEF Stop, SlotMode
  <2> QED
    BY <1>15, <2>1 DEF Stop, SlotTask, slotvars
<1>16. ASSUME NEW w \in Workers, Unlistened(w) PROVE Slots!Next \/ UNCHANGED slotvars
  <2>1. SlotMode[w] = "open" /\ SlotMode' = [SlotMode EXCEPT ![w] = "closed"]
    BY <1>0, <1>16 DEF Unlistened, SlotMode
  <2>2. SlotTask' = SlotTask
    BY <1>16 DEF Unlistened, SlotTask
  <2> QED
    BY <2>1, <2>2 DEF Slots!Next, Slots!Shut
<1>17. ASSUME NEW w \in Workers, ReleaseClaimedJobs(w) PROVE Slots!Next \/ UNCHANGED slotvars
  <2>1. SlotMode' = SlotMode
    BY <1>0, <1>17 DEF ReleaseClaimedJobs, SlotMode
  <2> QED
    BY <1>17, <2>1 DEF ReleaseClaimedJobs, SlotTask, slotvars
<1>18. ASSUME NEW w \in Workers, ForceRelease(w) PROVE Slots!Next \/ UNCHANGED slotvars
  BY <1>18, SlotsStutter, SameExecutionsUnchanged DEF ForceRelease, SlotVars, procVars
<1>19. ASSUME NEW w \in Workers, Die(w) PROVE Slots!Next \/ UNCHANGED slotvars
  <2>1. /\ proc[w] # "down" /\ proc' = [proc EXCEPT ![w] = "down"]
        /\ pickup' = [pickup EXCEPT ![w] = NoPickup]
        /\ current' = [current EXCEPT ![w] = NoAttempt]
    BY <1>19 DEF Die, Alive
  <2>2. SlotMode[w] # "off" /\ SlotMode' = [SlotMode EXCEPT ![w] = "off"]
    BY <1>0, <2>1 DEF SlotMode
  <2>3. \A v \in Workers : v # w /\ current[v] # NoAttempt
                             => exec'[current[v]] = exec[current[v]]
    BY <1>0, <1>19 DEF Die, SlotsAgree
  <2>4. SlotTask' = [SlotTask EXCEPT ![w] = NoJob]
    BY <1>0, <2>1, <2>3 DEF SlotTask, NoPickup
  <2> QED
    BY <2>2, <2>4 DEF Slots!Next, Slots!Exit
<1>20. ASSUME NEW w \in Workers, Deregister(w) PROVE Slots!Next \/ UNCHANGED slotvars
  BY <1>20, SlotsStutter, SameExecutionsUnchanged DEF Deregister, SlotVars, procVars
<1>21. ASSUME NEW a \in Attempts, Stamp(a) PROVE Slots!Next \/ UNCHANGED slotvars
  <2>1. Live(a) /\ UNCHANGED SlotVars
    BY <1>21 DEF Stamp, Live, SlotVars, procVars
  <2>2. SameExecutions
    BY <1>0, <1>21, <2>1, SameExecutionsGoto DEF Stamp, Phases
  <2> QED
    BY <2>1, <2>2, SlotsStutter
<1>22. ASSUME NEW a \in Attempts, PreflightPasses(a) PROVE Slots!Next \/ UNCHANGED slotvars
  <2>1. Live(a) /\ UNCHANGED SlotVars
    BY <1>22 DEF PreflightPasses, Live, SlotVars, procVars
  <2>2. SameExecutions
    BY <1>0, <1>22, <2>1, SameExecutionsGoto DEF PreflightPasses, Phases
  <2> QED
    BY <2>1, <2>2, SlotsStutter
<1>23. ASSUME NEW a \in Attempts, Reject(a) PROVE Slots!Next \/ UNCHANGED slotvars
  <2>1. Live(a) /\ UNCHANGED SlotVars
    BY <1>23 DEF Reject, Live, SlotVars, procVars
  <2>2. SameExecutions
    BY <1>0, <1>23, <2>1, SameExecutionsGoto DEF Reject, Phases
  <2> QED
    BY <2>1, <2>2, SlotsStutter
<1>24. ASSUME NEW a \in Attempts, Launch(a) PROVE Slots!Next \/ UNCHANGED slotvars
  <2>1. Live(a) /\ UNCHANGED SlotVars
    BY <1>24 DEF Launch, Live, SlotVars, procVars
  <2>2. SameExecutions
    BY <1>0, <1>24, <2>1, SameExecutionsGoto DEF Launch, Phases
  <2> QED
    BY <2>1, <2>2, SlotsStutter
<1>25. ASSUME NEW a \in Attempts, BrowserRecovered(a) PROVE Slots!Next \/ UNCHANGED slotvars
  BY <1>25, SlotsStutter, SameExecutionsUnchanged DEF BrowserRecovered, SlotVars, procVars
<1>26. ASSUME NEW a \in Attempts, StepCompleted(a) PROVE Slots!Next \/ UNCHANGED slotvars
  BY <1>26, SlotsStutter, SameExecutionsUnchanged DEF StepCompleted, SlotVars, procVars
<1>27. ASSUME NEW a \in Attempts, Succeeds(a) PROVE Slots!Next \/ UNCHANGED slotvars
  <2>1. Live(a) /\ UNCHANGED SlotVars
    BY <1>27 DEF Succeeds, Live, SlotVars, procVars
  <2>2. SameExecutions
    BY <1>0, <1>27, <2>1, SameExecutionsGoto DEF Succeeds, Phases
  <2> QED
    BY <2>1, <2>2, SlotsStutter
<1>28. ASSUME NEW a \in Attempts, AwaitUserReview(a) PROVE Slots!Next \/ UNCHANGED slotvars
  <2>1. Live(a) /\ UNCHANGED SlotVars
    BY <1>28 DEF AwaitUserReview, Live, SlotVars, procVars
  <2>2. SameExecutions
    BY <1>0, <1>28, <2>1, SameExecutionsGoto DEF AwaitUserReview, Phases
  <2> QED
    BY <2>1, <2>2, SlotsStutter
<1>29. ASSUME NEW a \in Attempts, Throws(a) PROVE Slots!Next \/ UNCHANGED slotvars
  <2>1. Live(a) /\ UNCHANGED SlotVars
    BY <1>29 DEF Throws, Live, SlotVars, procVars
  <2>2. SameExecutions
    BY <1>0, <1>29, <2>1, SameExecutionsGoto DEF Throws, Phases
  <2> QED
    BY <2>1, <2>2, SlotsStutter
<1>30. ASSUME NEW a \in Attempts, RetryLater(a) PROVE Slots!Next \/ UNCHANGED slotvars
  <2>1. Live(a) /\ UNCHANGED SlotVars
    BY <1>30 DEF RetryLater, Live, SlotVars, procVars
  <2>2. SameExecutions
    BY <1>0, <1>30, <2>1, SameExecutionsGoto DEF RetryLater, Phases
  <2> QED
    BY <2>1, <2>2, SlotsStutter
<1>31. ASSUME NEW a \in Attempts, GiveUp(a) PROVE Slots!Next \/ UNCHANGED slotvars
  <2>1. Live(a) /\ UNCHANGED SlotVars
    BY <1>31 DEF GiveUp, Live, SlotVars, procVars
  <2>2. SameExecutions
    BY <1>0, <1>31, <2>1, SameExecutionsGoto DEF GiveUp, Phases
  <2> QED
    BY <2>1, <2>2, SlotsStutter
<1>32. ASSUME NEW a \in Attempts, Close(a) PROVE Slots!Next \/ UNCHANGED slotvars
  <2>1. /\ exec[a].worker \in Workers /\ exec[a].job \in Jobs
        /\ current[exec[a].worker] = a /\ pickup[exec[a].worker].state = "idle"
    BY <1>0, <1>32 DEF Close, SlotsAgree, Live, Pickup
  <2> DEFINE w == exec[a].worker
  <2>2. /\ exec' = [exec EXCEPT ![a] = NoExec] /\ proc' = proc
        /\ current' = [current EXCEPT ![w] = NoAttempt] /\ pickup' = pickup
    BY <1>32 DEF Close
  <2>3. \A v \in Workers : v # w /\ current[v] # NoAttempt
                             => exec'[current[v]] = exec[current[v]]
    <3>1. \A v \in Workers : current[v] # NoAttempt
            => current[v] \in Attempts /\ exec[current[v]].worker = v
      BY <1>0 DEF SlotsAgree
    <3> QED
      BY <1>0, <2>2, <3>1
  <2>4. SlotTask[w] # NoJob
    BY <1>0, <2>1 DEF SlotTask
  <2>5. SlotTask' = [SlotTask EXCEPT ![w] = NoJob]
    BY <1>0, <2>1, <2>2, <2>3 DEF SlotTask
  <2>6. SlotMode' = SlotMode
    BY <2>2 DEF SlotMode
  <2> QED
    BY <2>1, <2>4, <2>5, <2>6 DEF Slots!Next, Slots!Finish
<1>33. ASSUME NEW a \in Attempts, AskHuman(a) PROVE Slots!Next \/ UNCHANGED slotvars
  <2>1. SameExecutions /\ UNCHANGED SlotVars
    BY <1>0, <1>33 DEF AskHuman, SameExecutions, Live, Execution, SlotVars, procVars
  <2> QED
    BY <2>1, SlotsStutter
<1>34. ASSUME NEW a \in Attempts, Heartbeat(a) PROVE Slots!Next \/ UNCHANGED slotvars
  BY <1>34, SlotsStutter, SameExecutionsUnchanged DEF Heartbeat, SlotVars, procVars
<1>35. ASSUME NEW a \in Attempts, ToldToStop(a) PROVE Slots!Next \/ UNCHANGED slotvars
  BY <1>35, SlotsStutter, SameExecutionsUnchanged DEF ToldToStop, SlotVars, procVars
<1>36. ASSUME NEW w \in Workers, NEW j \in Jobs, HumanResumed(w, j) PROVE Slots!Next \/ UNCHANGED slotvars
  <2>1. SameExecutions /\ UNCHANGED SlotVars
    BY <1>0, <1>36, SameExecutionsAsked DEF HumanResumed, Phases, SlotVars, procVars
  <2> QED
    BY <2>1, SlotsStutter
<1>37. ASSUME NEW w \in Workers, NEW j \in Jobs, HumanTimeout(w, j) PROVE Slots!Next \/ UNCHANGED slotvars
  <2>1. SameExecutions /\ UNCHANGED SlotVars
    BY <1>0, <1>37, SameExecutionsAsked DEF HumanTimeout, Phases, SlotVars, procVars
  <2> QED
    BY <2>1, SlotsStutter
<1>39. ASSUME NEW w \in Workers, PickupFails(w) PROVE Slots!Next \/ UNCHANGED slotvars
  <2>1. SlotTask' = SlotTask
    BY <1>0, <1>39 DEF PickupFails, SlotTask, NoPickup
  <2> QED
    BY <1>39, <2>1 DEF PickupFails, SlotMode, slotvars
<1>40. ASSUME NEW w \in Workers, ReleaseFails(w) PROVE Slots!Next \/ UNCHANGED slotvars
  <2>1. SlotMode' = SlotMode
    BY <1>0, <1>40 DEF ReleaseFails, SlotMode
  <2> QED
    BY <1>40, <2>1 DEF ReleaseFails, SlotTask, slotvars
<1>38. CASE UNCHANGED vars
  BY <1>38, SlotsStutter, SameExecutionsUnchanged DEF vars, SlotVars, procVars
<1>41. CASE Routine
  BY <1>1, <1>5, <1>6, <1>7, <1>8, <1>9, <1>10, <1>11, <1>12, <1>13, <1>14,
     <1>16, <1>17, <1>18, <1>19, <1>21, <1>22, <1>23, <1>24, <1>25, <1>26,
     <1>27, <1>28, <1>29, <1>30, <1>31, <1>32, <1>34, <1>36, <1>37, <1>41
     DEF Routine
<1>42. CASE Disturbance
  BY <1>2, <1>3, <1>4, <1>7, <1>15, <1>19, <1>20, <1>33, <1>35, <1>39, <1>40,
     <1>42 DEF Disturbance
<1> QED
  BY <1>38, <1>41, <1>42 DEF Next

\* The queue implements the promise of its workers.
THEOREM QueueImplementsSlots == Spec => ImplementsSlots
<1>1. TypeOK /\ SlotsAgree /\ [Next]_vars => [Slots!Next]_slotvars
  BY SlotsSimulate
<1>2. Spec => [](TypeOK /\ SlotsAgree)
  BY TypeCorrect, SlotsAlwaysAgree, PTL
<1> QED
  BY <1>1, <1>2, SlotsInitially, PTL DEF Spec, ImplementsSlots, Slots!Spec, slotvars
=============================================================================
