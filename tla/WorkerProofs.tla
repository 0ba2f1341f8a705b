---------------------------- MODULE WorkerProofs ----------------------------
(***************************************************************************)
(* The worker around the executor: the act mutex, the pg-boss consumer,    *)
(* the registry of processes; and the task handlers, with their page       *)
(* loops, Workday's walk through its sites, the sign-in, the scan of a     *)
(* page, and the ways to fill it.                                          *)
(***************************************************************************)
EXTENDS ActMutex, PgBossConsumer, WorkerRegistry, SmartApply, WorkdayApply, WorkdaySite,
        SignIn, FillPage, FieldScan, ScanFill, FiniteSetTheorems, TLAPS

-----------------------------------------------------------------------------
(* OneHandOnThePage for any number of calls.  The inductive invariant says *)
(* that the mutex knows of the one act() that may still run in the page:   *)
(* it is the pending one, and while the caller is in exec() there is none, *)
(* and nothing is pending on a mutex that looks open.                      *)

\* The only act() that may still run is the pending one.
PendingIsKnown == running \subseteq {mutex.pendingAct} \ {0}

\* A mutex that refuses nobody has nothing pending.
OpenIsFree == ~mutex.poisoned /\ ~mutex.actInFlight => mutex.pendingAct = 0

\* What each place of the caller says of the mutex.
CallerKnows ==
  /\ caller \in {"acting", "syncing"} => ~mutex.poisoned
  /\ caller = "acting" => mutex.actInFlight
  /\ caller = "syncing" => running = {}
  /\ caller = "acquiring" => mutex.poisoned
  /\ caller = "execing" => mutex = Open
  /\ caller \in {"idle", "acquiring", "refreshing"} /\ mutex.actInFlight => mutex.poisoned

AInv == ActTypeOK /\ PendingIsKnown /\ OpenIsFree /\ CallerKnows

\* At first the mutex is open and nothing runs.
LEMMA InitAInv == ActInit => AInv
<1>. SUFFICES ASSUME ActInit PROVE AInv
  OBVIOUS
<1>1. ActTypeOK
  BY MaxActsAssumption DEF ActInit, ActTypeOK, Open, Acts
<1>2. PendingIsKnown /\ OpenIsFree
  BY DEF ActInit, PendingIsKnown, OpenIsFree, Open
<1>3. CallerKnows
  BY DEF ActInit, CallerKnows, Open
<1>. QED
  BY <1>1, <1>2, <1>3 DEF AInv

\* A new act() is called only when none is left.
LEMMA TakeHandKeeps ==
  ASSUME ActTypeOK, running = {}, TakeHand
  PROVE  AInv'
<1>1. started' \in 1..MaxActs /\ started' # 0
  BY MaxActsAssumption DEF TakeHand, ActTypeOK
<1>2. /\ mutex' = [actInFlight |-> TRUE, poisoned |-> FALSE, pendingAct |-> started']
      /\ caller' = "acting" /\ running' = {started'}
  BY DEF TakeHand, Open
<1>3. ActTypeOK'
  BY <1>1, <1>2, MaxActsAssumption DEF ActTypeOK, Acts
<1>4. PendingIsKnown' /\ OpenIsFree' /\ CallerKnows'
  BY <1>1, <1>2 DEF PendingIsKnown, OpenIsFree, CallerKnows
<1>. QED
  BY <1>3, <1>4 DEF AInv

\* What a return releases is settled.
LEMMA ReleaseKeeps ==
  ASSUME AInv, NEW next \in {"idle", "syncing"}, running = {}, ~mutex.poisoned, Release(next)
  PROVE  AInv'
<1>1. mutex' = Open /\ caller' = next /\ started' = started /\ running' = {}
  BY DEF Release, Open, AInv, ActTypeOK
<1>2. ActTypeOK'
  BY <1>1, MaxActsAssumption DEF AInv, ActTypeOK, Open
<1>3. PendingIsKnown' /\ OpenIsFree' /\ CallerKnows'
  BY <1>1 DEF PendingIsKnown, OpenIsFree, CallerKnows, Open
<1>. QED
  BY <1>2, <1>3 DEF AInv

\* A timeout keeps what is pending, behind the poison.
LEMMA PoisonKeeps ==
  ASSUME AInv, mutex' = [mutex EXCEPT !.poisoned = TRUE], caller' = "idle",
         UNCHANGED <<started, running>>
  PROVE  AInv'
<1>1. /\ mutex' = [actInFlight |-> mutex.actInFlight, poisoned |-> TRUE,
                   pendingAct |-> mutex.pendingAct]
      /\ started' = started /\ running' = running
  BY DEF AInv, ActTypeOK
<1>2. ActTypeOK'
  BY <1>1 DEF AInv, ActTypeOK
<1>3. PendingIsKnown' /\ OpenIsFree' /\ CallerKnows'
  BY <1>1 DEF AInv, PendingIsKnown, OpenIsFree, CallerKnows
<1>. QED
  BY <1>2, <1>3 DEF AInv

\* If the pending act() has settled, nothing runs.
LEMMA SettledIsFree ==
  ASSUME AInv, Settled
  PROVE  running = {}
BY DEF AInv, PendingIsKnown, Settled

\* Every step keeps AInv.
LEMMA NextKeepsAInv == AInv /\ [ActNext]_actVars => AInv'
<1>. SUFFICES ASSUME AInv, [ActNext]_actVars PROVE AInv'
  OBVIOUS
<1>1. CASE ActAtOnce
  <2>1. running = {}
    BY <1>1 DEF ActAtOnce, AInv, PendingIsKnown, OpenIsFree
  <2>. QED
    BY <1>1, <2>1, TakeHandKeeps DEF ActAtOnce, AInv
<1>2. CASE ActAfterPoison
  BY <1>2 DEF ActAfterPoison, AInv, ActTypeOK, PendingIsKnown, OpenIsFree, CallerKnows
<1>3. CASE Exec
  BY <1>3 DEF Exec, AInv, ActTypeOK, PendingIsKnown, OpenIsFree, CallerKnows
<1>4. CASE AcquireSettled
  BY <1>4, SettledIsFree, TakeHandKeeps DEF AcquireSettled, AInv
<1>5. CASE AcquireBusy
  BY <1>5 DEF AcquireBusy, AInv, ActTypeOK, PendingIsKnown, OpenIsFree, CallerKnows
<1>6. CASE ActReturns
  <2>1. running = {} /\ ~mutex.poisoned
    BY <1>6, SettledIsFree DEF ActReturns, AInv, CallerKnows
  <2>. QED
    BY <1>6, <2>1, ReleaseKeeps DEF ActReturns
<1>7. CASE ActTimesOut
  BY <1>7, PoisonKeeps DEF ActTimesOut
<1>8. CASE SyncReturns
  <2>1. running = {} /\ ~mutex.poisoned
    BY <1>8 DEF SyncReturns, AInv, CallerKnows
  <2>2. CASE Release("idle")
    BY <2>1, <2>2, ReleaseKeeps
  <2>. QED
    BY <1>8, <2>2, PoisonKeeps DEF SyncReturns
<1>9. CASE Refresh
  <2>1. started' = started /\ running' = running
    BY <1>9 DEF Refresh
  <2>2. CASE mutex.poisoned /\ mutex.pendingAct # 0 /\ Settled
    <3>1. mutex' = Open /\ caller' = "execing" /\ running = {}
      BY <1>9, <2>2, SettledIsFree DEF Refresh, Open
    <3>2. ActTypeOK'
      BY <2>1, <3>1, MaxActsAssumption DEF AInv, ActTypeOK, Open
    <3>3. PendingIsKnown' /\ OpenIsFree' /\ CallerKnows'
      BY <2>1, <3>1 DEF PendingIsKnown, OpenIsFree, CallerKnows, Open
    <3>. QED
      BY <3>2, <3>3 DEF AInv
  <2>3. CASE ~(mutex.poisoned /\ mutex.pendingAct # 0 /\ Settled)
    <3>1. /\ mutex' = mutex
          /\ caller' = IF mutex.poisoned \/ mutex.actInFlight THEN "idle" ELSE "execing"
      BY <1>9, <2>3 DEF Refresh
    <3>2. caller' = "execing" => mutex = Open
      BY <3>1 DEF AInv, ActTypeOK, OpenIsFree, Open
    <3>. QED
      BY <1>9, <2>1, <3>1, <3>2
      DEF Refresh, AInv, ActTypeOK, PendingIsKnown, OpenIsFree, CallerKnows, Open
  <2>. QED
    BY <2>2, <2>3
<1>10. CASE ExecReturns
  <2>1. mutex = Open
    BY <1>10 DEF ExecReturns, AInv, CallerKnows
  <2>. QED
    BY <1>10, <2>1 DEF ExecReturns, AInv, ActTypeOK, PendingIsKnown, OpenIsFree, CallerKnows, Open
<1>11. ASSUME NEW a \in Acts, ActSettles(a) PROVE AInv'
  BY <1>11 DEF ActSettles, AInv, ActTypeOK, PendingIsKnown, OpenIsFree, CallerKnows, Open
<1>12. CASE UNCHANGED actVars
  BY <1>12 DEF actVars, AInv, ActTypeOK, PendingIsKnown, OpenIsFree, CallerKnows, Open
<1>. QED
  BY <1>1, <1>2, <1>3, <1>4, <1>5, <1>6, <1>7, <1>8, <1>9, <1>10, <1>11, <1>12
  DEF ActNext, Awaits

\* AInv holds in every reachable state.
LEMMA AInvHolds == ActSpec => []AInv
BY InitAInv, NextKeepsAInv, PTL DEF ActSpec

\* Every reachable state of the mutex and its caller has its types.
THEOREM ActTypes == ActSpec => []ActTypeOK
<1>1. AInv => ActTypeOK
  BY DEF AInv
<1>. QED
  BY <1>1, AInvHolds, PTL

\* However many calls are made and however they end, by a return, a timeout, the SDK's
\* own error or a soft failure, no act() or exec() begins beside one that still runs.
THEOREM PageHasOneHand == ActSpec => []OneHandOnThePage
<1>1. AInv => OneHandOnThePage
  BY DEF AInv, PendingIsKnown, CallerKnows, Open, OneHandOnThePage
<1>. QED
  BY <1>1, AInvHolds, PTL

-----------------------------------------------------------------------------
(* ExecutorIsAlone and QueuedHasMessage for any jobs and any number of     *)
(* messages.  A row that waits has its message because a message that goes *)
(* round takes its place in one step, a row is queued only when it is new, *)
(* and what the executor holds is queued no more.                          *)

Live(m) == message[m].at \notin {"unsent", "done"}

\* Messages are numbered as they are sent, and belong to rows that are there.
SentInOrder ==
  \A m \in Messages : /\ message[m].at = "unsent" <=> m > sent
                      /\ message[m].at # "unsent" => entry[JobOf(m)] # "none"

\* A row has one message on its way at most.
OneOnItsWay == \A m, n \in Messages : Live(m) /\ Live(n) /\ JobOf(m) = JobOf(n) => m = n

\* A row that waits has one, or a call for it has failed.
WaitingHasOne ==
  \A j \in BossJobs : entry[j] = "queued" /\ j \notin forsaken =>
    \E m \in Messages : Live(m) /\ JobOf(m) = j

\* What is being executed waits no more.
ExecutingIsTaken == \A m \in Messages : message[m].at = "executing" => entry[JobOf(m)] # "queued"

BInv == /\ BossTypeOK /\ ExecutorIsAlone
        /\ SentInOrder /\ OneOnItsWay /\ WaitingHasOne /\ ExecutingIsTaken

-----------------------------------------------------------------------------
Statuses == {"none", "pending", "queued", "running", "completed", "failed", "cancelled"}
BossPlaces == {"unsent", "queued", "lookup", "busy", "resend", "executing", "done"}
Message == [job : BossJobs, queue : Queues, at : BossPlaces]

\* The types, in the names used here.
LEMMA BossRowTypes ==
  BossTypeOK <=> /\ entry \in [BossJobs -> Statuses] /\ message \in [Messages -> Message]
                 /\ sent \in 0..MaxSends /\ processing \in 0..MaxSends
                 /\ consuming \in BOOLEAN /\ forsaken \subseteq BossJobs
BY DEF BossTypeOK, Statuses, Message, BossPlaces

\* The guard names the one message at work.
Working(m) == message[m].at \in {"lookup", "executing"}

\* So it does in a state,
LEMMA RunsAlone ==
  ASSUME processing \in 0..MaxSends
  PROVE  ExecutorIsAlone <=> \A m \in Messages : Working(m) <=> m = processing
BY BossAssumption DEF ExecutorIsAlone, At, Working, Messages

\* and in the next one.
LEMMA AloneNext ==
  ASSUME processing' \in 0..MaxSends, \A m \in Messages : Working(m)' <=> m = processing'
  PROVE  ExecutorIsAlone'
BY BossAssumption DEF ExecutorIsAlone, At, Working, Messages

\* Nothing has been sent.
LEMMA InitBInv == BossInit => BInv
<1>. SUFFICES ASSUME BossInit PROVE BInv
  OBVIOUS
<1>1. NoMessage \in Message /\ NoMessage.at = "unsent"
  BY BossAssumption DEF NoMessage, Message, Queues, BossPlaces
<1>2. \A m \in Messages : message[m] \in Message /\ message[m].at = "unsent"
  BY <1>1 DEF BossInit
<1>3. BossTypeOK
  <2>1. message \in [Messages -> Message]
    BY <1>1 DEF BossInit
  <2>. QED
    BY <2>1, BossRowTypes, BossAssumption DEF BossInit, Statuses
<1>4. ExecutorIsAlone
  BY <1>2 DEF BossInit, ExecutorIsAlone, At
<1>5. SentInOrder
  BY <1>2, BossAssumption DEF BossInit, SentInOrder, Messages
<1>6. OneOnItsWay /\ WaitingHasOne /\ ExecutingIsTaken
  BY <1>2 DEF BossInit, OneOnItsWay, WaitingHasOne, ExecutingIsTaken, Live
<1>. QED
  BY <1>3, <1>4, <1>5, <1>6 DEF BInv

\* A message that changes its place, and perhaps the row of its job.
LEMMA MoveKeeps ==
  ASSUME BInv, NEW m \in Messages, NEW place \in BossPlaces \ {"unsent"}, NEW s \in Statuses \ {"none"},
         Live(m), Move(m, place), entry' = [entry EXCEPT ![JobOf(m)] = s],
         sent' = sent, consuming' = consuming,
         forsaken \subseteq forsaken', forsaken' \subseteq BossJobs,
         processing' = IF place \in {"lookup", "executing"} THEN m
                       ELSE IF Working(m) THEN 0 ELSE processing,
         place \in {"lookup", "executing"} => processing \in {0, m},
         place = "done" /\ s = "queued" => JobOf(m) \in forsaken',
         s = "queued" => entry[JobOf(m)] = "queued" /\ place # "executing"
  PROVE  BInv'
<1>. USE DEF BInv
<1>1. /\ message \in [Messages -> Message] /\ entry \in [BossJobs -> Statuses]
      /\ message[m] \in Message /\ JobOf(m) \in BossJobs
  BY BossRowTypes DEF Message, JobOf
<1>2. /\ message' = [message EXCEPT ![m] = [message[m] EXCEPT !.at = place]]
      /\ [message[m] EXCEPT !.at = place] \in Message
  BY <1>1 DEF Move, Message
<1>3. /\ \A n \in Messages : JobOf(n)' = JobOf(n)
      /\ \A n \in Messages \ {m} : message'[n] = message[n]
      /\ message'[m].at = place
  BY <1>1, <1>2 DEF JobOf, Message
<1>4. BossTypeOK' /\ ExecutorIsAlone'
  <2>1. /\ processing' \in 0..MaxSends /\ m # 0
        /\ entry' \in [BossJobs -> Statuses] /\ message' \in [Messages -> Message]
        /\ sent' \in 0..MaxSends /\ consuming' \in BOOLEAN
    BY <1>1, <1>2, BossRowTypes, BossAssumption DEF Messages
  <2>2. \A n \in Messages : Working(n)' <=> n = processing'
    <3>1. \A n \in Messages : Working(n) <=> n = processing
      BY RunsAlone, BossRowTypes
    <3>2. \A n \in Messages \ {m} : Working(n)' <=> Working(n)
      BY <1>3 DEF Working
    <3>3. Working(m)' <=> place \in {"lookup", "executing"}
      BY <1>3 DEF Working
    <3>4. 0 \notin Messages
      BY DEF Messages
    <3>. QED
      BY <3>1, <3>2, <3>3, <3>4
  <2>. QED
    BY <2>1, <2>2, AloneNext DEF BossTypeOK, Statuses, Message, BossPlaces
<1>5. SentInOrder'
  BY <1>1, <1>3 DEF SentInOrder, Live
<1>6. OneOnItsWay'
  BY <1>3 DEF OneOnItsWay, Live
<1>7. WaitingHasOne'
  <2>. SUFFICES ASSUME NEW j \in BossJobs, entry'[j] = "queued", j \notin forsaken'
                PROVE  \E n \in Messages : Live(n)' /\ JobOf(n)' = j
    BY DEF WaitingHasOne
  <2>1. entry[j] = "queued" /\ j \notin forsaken
    BY <1>1
  <2>2. PICK n \in Messages : Live(n) /\ JobOf(n) = j
    BY <2>1 DEF WaitingHasOne
  <2>3. CASE n = m
    BY <1>1, <1>3, <2>2, <2>3 DEF Live
  <2>4. CASE n # m
    BY <1>3, <2>2, <2>4 DEF Live
  <2>. QED
    BY <2>3, <2>4
<1>8. ExecutingIsTaken'
  <2>. SUFFICES ASSUME NEW n \in Messages, message'[n].at = "executing"
                PROVE  entry'[JobOf(n)] # "queued"
    BY <1>3 DEF ExecutingIsTaken
  <2>1. CASE n = m
    BY <1>1, <1>3, <2>1
  <2>2. CASE n # m
    <3>1. message[n].at = "executing" /\ JobOf(n) \in BossJobs
      BY <1>1, <1>3, <2>2 DEF Message, JobOf
    <3>. QED
      BY <1>1, <3>1 DEF ExecutingIsTaken
  <2>. QED
    BY <2>1, <2>2
<1>. QED
  BY <1>4, <1>5, <1>6, <1>7, <1>8

\* Every step of a handler but Resend moves its message.
LEMMA HandleKeeps ==
  ASSUME BInv, NEW m \in Messages,
         Take(m) \/ TakeBusy(m) \/ CheckBusy(m) \/ ExecuteBossJob(m) \/ LookupFails(m) \/ ExecutionEnds(m)
  PROVE  BInv'
<1>1. /\ JobOf(m) \in BossJobs /\ entry \in [BossJobs -> Statuses]
      /\ entry = [entry EXCEPT ![JobOf(m)] = entry[JobOf(m)]]
      /\ forsaken \subseteq BossJobs /\ processing \in 0..MaxSends
  BY BossRowTypes DEF BInv, Message, JobOf
<1>2. message[m].at # "unsent" => entry[JobOf(m)] \in Statuses \ {"none"}
  BY <1>1 DEF BInv, SentInOrder
<1>3. Working(m) <=> m = processing
  BY <1>1, RunsAlone DEF BInv
<1>4. m # 0
  BY DEF Messages
<1>5. CASE Take(m)
  BY <1>1, <1>2, <1>5, MoveKeeps DEF Take, Offered, Live, BossPlaces
<1>6. CASE TakeBusy(m)
  BY <1>1, <1>2, <1>6, MoveKeeps DEF TakeBusy, Offered, Live, BossPlaces, Working
<1>7. CASE CheckBusy(m)
  <2>1. Live(m) /\ ~Working(m) /\ entry[JobOf(m)] \in Statuses \ {"none"}
    BY <1>2, <1>7 DEF CheckBusy, Live, Working
  <2>2. CASE Move(m, "resend")
    BY <1>1, <1>7, <2>1, <2>2, MoveKeeps DEF CheckBusy, BossPlaces
  <2>3. CASE entry[JobOf(m)] \notin Claimable /\ Move(m, "done")
    BY <1>1, <1>7, <2>1, <2>3, MoveKeeps DEF CheckBusy, BossPlaces, Claimable
  <2>. QED
    BY <1>7, <2>2, <2>3 DEF CheckBusy
<1>8. CASE ExecuteBossJob(m)
  <2>1. Live(m) /\ Working(m)
    BY <1>8 DEF ExecuteBossJob, Live, Working
  <2>2. /\ Move(m, "executing") /\ entry' = [entry EXCEPT ![JobOf(m)] = "running"]
        /\ UNCHANGED <<sent, processing, consuming, forsaken>>
    BY <1>8 DEF ExecuteBossJob
  <2>. QED
    BY <1>1, <1>3, <2>1, <2>2, MoveKeeps DEF BossPlaces, Statuses
<1>9. CASE LookupFails(m)
  <2>1. Live(m) /\ Working(m) /\ entry[JobOf(m)] \in Statuses \ {"none"}
    BY <1>2, <1>9 DEF LookupFails, Live, Working
  <2>2. /\ Move(m, "done") /\ processing' = 0 /\ forsaken' = forsaken \cup {JobOf(m)}
        /\ UNCHANGED <<entry, sent, consuming>>
    BY <1>9 DEF LookupFails
  <2>. HIDE DEF JobOf, Live, Working
  <2>. DEFINE s == entry[JobOf(m)]
  <2>3. s = "queued" => entry[JobOf(m)] = "queued"
    OBVIOUS
  <2>. QED
    BY <1>1, <1>3, <2>1, <2>2, <2>3, MoveKeeps DEF BossPlaces
<1>10. CASE ExecutionEnds(m)
  <2>1. Live(m) /\ Working(m) /\ entry[JobOf(m)] \in Statuses \ {"none", "queued"}
    BY <1>1, <1>2, <1>10 DEF ExecutionEnds, Live, Working, BInv, ExecutingIsTaken
  <2>2. PICK s \in {"completed", "failed", "pending", entry[JobOf(m)]} :
          /\ entry' = [entry EXCEPT ![JobOf(m)] = s]
          /\ forsaken' = forsaken \cup (IF s = "pending" THEN {JobOf(m)} ELSE {})
    BY <1>10 DEF ExecutionEnds
  <2>3. /\ s \in Statuses \ {"none"} /\ s # "queued"
        /\ forsaken \subseteq forsaken' /\ forsaken' \subseteq BossJobs
        /\ Move(m, "done") /\ processing' = 0 /\ UNCHANGED <<sent, consuming>>
    BY <1>1, <1>10, <2>1, <2>2 DEF ExecutionEnds, Statuses
  <2>. QED
    BY <1>1, <1>3, <2>1, <2>2, <2>3, MoveKeeps DEF BossPlaces
<1>. QED
  BY <1>5, <1>6, <1>7, <1>8, <1>9, <1>10

\* A message that is new, or takes the place of one that is done with, is the only one of
\* its job.
LEMMA SendKeeps ==
  ASSUME BInv, NEW k \in Messages, k = sent + 1, sent' = k,
         message' \in [Messages -> Message], message'[k].at = "queued",
         \A n \in Messages \ {k} :
           /\ message'[n].job = message[n].job
           /\ \/ message'[n].at = message[n].at
              \/ message[n].at = "resend" /\ message'[n].at = "done"
                 /\ message'[k].job = message[n].job,
         \A n \in Messages \ {k} : message'[n].job = message'[k].job => ~Live(n)',
         entry' \in [BossJobs -> Statuses], entry'[message'[k].job] # "none",
         \A j \in BossJobs : j # message'[k].job => entry'[j] = entry[j],
         UNCHANGED <<processing, consuming, forsaken>>
  PROVE  BInv'
<1>. USE DEF BInv
<1>1. /\ message \in [Messages -> Message] /\ entry \in [BossJobs -> Statuses]
      /\ sent \in 0..MaxSends /\ processing \in 0..MaxSends /\ consuming \in BOOLEAN
      /\ forsaken \subseteq BossJobs
  BY BossRowTypes
<1>2. k \in 1..MaxSends /\ MaxSends \in Nat
  BY BossAssumption DEF Messages
<1>3. message[k].at = "unsent"
  BY <1>1, <1>2 DEF SentInOrder
<1>4. \A n \in Messages : message'[n].job \in BossJobs /\ message[n].job \in BossJobs
  BY <1>1 DEF Message
<1>5. BossTypeOK'
  BY <1>1, <1>2 DEF BossTypeOK, Statuses, Message, BossPlaces
<1>6. ExecutorIsAlone'
  <2>1. \A n \in Messages : Working(n) <=> n = processing
    BY <1>1, RunsAlone
  <2>2. \A n \in Messages : Working(n)' <=> Working(n)
    BY <1>3 DEF Working
  <2>. QED
    BY <1>1, <2>1, <2>2, AloneNext
<1>7. SentInOrder'
  <2>. SUFFICES ASSUME NEW n \in Messages
                PROVE  /\ message'[n].at = "unsent" <=> n > k
                       /\ message'[n].at # "unsent" => entry'[message'[n].job] # "none"
    BY DEF SentInOrder, JobOf
  <2>1. CASE n = k
    BY <1>2, <2>1
  <2>2. CASE n # k
    <3>1. message'[n].at = "unsent" <=> message[n].at = "unsent"
      BY <2>2
    <3>2. message[n].at = "unsent" <=> n > sent
      BY DEF SentInOrder
    <3>3. n > sent <=> n > k
      BY <1>1, <2>2 DEF Messages
    <3>4. message[n].at # "unsent" => entry[message[n].job] # "none"
      BY DEF SentInOrder, JobOf
    <3>. QED
      BY <1>4, <2>2, <3>1, <3>2, <3>3, <3>4
  <2>. QED
    BY <2>1, <2>2
<1>8. OneOnItsWay'
  <2>. SUFFICES ASSUME NEW m \in Messages, NEW n \in Messages,
                       Live(m)', Live(n)', message'[m].job = message'[n].job
                PROVE  m = n
    BY DEF OneOnItsWay, JobOf
  <2>1. CASE m = k \/ n = k
    BY <2>1
  <2>2. CASE m # k /\ n # k
    <3>1. Live(m) /\ Live(n) /\ message[m].job = message[n].job
      BY <2>2 DEF Live
    <3>. QED
      BY <3>1 DEF OneOnItsWay, JobOf
  <2>. QED
    BY <2>1, <2>2
<1>9. WaitingHasOne'
  <2>. SUFFICES ASSUME NEW j \in BossJobs, entry'[j] = "queued", j \notin forsaken
                PROVE  \E n \in Messages : Live(n)' /\ message'[n].job = j
    BY DEF WaitingHasOne, JobOf
  <2>1. CASE j = message'[k].job
    BY <2>1 DEF Live
  <2>2. CASE j # message'[k].job
    <3>1. PICK n \in Messages : Live(n) /\ message[n].job = j
      BY <2>2 DEF WaitingHasOne, JobOf
    <3>2. n # k
      BY <1>3, <3>1 DEF Live
    <3>. QED
      BY <2>2, <3>1, <3>2 DEF Live
  <2>. QED
    BY <2>1, <2>2
<1>10. ExecutingIsTaken'
  <2>. SUFFICES ASSUME NEW n \in Messages, message'[n].at = "executing"
                PROVE  entry'[message'[n].job] # "queued"
    BY DEF ExecutingIsTaken, JobOf
  <2>1. n # k /\ message[n].at = "executing" /\ message'[n].job # message'[k].job
    BY DEF Live
  <2>2. entry[message[n].job] # "queued"
    BY <2>1 DEF ExecutingIsTaken, JobOf
  <2>. QED
    BY <1>4, <2>1, <2>2
<1>. QED
  BY <1>5, <1>6, <1>7, <1>8, <1>9, <1>10

\* VALET's new job.
LEMMA BossSubmitKeeps ==
  ASSUME BInv, NEW j \in BossJobs, NEW q \in Queues, Submit(j, q)
  PROVE  BInv'
<1>1. /\ message \in [Messages -> Message] /\ entry \in [BossJobs -> Statuses]
      /\ sent \in 0..MaxSends /\ sent < MaxSends /\ MaxSends \in Nat
  BY BossRowTypes, BossAssumption DEF BInv, Submit
<1>. DEFINE k == sent + 1
            new == [job |-> j, queue |-> q, at |-> "queued"]
<1>2. k \in Messages /\ sent' = k /\ new \in Message /\ new.job = j /\ new.at = "queued"
  BY <1>1 DEF Submit, Messages, Message, BossPlaces
<1>3. /\ message' = [message EXCEPT ![k] = new] /\ entry' = [entry EXCEPT ![j] = "queued"]
      /\ UNCHANGED <<processing, consuming, forsaken>> /\ entry[j] = "none"
  BY <1>2 DEF Submit
<1>. HIDE DEF new
<1>4. /\ message' \in [Messages -> Message] /\ message'[k] = new
      /\ \A n \in Messages \ {k} : message'[n] = message[n]
  BY <1>1, <1>2, <1>3
<1>5. ASSUME NEW n \in Messages \ {k}, message'[n].job = j
      PROVE  ~Live(n)'
  <2>1. message[n].at = "unsent"
    BY <1>3, <1>4, <1>5 DEF BInv, SentInOrder, JobOf
  <2>. QED
    BY <1>4, <2>1 DEF Live
<1>6. /\ entry' \in [BossJobs -> Statuses] /\ entry'[j] # "none"
      /\ \A i \in BossJobs : i # j => entry'[i] = entry[i]
  BY <1>1, <1>3 DEF Statuses
<1>. HIDE DEF k
<1>. QED
  BY <1>2, <1>3, <1>4, <1>5, <1>6, SendKeeps DEF k

\* A message that came at a bad time.
LEMMA ResendKeeps ==
  ASSUME BInv, NEW m \in Messages, Resend(m)
  PROVE  BInv'
<1>1. /\ message \in [Messages -> Message] /\ entry \in [BossJobs -> Statuses]
      /\ sent \in 0..MaxSends /\ sent < MaxSends /\ MaxSends \in Nat
      /\ forsaken \subseteq BossJobs /\ message[m] \in Message /\ JobOf(m) \in BossJobs
      /\ processing \in 0..MaxSends
  BY BossRowTypes, BossAssumption DEF BInv, Resend, Message, JobOf
<1>2. /\ message[m].at = "resend" /\ Live(m) /\ ~Working(m)
      /\ entry[JobOf(m)] \in Statuses \ {"none"}
  BY <1>1 DEF Resend, Live, Working, BInv, SentInOrder
<1>3. UNCHANGED <<entry, processing, consuming>>
  BY DEF Resend
<1>4. CASE Move(m, "done") /\ forsaken' = forsaken \cup {JobOf(m)} /\ UNCHANGED sent
  <2>1. entry' = [entry EXCEPT ![JobOf(m)] = entry[JobOf(m)]]
    BY <1>1, <1>3
  <2>. QED
    BY <1>1, <1>2, <1>3, <1>4, <2>1, MoveKeeps DEF BossPlaces
<1>5. CASE /\ sent' = sent + 1
           /\ message' = [message EXCEPT ![m].at = "done",
                                         ![sent'] = [message[m] EXCEPT !.at = "queued"]]
           /\ UNCHANGED forsaken
  <2>. DEFINE k == sent + 1
              new == [message[m] EXCEPT !.at = "queued"]
              old == [message[m] EXCEPT !.at = "done"]
  <2>1. /\ k \in Messages /\ sent' = k /\ new \in Message /\ old \in Message
        /\ new.job = message[m].job /\ new.at = "queued"
        /\ old.job = message[m].job /\ old.at = "done"
    BY <1>1, <1>5 DEF Messages, Message, BossPlaces
  <2>2. k # m
    BY <1>1, <1>2, <2>1 DEF BInv, SentInOrder
  <2>3. /\ message' \in [Messages -> Message] /\ message'[k] = new /\ message'[m] = old
        /\ \A n \in Messages \ {k, m} : message'[n] = message[n]
    BY <1>1, <1>5, <2>1, <2>2
  <2>. HIDE DEF new, old
  <2>4. \A n \in Messages \ {k} :
           /\ message'[n].job = message[n].job
           /\ \/ message'[n].at = message[n].at
              \/ message[n].at = "resend" /\ message'[n].at = "done"
                 /\ message'[k].job = message[n].job
    BY <1>2, <2>1, <2>3
  <2>5. ASSUME NEW n \in Messages \ {k}, message'[n].job = message'[k].job
        PROVE  ~Live(n)'
    <3>1. CASE n = m
      BY <2>1, <2>3, <3>1 DEF Live
    <3>2. CASE n # m
      <4>1. ~Live(n)
        BY <1>2, <2>1, <2>3, <2>5, <3>2 DEF BInv, OneOnItsWay, JobOf
      <4>. QED
        BY <2>3, <3>2, <4>1 DEF Live
    <3>. QED
      BY <3>1, <3>2
  <2>6. entry' \in [BossJobs -> Statuses] /\ entry'[message'[k].job] # "none"
    BY <1>1, <1>2, <1>3, <2>1, <2>3 DEF JobOf
  <2>. HIDE DEF k
  <2>. QED
    BY <1>3, <1>5, <2>1, <2>3, <2>4, <2>5, <2>6, SendKeeps DEF k
<1>. QED
  BY <1>4, <1>5 DEF Resend

\* The rows that others write: a cancellation, a shutdown.
LEMMA RowsKeep ==
  ASSUME BInv, UNCHANGED <<message, sent, processing>>,
         entry' \in [BossJobs -> Statuses], consuming' \in BOOLEAN,
         forsaken \subseteq forsaken', forsaken' \subseteq BossJobs,
         \A j \in BossJobs : entry'[j] = entry[j] \/ entry'[j] \notin {"none", "queued"}
  PROVE  BInv'
<1>1. message \in [Messages -> Message] /\ \A m \in Messages : JobOf(m) \in BossJobs
  BY BossRowTypes DEF BInv, Message, JobOf
<1>2. BossTypeOK'
  BY DEF BInv, BossTypeOK, Statuses
<1>3. ExecutorIsAlone' /\ OneOnItsWay'
  BY DEF BInv, ExecutorIsAlone, At, OneOnItsWay, Live, JobOf
<1>4. SentInOrder' /\ ExecutingIsTaken'
  BY <1>1 DEF BInv, SentInOrder, ExecutingIsTaken, JobOf
<1>5. WaitingHasOne'
  BY DEF BInv, WaitingHasOne, Live, JobOf
<1>. QED
  BY <1>2, <1>3, <1>4, <1>5 DEF BInv

\* Every step keeps BInv.
LEMMA NextKeepsBInv == BInv /\ [BossNext]_bossVars => BInv'
<1>. SUFFICES ASSUME BInv, [BossNext]_bossVars PROVE BInv'
  OBVIOUS
<1>1. /\ message \in [Messages -> Message] /\ entry \in [BossJobs -> Statuses]
      /\ consuming \in BOOLEAN /\ forsaken \subseteq BossJobs
      /\ \A m \in Messages : JobOf(m) \in BossJobs
  BY BossRowTypes DEF BInv, Message, JobOf
<1>2. ASSUME NEW j \in BossJobs, CancelEntry(j) PROVE BInv'
  BY <1>1, <1>2, RowsKeep DEF CancelEntry, Statuses
<1>3. ASSUME NEW j \in BossJobs, NEW q \in Queues, Submit(j, q) PROVE BInv'
  BY <1>3, BossSubmitKeeps
<1>4. ASSUME NEW m \in Messages, Handle(m) PROVE BInv'
  BY <1>4, HandleKeeps, ResendKeeps DEF Handle
<1>5. CASE ReleaseClaimedJobs
  <2>. DEFINE mine == {JobOf(m) : m \in {n \in At("executing") : entry[JobOf(n)] = "running"}}
  <2>1. /\ entry' = [j \in BossJobs |-> IF j \in mine THEN "pending" ELSE entry[j]]
        /\ forsaken' = forsaken \cup mine /\ consuming' = FALSE
        /\ UNCHANGED <<message, sent, processing>>
    BY <1>5 DEF ReleaseClaimedJobs
  <2>2. mine \subseteq BossJobs
    BY <1>1 DEF At
  <2>. HIDE DEF mine
  <2>3. /\ entry' \in [BossJobs -> Statuses]
        /\ \A j \in BossJobs : entry'[j] = entry[j] \/ entry'[j] \notin {"none", "queued"}
    BY <1>1, <2>1 DEF Statuses
  <2>. QED
    BY <1>1, <2>1, <2>2, <2>3, RowsKeep
<1>6. CASE UNCHANGED bossVars
  BY <1>1, <1>6, RowsKeep DEF bossVars
<1>. QED
  BY <1>2, <1>3, <1>4, <1>5, <1>6 DEF BossNext

\* BInv holds in every reachable state.
LEMMA BInvHolds == BossSpec => []BInv
BY InitBInv, NextKeepsBInv, PTL DEF BossSpec

\* A set of messages that are all the same one has at most one element.
LEMMA OneAtMost ==
  ASSUME NEW S, \A a, b \in S : a = b
  PROVE  Cardinality(S) <= 1
<1>1. CASE S = {}
  BY <1>1, FS_EmptySet
<1>2. ASSUME NEW a \in S PROVE Cardinality(S) <= 1
  <2>1. S = {a}
    OBVIOUS
  <2>. QED
    BY <2>1, FS_Singleton
<1>. QED
  BY <1>1, <1>2

\* Every reachable state of the dispatch has its types.
THEOREM BossTypes == BossSpec => []BossTypeOK
<1>1. BInv => BossTypeOK
  BY DEF BInv
<1>. QED
  BY <1>1, BInvHolds, PTL

\* Two subscriptions deliver at the same time, and however their handlers interleave the
\* executor has one job, the one that the guard names.
THEOREM ExecutorStaysAlone == BossSpec => []ExecutorIsAlone
<1>1. BInv => ExecutorIsAlone
  BY DEF BInv
<1>. QED
  BY <1>1, BInvHolds, PTL

\* However often messages go round while the worker is busy, a row that waits has one
\* message, unless a call for it has failed, and never two.
THEOREM QueuedKeepsMessage == BossSpec => []QueuedHasMessage
<1>1. BInv => QueuedHasMessage
  <2>. SUFFICES ASSUME BInv, NEW j \in BossJobs
                PROVE  LET live == {m \in Messages : JobOf(m) = j /\ message[m].at \notin {"unsent", "done"}}
                       IN  /\ Cardinality(live) <= 1
                           /\ entry[j] = "queued" => live # {} \/ j \in forsaken
    BY DEF QueuedHasMessage
  <2>. DEFINE live == {m \in Messages : JobOf(m) = j /\ message[m].at \notin {"unsent", "done"}}
  <2>1. \A a, b \in live : a = b
    BY DEF BInv, OneOnItsWay, Live
  <2>2. Cardinality(live) <= 1
    <3>. HIDE DEF live
    <3>. QED
      BY <2>1, OneAtMost
  <2>3. entry[j] = "queued" => live # {} \/ j \in forsaken
    BY DEF BInv, WaitingHasOne, Live
  <2>. QED
    BY <2>2, <2>3
<1>. QED
  BY <1>1, BInvHolds, PTL

-----------------------------------------------------------------------------
(* ToldToStop and LeavesTheList for any processes and any ids, shared or   *)
(* not.  The first needs that a process which is not up yet can only have  *)
(* been told so while it started; the second that a process which has      *)
(* deregistered has stopped its heartbeats, and that its row stays offline *)
(* from then on, not only when it is gone.                                 *)

\* What a process was told before it runs, it was told while it started.
ToldInTime == \A p \in Procs : proc[p].pc # "running" => proc[p].told \in {"no", "starting"}

\* Who has deregistered was ready, and beats no more.
LeftIsSilent ==
  \A p \in Procs : proc[p].pc # "gone" /\ proc[p].left # "no" =>
    proc[p].shutdown = "left" /\ proc[p].pc \in {"ready", "running"}

\* LeavesTheList from the deregistration on.
StaysOffline ==
  \A p \in Procs : proc[p].left = "cleanly" /\ OnlyBearer(p) => Mine(p).status = "offline"

RInv == RegistryTypeOK /\ ToldToStop /\ ToldInTime /\ LeftIsSilent /\ StaysOffline

Process ==
  [pc : {"start", "registered", "ready", "running", "gone"}, open : BOOLEAN,
   draining : BOOLEAN, shutdown : {"none", "stuck", "stopping", "left"},
   told : {"no", "starting", "running", "drain"}, left : {"no", "cleanly", "badly"}]
ListRow == [status : {"none", "active", "draining", "offline"}, age : Recent..Silent]

\* Nobody has started, and the list is empty.
LEMMA InitRInv == RegistryInit => RInv
<1>. SUFFICES ASSUME RegistryInit PROVE RInv
  OBVIOUS
<1>1. RegistryTypeOK
  BY DEF RegistryInit, RegistryTypeOK, Unborn, Unlisted, Recent, Silent
<1>2. ToldToStop /\ ToldInTime /\ LeftIsSilent /\ StaysOffline
  BY DEF RegistryInit, ToldToStop, ToldInTime, LeftIsSilent, StaysOffline, Unborn
<1>. QED
  BY <1>1, <1>2 DEF RInv

\* A step of one process p, told by what becomes of p and of the rows: n is the process
\* after the step.
LEMMA ProcessKeeps ==
  ASSUME RInv, NEW p \in Procs, NEW n \in Process, proc[p].pc # "gone",
         proc' = [proc EXCEPT ![p] = n], UNCHANGED <<idOf, dispatch>>,
         registry' \in [WorkerIds -> ListRow],
         n.open => n.told \in {"no", "starting"} \/ (n.told = "drain" /\ dispatch = "queue"),
         n.pc # "running" => n.told \in {"no", "starting"},
         n.pc # "gone" /\ n.left # "no" => n.shutdown = "left" /\ n.pc \in {"ready", "running"},
         \* who ran does not start again, and who no longer starts may write its row
         n.pc = "start" => proc[p].pc = "start",
         n.pc = "start" => registry'[idOf[p]].status = "offline" \/ registry'[idOf[p]] = registry[idOf[p]],
         n.left = "cleanly" =>
           \/ registry'[idOf[p]].status = "offline"
           \/ proc[p].left = "cleanly" /\ registry'[idOf[p]] = registry[idOf[p]],
         \A i \in WorkerIds \ {idOf[p]} :
           registry'[i] = registry[i] \/ registry'[i].status = "offline"
  PROVE  RInv'
<1>. USE DEF RInv
<1>1. /\ proc \in [Procs -> Process] /\ proc' \in [Procs -> Process] /\ proc'[p] = n
      /\ \A q \in Procs \ {p} : proc'[q] = proc[q]
      /\ idOf \in [Procs -> WorkerIds] /\ idOf' = idOf
  BY DEF RegistryTypeOK, Process
<1>2. RegistryTypeOK'
  BY <1>1 DEF RegistryTypeOK, Process, ListRow
<1>3. ToldToStop' /\ ToldInTime'
  BY <1>1 DEF ToldToStop, ToldInTime
<1>4. LeftIsSilent'
  BY <1>1 DEF LeftIsSilent
<1>5. ASSUME NEW q \in Procs, proc'[q].left = "cleanly", OnlyBearer(q)'
      PROVE  registry'[idOf[q]].status = "offline"
  <2>1. \A r \in Procs \ {q} : idOf[r] # idOf[q] \/ proc'[r].pc = "start"
    BY <1>1, <1>5 DEF OnlyBearer, Here
  <2>2. OnlyBearer(q)
    BY <1>1, <2>1 DEF OnlyBearer, Here
  <2>3. CASE q = p
    BY <1>1, <1>5, <2>2, <2>3 DEF StaysOffline, Mine
  <2>4. CASE q # p
    <3>1. registry[idOf[q]].status = "offline"
      BY <1>1, <1>5, <2>2, <2>4 DEF StaysOffline, Mine
    <3>2. idOf[p] # idOf[q] \/ n.pc = "start"
      BY <1>1, <2>1, <2>4
    <3>. QED
      BY <1>1, <3>1, <3>2
  <2>. QED
    BY <2>3, <2>4
<1>6. StaysOffline'
  BY <1>1, <1>5 DEF StaysOffline, Mine
<1>. QED
  BY <1>2, <1>3, <1>4, <1>6

\* What a process takes along when it is gone.
LEMMA GoneIs ==
  ASSUME NEW how \in {"no", "cleanly", "badly"}
  PROVE  /\ [Unborn EXCEPT !.pc = "gone", !.left = how] \in Process
         /\ [Unborn EXCEPT !.pc = "gone", !.left = how].pc = "gone"
         /\ [Unborn EXCEPT !.pc = "gone", !.left = how].open = FALSE
         /\ [Unborn EXCEPT !.pc = "gone", !.left = how].told = "no"
         /\ [Unborn EXCEPT !.pc = "gone", !.left = how].left = how
BY DEF Process, Unborn

\* A process that goes: its rows are not made better for it than they were.
LEMMA GoingKeeps ==
  ASSUME RInv, NEW p \in Procs, NEW how \in {"no", "cleanly", "badly"}, proc[p].pc # "gone",
         Gone(p, how), UNCHANGED <<idOf, dispatch>>,
         registry' \in [WorkerIds -> ListRow],
         how = "cleanly" => proc[p].left = "cleanly" /\ registry'[idOf[p]] = registry[idOf[p]],
         \A i \in WorkerIds \ {idOf[p]} : registry'[i] = registry[i]
  PROVE  RInv'
<1>. DEFINE n == [Unborn EXCEPT !.pc = "gone", !.left = how]
<1>1. /\ n \in Process /\ n.pc = "gone" /\ n.open = FALSE /\ n.told = "no" /\ n.left = how
  BY GoneIs
<1>2. proc' = [proc EXCEPT ![p] = n]
  BY DEF Gone
<1>. HIDE DEF n
<1>. QED
  BY <1>1, <1>2, ProcessKeeps

\* A process and its row, before a step.
LEMMA ProcessIs ==
  ASSUME RInv, NEW p \in Procs
  PROVE  /\ proc[p] \in Process /\ idOf[p] \in WorkerIds
         /\ registry \in [WorkerIds -> ListRow]
         /\ \A s \in {"active", "draining", "offline"} : RowOf(s) \in ListRow /\ RowOf(s).status = s
BY DEF RInv, RegistryTypeOK, Process, ListRow, RowOf, Recent, Silent

\* Every step of a process keeps RInv.
LEMMA ProcKeeps ==
  ASSUME RInv, NEW p \in Procs, ProcStep(p)
  PROVE  RInv'
<1>. USE ProcessIs DEF Fixed
<1>1. CASE Register(p)
  <2>1. proc[p].pc = "start" /\ proc[p].left = "no"
    BY <1>1 DEF Register, Here, RInv, LeftIsSilent, Process
  <2>2. CASE Set(p, RowOf("active")) /\ proc' = [proc EXCEPT ![p].pc = "registered"]
    <3>. DEFINE n == [proc[p] EXCEPT !.pc = "registered"]
    <3>1. /\ n \in Process /\ n.pc = "registered" /\ n.open = proc[p].open
          /\ n.told = proc[p].told /\ n.left = "no"
      BY <2>1 DEF Process
    <3>2. proc' = [proc EXCEPT ![p] = n]
      BY <2>2
    <3>3. /\ registry' \in [WorkerIds -> ListRow]
          /\ \A i \in WorkerIds \ {idOf[p]} : registry'[i] = registry[i]
      BY <2>2 DEF Set
    <3>4. UNCHANGED <<idOf, dispatch>>
      BY <1>1 DEF Register
    <3>5. proc[p].told \in {"no", "starting"}
      BY <2>1 DEF RInv, ToldInTime
    <3>. HIDE DEF n
    <3>. QED
      BY <2>1, <3>1, <3>2, <3>3, <3>4, <3>5, ProcessKeeps
  <2>3. CASE /\ registry' \in {registry, [registry EXCEPT ![idOf[p]] = RowOf("active")]}
             /\ Gone(p, "badly")
    BY <1>1, <2>1, <2>3, GoingKeeps DEF Register
  <2>. QED
    BY <1>1, <2>2, <2>3 DEF Register
<1>2. CASE CleanUp(p)
  <2>. DEFINE n == [proc[p] EXCEPT !.pc = "ready"]
  <2>1. proc[p].pc = "registered" /\ proc[p].left = "no"
    BY <1>2 DEF CleanUp, Here, RInv, LeftIsSilent, Process
  <2>2. /\ n \in Process /\ n.pc = "ready" /\ n.open = proc[p].open
        /\ n.told = proc[p].told /\ n.left = "no"
    BY <2>1 DEF Process
  <2>3. proc' = [proc EXCEPT ![p] = n] /\ UNCHANGED <<idOf, dispatch>>
    BY <1>2 DEF CleanUp
  <2>4. /\ registry' \in [WorkerIds -> ListRow]
        /\ \A i \in WorkerIds \ {idOf[p]} :
             registry'[i] = registry[i] \/ registry'[i].status = "offline"
    BY <1>2 DEF CleanUp
  <2>5. proc[p].told \in {"no", "starting"}
    BY <2>1 DEF RInv, ToldInTime
  <2>. HIDE DEF n
  <2>. QED
    BY <2>1, <2>2, <2>3, <2>4, <2>5, ProcessKeeps
<1>3. CASE StartProcessor(p)
  <2>1. /\ proc[p].pc = "ready" /\ registry' = registry /\ UNCHANGED <<idOf, dispatch>>
        /\ proc[p].told \in {"no", "starting"}
    BY <1>3 DEF StartProcessor, Here, RInv, ToldInTime
  <2>2. ASSUME NEW opens \in BOOLEAN,
               proc' = [proc EXCEPT ![p].pc = "running", ![p].open = opens]
        PROVE  RInv'
    <3>. DEFINE n == [proc[p] EXCEPT !.pc = "running", !.open = opens]
    <3>1. /\ n \in Process /\ n.pc = "running" /\ n.told = proc[p].told
          /\ n.left = proc[p].left /\ n.shutdown = proc[p].shutdown
      BY DEF Process
    <3>2. proc' = [proc EXCEPT ![p] = n]
      BY <2>2
    <3>3. proc[p].left # "no" => proc[p].shutdown = "left"
      BY <2>1 DEF RInv, LeftIsSilent
    <3>. HIDE DEF n
    <3>. QED
      BY <2>1, <3>1, <3>2, <3>3, ProcessKeeps
  <2>3. CASE Gone(p, "badly")
    BY <2>1, <2>3, GoingKeeps
  <2>. QED
    BY <1>3, <2>2, <2>3 DEF StartProcessor
<1>4. CASE Beat(p)
  <2>1. /\ proc' = [proc EXCEPT ![p] = proc[p]] /\ UNCHANGED <<idOf, dispatch>>
        /\ proc[p].pc \in {"ready", "running"} /\ proc[p].shutdown # "left"
    BY <1>4 DEF Beat, Beating, Here, RInv, RegistryTypeOK
  <2>2. /\ registry' \in [WorkerIds -> ListRow]
        /\ \A i \in WorkerIds \ {idOf[p]} :
             registry'[i] = registry[i] \/ registry'[i].status = "offline"
    BY <1>4 DEF Beat
  <2>3. proc[p].left = "no"
    BY <2>1 DEF RInv, LeftIsSilent
  <2>4. /\ proc[p].open => proc[p].told \in {"no", "starting"}
                            \/ (proc[p].told = "drain" /\ dispatch = "queue")
        /\ proc[p].pc # "running" => proc[p].told \in {"no", "starting"}
    BY DEF RInv, ToldToStop, ToldInTime
  <2>. QED
    BY <2>1, <2>2, <2>3, <2>4, ProcessKeeps
<1>5. CASE Drain(p)
  <2>. DEFINE n == [proc[p] EXCEPT !.draining = TRUE, !.open = @ /\ dispatch = "queue",
                                   !.told = IF @ = "no" THEN "drain" ELSE @,
                                   !.left = IF @ = "cleanly" THEN "badly" ELSE @]
  <2>1. /\ proc[p].pc = "running" /\ UNCHANGED <<idOf, dispatch>>
        /\ registry' \in [WorkerIds -> ListRow]
        /\ \A i \in WorkerIds \ {idOf[p]} : registry'[i] = registry[i]
    BY <1>5 DEF Drain, Here, Set, Mine, ListRow
  <2>2. proc' = [proc EXCEPT ![p] = n]
    BY <1>5 DEF Drain, RInv, RegistryTypeOK
  <2>3. /\ n \in Process /\ n.pc = "running" /\ n.shutdown = proc[p].shutdown
        /\ n.open = (proc[p].open /\ dispatch = "queue")
        /\ n.told = (IF proc[p].told = "no" THEN "drain" ELSE proc[p].told)
        /\ n.left # "cleanly" /\ (n.left # "no" => proc[p].left # "no")
    BY <2>1 DEF Process
  <2>4. /\ proc[p].open => proc[p].told \in {"no", "starting"}
                            \/ (proc[p].told = "drain" /\ dispatch = "queue")
        /\ proc[p].left # "no" => proc[p].shutdown = "left"
    BY <2>1 DEF RInv, ToldToStop, LeftIsSilent
  <2>. HIDE DEF n
  <2>. QED
    BY <2>1, <2>2, <2>3, <2>4, ProcessKeeps
<1>6. CASE Signal(p)
  <2>. DEFINE n == [proc[p] EXCEPT
                      !.shutdown = IF Here(p, {"ready", "running"}) THEN "stopping" ELSE "stuck",
                      !.open = FALSE, !.told = Told(p)]
  <2>1. /\ proc[p].pc # "gone" /\ UNCHANGED <<idOf, dispatch>> /\ registry' = registry
        /\ proc[p].shutdown = "none"
    BY <1>6 DEF Signal, ShuttingDown
  <2>2. proc[p].left = "no"
    BY <2>1 DEF RInv, LeftIsSilent
  <2>3. proc' = [proc EXCEPT ![p] = n]
    BY <1>6 DEF Signal
  <2>4. /\ n \in Process /\ n.pc = proc[p].pc /\ n.open = FALSE /\ n.left = "no"
        /\ proc[p].pc # "running" => n.told = "starting"
    BY <2>2 DEF Process, Told, Here
  <2>. HIDE DEF n
  <2>. QED
    BY <2>1, <2>2, <2>3, <2>4, ProcessKeeps
<1>7. CASE DeregisterWorker(p)
  <2>1. /\ proc[p].pc \in {"ready", "running"} /\ UNCHANGED <<idOf, dispatch>>
    BY <1>7 DEF DeregisterWorker, Here
  <2>2. PICK how \in {"cleanly", "badly"} :
          /\ proc' = [proc EXCEPT ![p].shutdown = "left", ![p].left = how]
          /\ registry' = registry \/ Set(p, RowOf("offline"))
          /\ how = "cleanly" => Set(p, RowOf("offline"))
    BY <1>7 DEF DeregisterWorker
  <2>. DEFINE n == [proc[p] EXCEPT !.shutdown = "left", !.left = how]
  <2>3. proc' = [proc EXCEPT ![p] = n]
    BY <2>2
  <2>4. /\ n \in Process /\ n.pc = proc[p].pc /\ n.open = proc[p].open /\ n.told = proc[p].told
        /\ n.shutdown = "left" /\ n.left = how
    BY DEF Process
  <2>5. /\ registry' \in [WorkerIds -> ListRow]
        /\ \A i \in WorkerIds \ {idOf[p]} : registry'[i] = registry[i]
        /\ how = "cleanly" => registry'[idOf[p]].status = "offline"
    BY <2>2 DEF Set
  <2>6. /\ proc[p].open => proc[p].told \in {"no", "starting"}
                            \/ (proc[p].told = "drain" /\ dispatch = "queue")
        /\ proc[p].pc # "running" => proc[p].told \in {"no", "starting"}
    BY DEF RInv, ToldToStop, ToldInTime
  <2>. HIDE DEF n
  <2>. QED
    BY <2>1, <2>3, <2>4, <2>5, <2>6, ProcessKeeps
<1>8. CASE Exit(p)
  <2>1. /\ proc[p].pc # "gone" /\ Gone(p, proc[p].left) /\ registry' = registry
        /\ UNCHANGED <<idOf, dispatch>>
    BY <1>8 DEF Exit, Here
  <2>. QED
    BY <2>1, GoingKeeps DEF Process
<1>9. CASE DieUnlisted(p)
  <2>1. /\ proc[p].pc # "gone" /\ registry' = registry /\ UNCHANGED <<idOf, dispatch>>
        /\ Gone(p, "badly") \/ Gone(p, proc[p].left)
    BY <1>9 DEF DieUnlisted
  <2>. QED
    BY <2>1, GoingKeeps DEF Process
<1>. QED
  BY <1>1, <1>2, <1>3, <1>4, <1>5, <1>6, <1>7, <1>8, <1>9 DEF ProcStep

\* Whoever else writes a row leaves it offline, or its status as it is.
LEMMA OthersKeep ==
  ASSUME RInv, UNCHANGED <<idOf, dispatch, proc>>, registry' \in [WorkerIds -> ListRow],
         \A i \in WorkerIds : registry'[i].status \in {registry[i].status, "offline"}
  PROVE  RInv'
<1>1. RegistryTypeOK' /\ ToldToStop' /\ ToldInTime' /\ LeftIsSilent'
  BY DEF RInv, RegistryTypeOK, ToldToStop, ToldInTime, LeftIsSilent, ListRow
<1>2. \A p \in Procs : idOf[p] \in WorkerIds
  BY DEF RInv, RegistryTypeOK
<1>3. StaysOffline'
  BY <1>2 DEF RInv, StaysOffline, OnlyBearer, Mine, Here
<1>. QED
  BY <1>1, <1>3 DEF RInv

\* Every step keeps RInv.
LEMMA NextKeepsRInv == RInv /\ [RegistryNext]_registryVars => RInv'
<1>. SUFFICES ASSUME RInv, [RegistryNext]_registryVars PROVE RInv'
  OBVIOUS
<1>1. ASSUME NEW p \in Procs, ProcStep(p) PROVE RInv'
  BY <1>1, ProcKeeps
<1>2. ASSUME NEW i \in WorkerIds, DeregisterByValet(i) PROVE RInv'
  <2>1. RowOf("offline") \in ListRow /\ RowOf("offline").status = "offline"
    BY DEF RowOf, ListRow, Recent, Silent
  <2>2. registry \in [WorkerIds -> ListRow]
    BY DEF RInv, RegistryTypeOK, ListRow
  <2>. QED
    BY <1>2, <2>1, <2>2, OthersKeep DEF DeregisterByValet, Fixed
<1>3. CASE Later
  <2>1. registry \in [WorkerIds -> ListRow]
    BY DEF RInv, RegistryTypeOK, ListRow
  <2>2. \A i \in WorkerIds :
          registry'[i] \in ListRow /\ registry'[i].status = registry[i].status
    BY <1>3, <2>1 DEF Later, ListRow, Recent, Silent
  <2>3. registry' \in [WorkerIds -> ListRow]
    BY <1>3, <2>2 DEF Later
  <2>. QED
    BY <1>3, <2>2, <2>3, OthersKeep DEF Later, Fixed
<1>4. CASE UNCHANGED registryVars
  BY <1>4, OthersKeep DEF registryVars, RInv, RegistryTypeOK, ListRow
<1>. QED
  BY <1>1, <1>2, <1>3, <1>4 DEF RegistryNext

\* RInv holds in every reachable state.
LEMMA RInvHolds == RegistrySpec => []RInv
BY InitRInv, NextKeepsRInv, PTL DEF RegistrySpec

\* Every reachable state of the registry and its processes has its types.
THEOREM RegistryTypes == RegistrySpec => []RegistryTypeOK
<1>1. RInv => RegistryTypeOK
  BY DEF RInv
<1>. QED
  BY <1>1, RInvHolds, PTL

\* However many processes share a host and its ids, and wherever a signal or a drain
\* meets them, one that runs and was told to stop takes no more jobs, but for a drain in
\* queue mode and a signal during the start.
THEOREM ToldIsToldToStop == RegistrySpec => []ToldToStop
<1>1. RInv => ToldToStop
  BY DEF RInv
<1>. QED
  BY <1>1, RInvHolds, PTL

\* No heartbeat, sweep or clean-up of any other process lists a worker again that has
\* left in good order and whose id nobody has taken.
THEOREM LeftIsOffTheList == RegistrySpec => []LeavesTheList
<1>1. RInv => LeavesTheList
  BY DEF RInv, StaysOffline, LeavesTheList
<1>. QED
  BY <1>1, RInvHolds, PTL

-----------------------------------------------------------------------------
(* Of the smart handler's loop over pages, for any limits and any number   *)
(* of jobs: it submits an application only by the mistakes that            *)
(* SubmitsOnlyByMistake tells of.  What it takes a page for was detected   *)
(* on the page that its handlers then find.                                *)

\* The handler is at what it has detected, and the page is still that page.
ActsOnWhatItSaw == loop.pc \notin {"look", "over"} => loop.pc \in DetectPage(page)

ApplyInv == ApplyTypeOK /\ ActsOnWhatItSaw /\ SubmitsOnlyByMistake

Submissions == [by : {"nobody", "listing", "login", "signup", "fill"}, page : Pages]

\* At first nobody has submitted.
LEMMA NobodySubmits == Nobody \in Submissions /\ Nobody.by = "nobody"
<1>. DEFINE p == [kind |-> "error", button |-> "none", inputs |-> "none", says |-> "nothing",
                  signIn |-> FALSE, filled |-> TRUE]
<1>1. p \in Pages /\ p.kind = "error"
  BY DEF Pages, SitePagesOf
<1>. HIDE DEF p
<1>2. p \in Of({"error"})
  BY <1>1 DEF Of
<1>3. (CHOOSE q \in Of({"error"}) : TRUE) \in Of({"error"})
  BY <1>2
<1>4. (CHOOSE q \in Of({"error"}) : TRUE) \in Pages
  BY <1>3 DEF Of
<1>. QED
  BY <1>4 DEF Nobody, Submissions

\* A job begins with a look at the page.
LEMMA FreshIsALoop == Fresh \in Loops /\ Fresh.pc = "look"
<1>1. 0 \in 0..MaxFormPages /\ 0 \in 0..MaxSamePage /\ 2 \in 0..2
  BY SmartApplyAssumption
<1>. QED
  BY <1>1 DEF Fresh, Loops, Types

\* What detection takes a page for.
LEMMA DetectsTypes == \A p \in Pages : DetectPage(p) \subseteq Types
<1>. TAKE p \in Pages
<1>1. p.kind \in {"listing", "login", "signup", "form", "review", "code", "challenge", "error", "confirmation"}
  BY DEF Pages, SitePagesOf
<1>2. DetectPageByDOM(p) \in Types \cup {"none"} /\ ClassifyByDOMFallback(p) \in Types
  BY DEF DetectPageByDOM, ClassifyByDOMFallback, Types
<1>3. p.kind # "challenge" => LlmTypes(p) \subseteq Types
  BY <1>1 DEF LlmTypes, Types
<1>. QED
  BY <1>2, <1>3 DEF DetectPage, DetectObviousPage, Types

\* The mistakes of detection, on a page whose button submits the application.
LEMMA MistakenListing ==
  \A p \in Pages :
    Final(p) /\ "job_listing" \in DetectPage(p) => p.button = "apply" /\ p.says # "review"
BY DEF Final, DetectPage, DetectObviousPage, DetectPageByDOM, LlmTypes, ClassifyByDOMFallback, Pages, SitePagesOf

\* A final page is taken for a login, or for a form that makes an account, only if it is a
\* form with a sign-in text, or a short one that the LLM misreads.
Misread(p) == p.kind = "form" /\ p.inputs = "few" /\ ~p.signIn /\ p.button # "apply"
LEMMA MistakenLogin ==
  \A p \in Pages :
    /\ Final(p) /\ "login" \in DetectPage(p) => p.kind = "form" /\ p.signIn
    /\ Final(p) /\ "account_creation" \in DetectPage(p) => Misread(p)
<1>. TAKE p \in Pages
<1>. USE DEF Final, DetectPage, DetectObviousPage, DetectPageByDOM, LlmTypes, ClassifyByDOMFallback, Pages,
             SitePagesOf, Misread
<1>1. CASE p.kind = "review"
  BY <1>1
<1>2. CASE p.kind = "form"
  BY <1>2
<1>. QED
  BY <1>1, <1>2

\* A page that comes up is a page, and a click submits only what is final.
LEMMA ShowsAPage == \A kinds : Show(kinds) => page' \in Pages /\ signature' \in {0, 1}
BY DEF Show, Of

\* A click submits the page it is made on, and only a final one.
LEMMA ClickSubmits ==
  ASSUME page \in Pages, signature \in {0, 1}, submission \in Submissions, SubmitsOnlyByMistake,
         NEW by \in {"listing", "login", "signup", "fill"}, Click(by)
  PROVE  /\ page' \in Pages /\ signature' \in {0, 1} /\ submission' \in Submissions
         /\ \/ UNCHANGED submission
            \/ Final(page) /\ submission' = [by |-> by, page |-> page]
BY ShowsAPage DEF Click, Stay, Submissions

\* The loop has not begun.
LEMMA ApplyStart == ApplyInit => ApplyInv
<1>1. ApplyInit => page \in Pages /\ job \in 1..MaxHandlerJobs
  BY SmartApplyAssumption DEF ApplyInit, Of
<1>. QED
  BY <1>1, NobodySubmits, FreshIsALoop
  DEF ApplyInit, ApplyInv, ApplyTypeOK, ActsOnWhatItSaw, SubmitsOnlyByMistake, Submissions

\* Every step of the loop keeps ApplyInv.
LEMMA ApplyStep == ApplyInv /\ [ApplyNext]_applyVars => ApplyInv'
<1>. SUFFICES ASSUME ApplyInv, [ApplyNext]_applyVars
              PROVE  ApplyInv'
  OBVIOUS
<1>. USE DEF ApplyInv
<1>t. /\ page \in Pages /\ signature \in {0, 1} /\ loop \in Loops /\ loginAttempted \in BOOLEAN
      /\ submission \in Submissions /\ job \in 1..MaxHandlerJobs
  BY DEF ApplyTypeOK, Submissions
<1>v. /\ loop.pc \in Types \cup {"look", "over"} /\ loop.pages \in 0..MaxFormPages
      /\ loop.same \in 0..MaxSamePage /\ loop.last \in 0..2
  BY <1>t DEF Loops
<1>l. ASSUME LoopAt("look") PROVE loop' \in Loops /\ loop'.pc = "look"
  BY <1>l, <1>t DEF LoopAt, Loops
<1>r. ASSUME NEW s \in BOOLEAN, NEW k \in BOOLEAN, NEW a \in BOOLEAN, Return(s, k, a)
      PROVE  loop' \in Loops /\ loop'.pc = "over"
  BY <1>r, <1>t DEF Return, Loops
\* What is left to show of a step that goes on to the next look or ends.
<1>q. ASSUME page' \in Pages, signature' \in {0, 1}, loop' \in Loops, loop'.pc \in {"look", "over"},
             loginAttempted' \in BOOLEAN, job' \in 1..MaxHandlerJobs,
             submission' \in Submissions, SubmitsOnlyByMistake'
      PROVE  ApplyInv'
  BY <1>q DEF ApplyTypeOK, ActsOnWhatItSaw, Submissions
<1>u. UNCHANGED submission => submission' \in Submissions /\ SubmitsOnlyByMistake'
  BY <1>t DEF SubmitsOnlyByMistake
<1>1. CASE Look
  <2>. DEFINE same == IF signature = loop.last THEN loop.same + 1 ELSE 0
  <2>1. CASE same >= MaxSamePage
    <3>1. Return(TRUE, TRUE, TRUE)
      BY <1>1, <2>1 DEF Look
    <3>2. loop' \in Loops /\ loop'.pc = "over"
      BY <3>1, <1>r
    <3>. QED
      BY <1>1, <1>t, <1>q, <1>u, <3>2 DEF Look
  <2>2. CASE ~(same >= MaxSamePage)
    <3>. PICK type \in DetectPage(page) :
           loop' = [loop EXCEPT !.pc = type, !.pages = @ + 1, !.same = same, !.last = signature]
      BY <1>1, <2>2 DEF Look
    <3>1. type \in Types
      BY <1>t, DetectsTypes
    <3>2. same \in 0..MaxSamePage /\ loop.pages + 1 \in 0..MaxFormPages /\ signature \in 0..2
      <4>1. loop.pages + 1 \in 0..MaxFormPages
        <5>1. loop.pages < MaxFormPages
          BY <1>1 DEF Look
        <5>. QED
          BY <1>v, <5>1, SmartApplyAssumption
      <4>2. same \in 0..MaxSamePage
        BY <1>v, <2>2, SmartApplyAssumption
      <4>. QED
        BY <1>t, <4>1, <4>2
    <3>. HIDE DEF same
    <3>3. loop' \in Loops /\ loop'.pc = type
      BY <1>t, <3>1, <3>2 DEF Loops
    <3>. QED
      <4>1. UNCHANGED <<page, signature, loginAttempted, submission, job>>
        BY <1>1 DEF Look
      <4>2. type \in DetectPage(page)'
        BY <4>1 DEF DetectPage, DetectObviousPage
      <4>. QED
        BY <1>t, <1>u, <3>3, <4>1, <4>2 DEF ApplyTypeOK, ActsOnWhatItSaw, Submissions
  <2>. QED
    BY <2>1, <2>2
<1>2. CASE ReachedPageLimit
  BY <1>2, <1>t, <1>q, <1>u, <1>r DEF ReachedPageLimit
<1>3. CASE Throw
  <2>1. (loop.pages > 2) \in BOOLEAN
    OBVIOUS
  <2>2. loop' \in Loops /\ loop'.pc = "over"
    BY <1>3, <1>r, <2>1 DEF Throw
  <2>. QED
    BY <1>3, <1>t, <1>q, <1>u, <2>2 DEF Throw
<1>4. CASE HandleJobListing
  <2>1. /\ page' \in Pages /\ signature' \in {0, 1} /\ submission' \in Submissions
        /\ \/ UNCHANGED submission
           \/ Final(page) /\ submission' = [by |-> "listing", page |-> page]
    BY <1>4, <1>t, ClickSubmits DEF HandleJobListing, Stay
  <2>2. SubmitsOnlyByMistake'
    <3>1. CASE UNCHANGED submission
      BY <3>1, <1>u
    <3>2. CASE Final(page) /\ submission' = [by |-> "listing", page |-> page]
      <4>1. page.button = "apply" /\ page.says # "review"
        BY <1>4, <1>t, <3>2, MistakenListing DEF HandleJobListing, ActsOnWhatItSaw
      <4>. QED
        BY <3>2, <4>1 DEF SubmitsOnlyByMistake
    <3>. QED
      BY <2>1, <3>1, <3>2
  <2>. QED
    BY <1>4, <1>t, <1>q, <1>l, <2>1, <2>2 DEF HandleJobListing
<1>5. CASE HandleGenericLogin
  <2>1. /\ page' \in Pages /\ signature' \in {0, 1} /\ submission' \in Submissions
        /\ \/ UNCHANGED submission
           \/ Final(page) /\ submission' = [by |-> "login", page |-> page]
    BY <1>5, <1>t, ClickSubmits, ShowsAPage DEF HandleGenericLogin, Stay
  <2>2. SubmitsOnlyByMistake'
    <3>1. CASE UNCHANGED submission
      BY <3>1, <1>u
    <3>2. CASE Final(page) /\ submission' = [by |-> "login", page |-> page]
      <4>1. (page.kind = "form" /\ page.signIn) \/ Misread(page)
        BY <1>5, <1>t, <3>2, MistakenLogin DEF HandleGenericLogin, ActsOnWhatItSaw
      <4>. QED
        BY <3>2, <4>1 DEF SubmitsOnlyByMistake, Misread
    <3>. QED
      BY <2>1, <3>1, <3>2
  <2>. QED
    BY <1>5, <1>t, <1>q, <1>l, <2>1, <2>2 DEF HandleGenericLogin
<1>6. CASE HandleAccountCreation
  <2>1. /\ page' \in Pages /\ signature' \in {0, 1} /\ submission' \in Submissions
        /\ \/ UNCHANGED submission
           \/ Final(page) /\ submission' = [by |-> "signup", page |-> page]
    BY <1>6, <1>t, ClickSubmits DEF HandleAccountCreation, Stay
  <2>2. SubmitsOnlyByMistake'
    <3>1. CASE UNCHANGED submission
      BY <3>1, <1>u
    <3>2. CASE Final(page) /\ submission' = [by |-> "signup", page |-> page]
      <4>1. Misread(page)
        BY <1>6, <1>t, <3>2, MistakenLogin DEF HandleAccountCreation, ActsOnWhatItSaw
      <4>. QED
        BY <3>2, <4>1 DEF SubmitsOnlyByMistake, Misread
    <3>. QED
      BY <2>1, <3>1, <3>2
  <2>. QED
    BY <1>6, <1>t, <1>q, <1>l, <2>1, <2>2 DEF HandleAccountCreation
<1>7. CASE HandleVerificationCode
  <2>1. page' \in Pages /\ signature' \in {0, 1}
    BY <1>7, <1>t, ShowsAPage DEF HandleVerificationCode, Stay
  <2>. QED
    BY <1>7, <1>t, <1>q, <1>l, <1>u, <2>1 DEF HandleVerificationCode
<1>8. CASE StopAtReview \/ StopAtConfirmation \/ StopAtError
  BY <1>8, <1>t, <1>q, <1>u, <1>r DEF StopAtReview, StopAtConfirmation, StopAtError
<1>9. CASE FillPage
  <2>1. CASE Return(TRUE, TRUE, TRUE) /\ Stay /\ UNCHANGED submission
    BY <1>9, <1>t, <1>q, <1>u, <1>r, <2>1 DEF FillPage, Stay
  <2>2. ASSUME NEW f \in {page.filled, TRUE},
               LET p == [page EXCEPT !.filled = f] IN
                 \/ ClickNextButton(p) = "clicked" /\ f /\ LoopAt("look") /\ Click("fill")
                 \/ /\ Submittish(p)
                    /\ Return(TRUE, TRUE, TRUE)
                    /\ page' = p /\ UNCHANGED <<signature, submission>>
                 \/ /\ ClickNextButton(p) = "clicked" \/ ~Submittish(p)
                    /\ LoopAt("look")
                    /\ page' = p /\ UNCHANGED <<signature, submission>>
        PROVE  ApplyInv'
    <3>. DEFINE p == [page EXCEPT !.filled = f]
    <3>1. p \in Pages /\ p.button = page.button
      BY <1>t DEF Pages, SitePagesOf
    <3>. HIDE DEF p
    <3>2. CASE ClickNextButton(p) = "clicked" /\ LoopAt("look") /\ Click("fill")
      <4>1. /\ page' \in Pages /\ signature' \in {0, 1} /\ submission' \in Submissions
            /\ \/ UNCHANGED submission
               \/ Final(page) /\ submission' = [by |-> "fill", page |-> page]
        BY <1>t, <3>2, ClickSubmits
      <4>2. ASSUME Final(page), submission' = [by |-> "fill", page |-> page]
            PROVE  SubmitsOnlyByMistake'
        <5>1. page.kind = "review" /\ page.button = "submit and continue"
          BY <1>t, <3>1, <3>2, <4>2 DEF ClickNextButton, Final, Pages, SitePagesOf
        <5>. QED
          BY <4>2, <5>1 DEF SubmitsOnlyByMistake
      <4>3. SubmitsOnlyByMistake'
        BY <1>u, <4>1, <4>2
      <4>4. loop' \in Loops /\ loop'.pc = "look"
        BY <1>l, <3>2
      <4>5. loginAttempted' \in BOOLEAN /\ job' \in 1..MaxHandlerJobs
        BY <1>9, <1>t DEF FillPage
      <4>. QED
        BY <1>q, <4>1, <4>3, <4>4, <4>5
    <3>3. CASE page' = p /\ UNCHANGED <<signature, submission>>
               /\ (Return(TRUE, TRUE, TRUE) \/ LoopAt("look"))
      BY <1>9, <1>t, <1>q, <1>l, <1>r, <1>u, <3>1, <3>3 DEF FillPage
    <3>. QED
      BY <2>2, <3>2, <3>3 DEF p
  <2>. QED
    BY <1>9, <2>1, <2>2 DEF FillPage
<1>10. CASE NextJob
  <2>1. job' \in 1..MaxHandlerJobs
    BY <1>10, <1>t, SmartApplyAssumption DEF NextJob
  <2>. QED
    BY <1>10, <1>t, <1>q, <2>1, ShowsAPage, FreshIsALoop, NobodySubmits DEF NextJob, SubmitsOnlyByMistake
<1>11. CASE UNCHANGED applyVars
  BY <1>11, <1>t DEF applyVars, ApplyTypeOK, ActsOnWhatItSaw, SubmitsOnlyByMistake, DetectPage, DetectObviousPage
<1>. QED
  BY <1>1, <1>2, <1>3, <1>4, <1>5, <1>6, <1>7, <1>8, <1>9, <1>10, <1>11 DEF ApplyNext, Execute

\* The variables of the smart handler's loop have their types.
THEOREM ApplyTypes == ApplySpec => []ApplyTypeOK
BY ApplyStart, ApplyStep, PTL DEF ApplySpec, ApplyInv

\* The smart handler submits an application only by the mistakes told of.
THEOREM SubmittedByMistake == ApplySpec => []SubmitsOnlyByMistake
BY ApplyStart, ApplyStep, PTL DEF ApplySpec, ApplyInv

-----------------------------------------------------------------------------
(* Of Workday's handler, for any limits on its loops: no page that the     *)
(* detection has not seen is pressed on from, but one that showed an error *)
(* on arrival or came while that of the page before was seen to, and no    *)
(* review is sent, but one without its heading that has an unchecked box.  *)

\* Errors are due only of a page that may show them, and a page that came before the
\* check, without an error, has answered the click.
WInv ==
  /\ WorkdayTypeOK
  /\ SubmitsNoReview
  /\ run.pc \notin {"look", "over", "clicked", "settle"} => seenBy # "quiet"
  /\ run.pc = "clicked" /\ seenBy = "quiet" => ~shows.alert /\ due = {}
  /\ due # {} => run.pc \in {"clicked", "recover", "click", "settle", "over"}
  /\ due = {"errors"} => shows.kind \in {"form", "experience"}

\* What the code fills in leaves a page of the site a page of the site.
LEMMA FilledIsASite == shows \in Sites /\ FillIn => shows' \in Sites /\ shows'.kind = shows.kind
<1>. SUFFICES ASSUME shows \in Sites, FillIn
              PROVE  shows' \in Sites /\ shows'.kind = shows.kind
  OBVIOUS
<1>. PICK m \in {shows.missing, FALSE}, c \in {shows.box, "none"} :
       /\ c = "none" => shows.box \in {"terms", "none"}
       /\ shows' = [shows EXCEPT !.missing = m, !.box = c]
  BY DEF FillIn
<1>1. shows.box # "terms" => c = shows.box
  OBVIOUS
<1>2. c \in {shows.box, "none"}
  OBVIOUS
<1>3. shows \in Sites /\ shows.missing \in BOOLEAN
  BY DEF Sites, WorkdayPages, PlainKinds
<1>4. CASE shows.kind = "form"
  BY <1>1, <1>2, <1>3, <1>4 DEF Sites, WorkdayPages, PlainKinds
<1>5. CASE shows.kind = "experience"
  <2>1. shows.box = "none"
    BY <1>3, <1>5 DEF Sites, WorkdayPages, PlainKinds
  <2>2. c = "none" /\ m \in BOOLEAN
    BY <1>3, <2>1
  <2>. QED
    BY <1>3, <1>5, <2>2 DEF Sites, WorkdayPages, PlainKinds
<1>6. CASE shows.kind \notin {"form", "experience"}
  <2>1. ~shows.missing /\ shows.box # "terms"
    BY <1>3, <1>6 DEF Sites, WorkdayPages, PlainKinds
  <2>2. m = FALSE /\ c = shows.box
    BY <1>3, <2>1
  <2>. QED
    BY <1>3, <1>6, <2>1, <2>2 DEF Sites, WorkdayPages, PlainKinds
<1>. QED
  BY <1>4, <1>5, <1>6

\* Nor does the error that answers a click on an unfinished page.
LEMMA AlertIsASite ==
  ASSUME shows \in Sites
  PROVE  /\ shows.missing \/ shows.box = "terms" => shows.kind \in {"form", "experience"}
         /\ shows.kind \in {"form", "experience"} => [shows EXCEPT !.alert = TRUE] \in Sites
<1>1. shows.missing \/ shows.box = "terms" => shows.kind \in {"form", "experience"}
  BY DEF Sites, WorkdayPages, PlainKinds
<1>2. CASE shows.kind = "form"
  BY <1>1, <1>2 DEF Sites, WorkdayPages, PlainKinds
<1>3. CASE shows.kind = "experience"
  BY <1>1, <1>3 DEF Sites, WorkdayPages, PlainKinds
<1>. QED
  BY <1>1, <1>2, <1>3

\* The kinds of pages are places where execute() can be.
LEMMA KindsOfSites == \A p \in Sites : p.kind \in DOMAIN OnwardFrom
BY DEF Sites, WorkdayPages, PlainKinds, OnwardFrom

\* The handler is before its first page.
LEMMA WorkdayStart == WorkdayInit => WInv
<1>1. WorkdayInit => WorkdayTypeOK
  BY WorkdayAssumption
  DEF WorkdayInit, WorkdayTypeOK, WorkdayRuns, WorkdayPcs
<1>. QED
  BY <1>1 DEF WorkdayInit, WInv, SubmitsNoReview

\* The ways that execute() goes on, and what they leave of its types.
LEMMA RunGoesOn ==
  ASSUME WorkdayTypeOK
  PROVE  /\ \A pc \in WorkdayPcs : RunAt(pc) => run' \in WorkdayRuns /\ run'.pc = pc
         /\ \A s, k \in BOOLEAN : Result(s, k) => run' \in WorkdayRuns /\ run'.pc = "over"
<1>1. ASSUME NEW pc \in WorkdayPcs, RunAt(pc)
      PROVE  run' \in WorkdayRuns /\ run'.pc = pc
  BY <1>1 DEF RunAt, WorkdayTypeOK, WorkdayRuns
<1>2. ASSUME NEW s \in BOOLEAN, NEW k \in BOOLEAN, Result(s, k)
      PROVE  run' \in WorkdayRuns /\ run'.pc = "over"
  BY <1>2 DEF Result, WorkdayTypeOK, WorkdayRuns, WorkdayPcs
<1>. QED
  BY <1>1, <1>2

\* What comes up is a page that was not seen yet.
LEMMA ReachesASite ==
  \A kinds : Reach(kinds) =>
    /\ shows' \in Sites
    /\ seenBy' \in {"alerted", "late", "quiet"}
    /\ shows'.alert => seenBy' = "alerted"
    /\ Recovering => seenBy' # "quiet"
BY DEF Reach

\* Every step of Workday's handler keeps WInv.
LEMMA WorkdayStep == WInv /\ [WorkdayNext]_workdayVars => WInv'
<1>. SUFFICES ASSUME WInv, [WorkdayNext]_workdayVars
              PROVE  WInv'
  OBVIOUS
<1>. USE DEF WInv
<1>t. /\ shows \in Sites /\ sentFrom \in Sites \cup {None} /\ run \in WorkdayRuns
      /\ due \subseteq DOMAIN OnwardFrom \cup {"errors"} /\ seenBy \in {"loop", "alerted", "late", "quiet"}
  BY DEF WorkdayTypeOK
<1>r. /\ run.pc \in WorkdayPcs /\ run.pages \in 0..MaxWorkdayPages
      /\ run.rounds \in 0..MaxScrollRounds /\ run.attempt \in 1..MaxRetries
  BY <1>t DEF WorkdayRuns
<1>1. CASE LookAtPage
  <2>. PICK type \in DetectWorkdayPage :
         run' = [run EXCEPT !.pc = type, !.pages = @ + 1, !.rounds = 0, !.attempt = 1]
    BY <1>1 DEF LookAtPage
  <2>1. type \in WorkdayPcs
    BY <1>t, KindsOfSites
    DEF DetectWorkdayPage, ClassifyPageFromDOM, WorkdayPcs, OnwardFrom
  <2>2. run.pages + 1 \in 0..MaxWorkdayPages
    BY <1>1, <1>r, WorkdayAssumption DEF LookAtPage
  <2>3. run' \in WorkdayRuns
    <3>1. 0 \in 0..MaxScrollRounds /\ 1 \in 1..MaxRetries
      BY WorkdayAssumption
    <3>. QED
      BY <1>t, <2>1, <2>2, <3>1 DEF WorkdayRuns
  <2>. QED
    BY <1>1, <1>t, <2>3 DEF LookAtPage, WorkdayTypeOK, SubmitsNoReview
<1>2. CASE MaxPagesReached
  BY <1>2, <1>t, RunGoesOn DEF MaxPagesReached, WorkdayTypeOK, SubmitsNoReview
<1>3. CASE WorkdayThrows
  <2>1. (run.pages > 2) \in BOOLEAN
    OBVIOUS
  <2>2. run' \in WorkdayRuns /\ run'.pc = "over"
    BY <1>3, <2>1, RunGoesOn DEF WorkdayThrows
  <2>. QED
    BY <1>3, <1>t, <2>2 DEF WorkdayThrows, WorkdayTypeOK, SubmitsNoReview
<1>4. CASE EndAtPage
  <2>1. (run.pc # "error") \in BOOLEAN /\ (run.pc = "review") \in BOOLEAN
    OBVIOUS
  <2>2. run' \in WorkdayRuns /\ run'.pc = "over"
    BY <1>4, <2>1, RunGoesOn DEF EndAtPage
  <2>. QED
    BY <1>4, <1>t, <2>2 DEF EndAtPage, WorkdayTypeOK, SubmitsNoReview
<1>5. ASSUME NEW type \in {"listing", "login", "google", "code", "signup"}, Onward(type)
      PROVE  WInv'
  <2>1. run' \in WorkdayRuns /\ run'.pc = "look"
    BY <1>5, RunGoesOn DEF Onward, WorkdayPcs
  <2>2. shows' \in Sites /\ seenBy' \in {"loop", "alerted", "late", "quiet"}
    BY <1>5, <1>t, ReachesASite DEF Onward, Remain
  <2>. QED
    BY <1>5, <1>t, <2>1, <2>2 DEF Onward, WorkdayTypeOK, SubmitsNoReview
<1>6. CASE AwaitChallenge
  <2>1. run' \in WorkdayRuns /\ run'.pc = "look"
    BY <1>6, RunGoesOn DEF AwaitChallenge, WorkdayPcs
  <2>2. shows' \in Sites /\ seenBy' \in {"loop", "alerted", "late", "quiet"}
    BY <1>6, ReachesASite DEF AwaitChallenge
  <2>. QED
    BY <1>6, <1>t, <2>1, <2>2 DEF AwaitChallenge, WorkdayTypeOK, SubmitsNoReview
<1>7. CASE StartFill
  <2>1. run' \in WorkdayRuns /\ run'.pc \in {"look", "round"}
    BY <1>7, RunGoesOn DEF StartFill, WorkdayPcs
  <2>. QED
    BY <1>7, <1>t, <2>1 DEF StartFill, WorkdayTypeOK, SubmitsNoReview
<1>8. CASE ScrollRound
  <2>1. run.rounds + 1 \in 0..MaxScrollRounds
    BY <1>8, <1>r, WorkdayAssumption DEF ScrollRound
  <2>2. run' \in WorkdayRuns
    BY <1>8, <1>t, <2>1 DEF ScrollRound, WorkdayRuns
  <2>. QED
    BY <1>8, <1>t, <2>2, FilledIsASite DEF ScrollRound, WorkdayTypeOK, SubmitsNoReview
<1>9. CASE ScrolledDown
  <2>1. run' \in WorkdayRuns /\ run'.pc = "click"
    BY <1>9, RunGoesOn DEF ScrolledDown, WorkdayPcs
  <2>. QED
    BY <1>9, <1>t, <2>1 DEF ScrolledDown, WorkdayTypeOK, SubmitsNoReview
<1>10. CASE FillExperience
  <2>1. run' \in WorkdayRuns /\ run'.pc = "click"
    BY <1>10, RunGoesOn DEF FillExperience, WorkdayPcs
  <2>. QED
    BY <1>10, <1>t, <2>1, FilledIsASite DEF FillExperience, WorkdayTypeOK, SubmitsNoReview
<1>11. CASE ClickNext
  <2>1. run' \in WorkdayRuns /\ run'.pc = "clicked"
    BY <1>11, RunGoesOn DEF ClickNext, WorkdayPcs
  <2>2. /\ run.pc = "click" /\ UNCHANGED <<shows, seenBy>> /\ seenBy # "quiet"
    BY <1>11 DEF ClickNext, Remain
  <2>3. /\ due' \subseteq DOMAIN OnwardFrom \cup {"errors"}
        /\ due' = {"errors"} => shows.kind \in {"form", "experience"}
    <3>1. due' \in Answers
      BY <1>11 DEF ClickNext
    <3>2. CASE due' = due
      BY <1>t, <3>2
    <3>3. CASE due' = {}
      BY <3>3
    <3>4. CASE due' = {"errors"} /\ (shows.missing \/ shows.box = "terms")
      BY <1>t, <3>4, AlertIsASite
    <3>5. CASE due' = {"confirmation"}
      BY <3>5 DEF OnwardFrom
    <3>6. CASE due' = OnwardFrom[shows.kind]
      <4>1. shows.kind \in DOMAIN OnwardFrom
        BY <1>t, KindsOfSites
      <4>2. /\ OnwardFrom[shows.kind] \subseteq DOMAIN OnwardFrom
            /\ "errors" \notin OnwardFrom[shows.kind]
        BY <4>1 DEF OnwardFrom
      <4>. QED
        BY <3>6, <4>2
    <3>. QED
      BY <3>1, <3>2, <3>3, <3>4, <3>5, <3>6 DEF Answers
  <2>4. sentFrom' \in Sites \cup {None} /\ SubmitsNoReview'
    <3>1. Pressed = "submit" => ~shows.heading /\ (shows.inputs \/ shows.box # "none")
      BY DEF Pressed, LooksLikeReview
    <3>2. sentFrom' = IF Pressed = "submit" /\ due = {} /\ due' = {"confirmation"} THEN shows ELSE sentFrom
      BY <1>11 DEF ClickNext
    <3>3. CASE Pressed = "submit" /\ sentFrom' = shows
      BY <1>t, <3>1, <3>3 DEF SubmitsNoReview
    <3>. QED
      BY <1>t, <3>2, <3>3 DEF SubmitsNoReview
  <2>. QED
    BY <1>t, <2>1, <2>2, <2>3, <2>4 DEF WorkdayTypeOK
<1>s. CASE SiteAnswers
  <2>1. /\ run.pc \in {"clicked", "recover", "click", "settle"} /\ due # {} /\ due' = {}
        /\ UNCHANGED <<run, sentFrom>>
    BY <1>s DEF SiteAnswers
  <2>2. CASE shows' = [shows EXCEPT !.alert = TRUE] /\ UNCHANGED seenBy /\ due = {"errors"}
    <3>1. shows' \in Sites
      BY <1>t, <2>2, AlertIsASite
    <3>2. run.pc = "clicked" => seenBy # "quiet"
      BY <2>1
    <3>. QED
      BY <1>t, <2>1, <2>2, <3>1, <3>2 DEF WorkdayTypeOK, SubmitsNoReview
  <2>3. CASE Reach(due)
    <3>1. /\ shows' \in Sites /\ seenBy' \in {"alerted", "late", "quiet"}
          /\ shows'.alert => seenBy' = "alerted"
          /\ run.pc \in {"recover", "click"} => seenBy' # "quiet"
      BY <2>3, ReachesASite DEF Recovering
    <3>. QED
      BY <1>t, <2>1, <3>1 DEF WorkdayTypeOK, SubmitsNoReview
  <2>. QED
    BY <1>s, <2>2, <2>3 DEF SiteAnswers
<1>c. CASE CheckForErrors
  <2>1. /\ run.pc = "clicked" /\ run' \in WorkdayRuns /\ run'.pc = IF shows.alert THEN "recover" ELSE "settle"
    BY <1>c, RunGoesOn DEF CheckForErrors, AfterClick, WorkdayPcs
  <2>. QED
    BY <1>c, <1>t, <2>1 DEF CheckForErrors, WorkdayTypeOK, SubmitsNoReview
<1>p. CASE PageLoaded
  <2>1. run' \in WorkdayRuns /\ run'.pc = "look"
    BY <1>p, RunGoesOn DEF PageLoaded, WorkdayPcs
  <2>. QED
    BY <1>p, <1>t, <2>1 DEF PageLoaded, WorkdayTypeOK, SubmitsNoReview
<1>12. CASE RecoverFromErrors
  <2>1. run' \in WorkdayRuns
    <3>1. CASE run.attempt < MaxRetries
      <4>1. run.attempt + 1 \in 1..MaxRetries
        BY <1>r, <3>1, WorkdayAssumption
      <4>. QED
        BY <1>12, <1>t, <3>1, <4>1 DEF RecoverFromErrors, WorkdayRuns, WorkdayPcs
    <3>2. CASE ~(run.attempt < MaxRetries)
      BY <1>12, <1>t, <3>2 DEF RecoverFromErrors, WorkdayRuns, WorkdayPcs
    <3>. QED
      BY <3>1, <3>2
  <2>. QED
    <3>1. /\ run.pc = "recover" /\ UNCHANGED <<due, seenBy, sentFrom>>
          /\ run'.pc \in {"click", "settle"}
      BY <1>12, <1>t DEF RecoverFromErrors, WorkdayRuns
    <3>2. shows' \in Sites /\ shows'.kind = shows.kind
      BY <1>12, <1>t, FilledIsASite DEF RecoverFromErrors
    <3>. QED
      BY <1>t, <2>1, <3>1, <3>2 DEF WorkdayTypeOK, SubmitsNoReview
<1>13. CASE UNCHANGED workdayVars
  BY <1>13 DEF workdayVars, WorkdayTypeOK, SubmitsNoReview
<1>. QED
  BY <1>1, <1>2, <1>3, <1>4, <1>5, <1>6, <1>7, <1>8, <1>9, <1>10, <1>11, <1>12, <1>13, <1>s, <1>c, <1>p
  DEF WorkdayNext, ClickApply, SignIn, SignInAtGoogle, EnterCode, CreateAccount

\* The variables of Workday's handler have their types.
THEOREM WorkdayTypes == WorkdaySpec => []WorkdayTypeOK
BY WorkdayStart, WorkdayStep, PTL DEF WorkdaySpec, WInv

\* A page that showed no error on arrival is looked at before anything presses on from it,
\* unless it came while the error of the page before was seen to.
THEOREM PagesAreLookedAt == WorkdaySpec => []PagesAreNotSkipped
<1>1. WInv => PagesAreNotSkipped
  BY DEF WInv, PagesAreNotSkipped
<1>. QED
  BY <1>1, WorkdayStart, WorkdayStep, PTL DEF WorkdaySpec

\* Workday's handler sends no page that looks like a review to it.
THEOREM NoReviewIsSent == WorkdaySpec => []SubmitsNoReview
BY WorkdayStart, WorkdayStep, PTL DEF WorkdaySpec, WInv

-----------------------------------------------------------------------------
(* Of the smart handler on a Workday form, for any lists, skills and       *)
(* limits: Submit is pressed only where something is left to edit.         *)

\* While a skill is looked for it is one of the profile's.
AtASkill ==
  /\ visit.pc = "skill" => visit.n <= SkillCount + 1
  /\ visit.pc \in {"chip", "short"} => visit.n <= SkillCount

SInv == SiteTypeOK /\ AtASkill /\ SubmitsOnlyForms

\* Nothing of the form is filled.
LEMMA SiteStart == SiteInit => SInv
<1>1. SiteInit => visit \in SiteVisits
  <2>1. 1 \in 1..(MaxRounds + SkillCount) /\ 0 \in 0..MaxSiteVisits /\ 0 \in 0..MaxRoundCalls
    BY SiteAssumption
  <2>2. SiteInit => visit = [pc |-> "detect", count |-> 0, n |-> 1, calls |-> 0]
    BY DEF SiteInit
  <2>. QED
    BY <2>1, <2>2 DEF SiteVisits
<1>2. SiteInit => SiteTypeOK
  BY <1>1 DEF SiteInit, SiteTypeOK
<1>3. SiteInit => AtASkill /\ SubmitsOnlyForms
  <2>1. SiteInit => visit = [pc |-> "detect", count |-> 0, n |-> 1, calls |-> 0] /\ sentFor = {}
    BY DEF SiteInit
  <2>2. SiteInit => visit.pc = "detect"
    BY <2>1
  <2>. QED
    BY <2>1, <2>2 DEF AtASkill, SubmitsOnlyForms
<1>. QED
  BY <1>2, <1>3 DEF SInv

\* Every step on the form keeps SInv.
LEMMA SiteStep == SInv /\ [SiteNext]_siteVars => SInv'
<1>. SUFFICES ASSUME SInv, [SiteNext]_siteVars
              PROVE  SInv'
  OBVIOUS
<1>. USE DEF SInv
<1>t. /\ sitePage \in SitePages /\ lists \in [SelectLists -> {"Select One", "answered"}]
      /\ chips \subseteq 1..SkillCount /\ attached \in BOOLEAN /\ visit \in SiteVisits
  BY DEF SiteTypeOK
<1>v. /\ visit.count \in 0..MaxSiteVisits /\ visit.n \in 1..(MaxRounds + SkillCount)
      /\ visit.calls \in 0..MaxRoundCalls
  BY <1>t DEF SiteVisits
<1>p. ASSUME NEW pc \in {"detect", "lists", "resume", "skill", "chip", "short", "round", "next", "over"},
             VisitAt(pc)
      PROVE  visit' \in SiteVisits /\ visit'.pc = pc /\ visit'.n = visit.n
  BY <1>p, <1>t DEF VisitAt, SiteVisits
<1>n. ASSUME NextSkill, visit.n <= SkillCount
      PROVE  visit' \in SiteVisits /\ visit'.pc = "skill" /\ visit'.n <= SkillCount + 1
  <2>1. visit.n + 1 \in 1..(MaxRounds + SkillCount) /\ visit.n + 1 <= SkillCount + 1
    BY <1>n, <1>v, SiteAssumption
  <2>. QED
    BY <1>n, <1>t, <2>1 DEF NextSkill, SiteVisits
<1>s. UNCHANGED sentFor => SubmitsOnlyForms'
  BY DEF SubmitsOnlyForms
<1>1. CASE DetectForm
  <2>. PICK type \in LlmForm \cup {ClassifyForm} :
       visit' = [visit EXCEPT !.count = @ + 1,
                   !.pc = CASE type = "review" -> "over" [] type = "form" -> "lists"
                            [] OTHER -> "resume"]
    BY <1>1 DEF DetectForm
  <2>1. visit.count + 1 \in 0..MaxSiteVisits
    BY <1>1, <1>v, SiteAssumption DEF DetectForm
  <2>2. visit' \in SiteVisits /\ visit'.pc \in {"over", "lists", "resume"}
    BY <1>t, <2>1 DEF SiteVisits
  <2>. QED
    BY <1>1, <1>t, <1>s, <2>2 DEF DetectForm, SiteTypeOK, AtASkill, SInv
<1>2. CASE FormVisitsEnd
  BY <1>2, <1>t, <1>s, <1>p DEF FormVisitsEnd, SiteTypeOK, AtASkill
<1>3. CASE FormThrows
  BY <1>3, <1>t, <1>s, <1>p DEF FormThrows, SiteTypeOK, AtASkill
<1>4. CASE FillLists
  <2>1. lists' \in [SelectLists -> {"Select One", "answered"}]
    BY <1>4, <1>t DEF FillLists, ClickDropdownOption
  <2>2. sitePage' \in SitePages
    BY <1>4, <1>t DEF FillLists, SitePages
  <2>3. visit' \in SiteVisits /\ visit'.pc \in {"lists", "next"}
    BY <1>4, <1>t, <1>p DEF FillLists
  <2>. QED
    BY <1>4, <1>t, <1>s, <2>1, <2>2, <2>3 DEF FillLists, SiteTypeOK, AtASkill
<1>5. CASE AttachResume
  <2>1. 1 \in 1..(MaxRounds + SkillCount)
    BY SiteAssumption
  <2>2. visit' \in SiteVisits /\ visit'.pc = "skill" /\ visit'.n = 1
    BY <1>5, <1>t, <2>1 DEF AttachResume, SiteVisits
  <2>3. 1 <= SkillCount + 1
    BY SiteAssumption
  <2>4. AtASkill'
    BY <2>2, <2>3 DEF AtASkill
  <2>. QED
    BY <1>5, <1>t, <1>s, <2>2, <2>4 DEF AttachResume, SiteTypeOK
<1>6. CASE SkillsDone
  <2>1. 1 \in 1..(MaxRounds + SkillCount) /\ 0 \in 0..MaxRoundCalls
    BY SiteAssumption
  <2>2. visit' \in SiteVisits /\ visit'.pc = "round"
    BY <1>6, <1>t, <2>1 DEF SkillsDone, SiteVisits
  <2>. QED
    BY <1>6, <1>t, <1>s, <2>2 DEF SkillsDone, SiteTypeOK, AtASkill
<1>7. CASE AddSkill
  <2>1. visit.n \in 1..SkillCount
    BY <1>7, <1>v, SiteAssumption DEF AddSkill
  <2>2. chips' \subseteq 1..SkillCount
    BY <1>7, <1>t, <2>1 DEF AddSkill
  <2>3. visit' \in SiteVisits /\ visit'.pc = "skill" /\ visit'.n <= SkillCount + 1
    BY <1>7, <1>n DEF AddSkill
  <2>. QED
    BY <1>7, <1>t, <1>s, <2>2, <2>3 DEF AddSkill, SiteTypeOK, AtASkill
<1>8. CASE SkipSkill
  BY <1>8, <1>t, <1>s, <1>n DEF SkipSkill, SiteTypeOK, AtASkill
<1>9. CASE EnterForTop
  <2>1. chips' \subseteq 1..SkillCount
    BY <1>9, <1>t DEF EnterForTop
  <2>2. visit' \in SiteVisits
    BY <1>9, <1>p, <1>n DEF EnterForTop
  <2>3. AtASkill'
    BY <1>9, <1>p, <1>n DEF EnterForTop, AtASkill
  <2>. QED
    BY <1>9, <1>t, <1>s, <2>1, <2>2, <2>3 DEF EnterForTop, SiteTypeOK
<1>10. CASE SeeChip
  <2>1. visit.n <= SkillCount
    BY <1>10 DEF SeeChip, AtASkill
  <2>2. visit' \in SiteVisits /\ AtASkill'
    BY <1>10, <1>p, <1>n, <2>1 DEF SeeChip, AtASkill
  <2>. QED
    BY <1>10, <1>t, <1>s, <2>2 DEF SeeChip, SiteTypeOK
<1>11. CASE ExperienceRound
  <2>. DEFINE calls == IF visit.calls < MaxRoundCalls THEN visit.calls + 1 ELSE visit.calls
  <2>1. calls \in 0..MaxRoundCalls
    BY <1>v, SiteAssumption
  <2>2. \/ visit.n < MaxRounds /\ visit' = [visit EXCEPT !.n = @ + 1, !.calls = calls]
        \/ visit' = [visit EXCEPT !.pc = "next", !.calls = calls]
    BY <1>11 DEF ExperienceRound
  <2>3. visit.n < MaxRounds => visit.n + 1 \in 1..(MaxRounds + SkillCount)
    BY <1>v, SiteAssumption
  <2>. HIDE DEF calls
  <2>4. visit' \in SiteVisits /\ visit'.pc \in {"round", "next"}
    <3>1. CASE visit.n < MaxRounds /\ visit' = [visit EXCEPT !.n = @ + 1, !.calls = calls]
      BY <1>11, <1>t, <2>1, <2>3, <3>1 DEF ExperienceRound, SiteVisits
    <3>2. CASE visit' = [visit EXCEPT !.pc = "next", !.calls = calls]
      BY <1>t, <2>1, <3>2 DEF SiteVisits
    <3>. QED
      BY <2>2, <3>1, <3>2
  <2>5. lists' \in [SelectLists -> {"Select One", "answered"}]
    BY <1>11, <1>t DEF ExperienceRound
  <2>. QED
    BY <1>11, <1>t, <1>s, <2>4, <2>5 DEF ExperienceRound, SiteTypeOK, AtASkill
<1>12. CASE LeaveForm
  <2>1. visit' \in SiteVisits /\ visit'.pc \in {"over", "detect"}
    BY <1>12, <1>p DEF LeaveForm
  <2>2. sitePage' \in SitePages
    BY <1>12, <1>t DEF LeaveForm, SitePages
  <2>3. ClickFormButton = "submitted"
          => ~sitePage.title /\ (sitePage.inputs \/ Unanswered # {} \/ sitePage.box)
    BY DEF ClickFormButton
  <2>4. SubmitsOnlyForms'
    BY <1>12, <2>3 DEF LeaveForm, SubmitsOnlyForms
  <2>. QED
    BY <1>12, <1>t, <2>1, <2>2, <2>4 DEF LeaveForm, SiteTypeOK, AtASkill
<1>13. CASE UNCHANGED siteVars
  BY <1>13, <1>t, <1>s DEF siteVars, SiteTypeOK, AtASkill
<1>. QED
  BY <1>1, <1>2, <1>3, <1>4, <1>5, <1>6, <1>7, <1>8, <1>9, <1>10, <1>11, <1>12, <1>13 DEF SiteNext

\* The variables of the handler on a Workday form have their types.
THEOREM SiteTypes == SiteSpec => []SiteTypeOK
BY SiteStart, SiteStep, PTL DEF SiteSpec, SInv

\* The handler presses Submit on a Workday form only where something is left to edit.
THEOREM OnlyFormsAreSent == SiteSpec => []SubmitsOnlyForms
BY SiteStart, SiteStep, PTL DEF SiteSpec, SInv

-----------------------------------------------------------------------------
(* Of the handler at a site's door, for any limits and any number of jobs: *)
(* it is not refused by an account of its own making, but for what         *)
(* LogsInToItsOwn tells of.  An account that it made has one of three      *)
(* passwords, and the second attempt comes after the refusal of the first. *)

PlainPw == [of |-> LoginPassword, strong |-> FALSE]
SuffixPw == [of |-> LoginPassword, strong |-> TRUE]

\* The passwords of the accounts that the handler made.
MadeByHandler == account.by = "handler" => account.pw \in {CreationPassword, PlainPw, SuffixPw}

\* But on Workday, whose second attempt may have found another form.
PlainWasRefused ==
  sign.pc = "second" /\ setting.platform # "workday" /\ door.at = "signin"
    => account = NoAccount \/ account.pw # PlainPw

SignInInv ==
  /\ SignInTypeOK
  /\ MadeByHandler
  /\ PlainWasRefused
  /\ lockedOut # {} => account.by = "handler"
  /\ LogsInToItsOwn

Signs == [pc : SignPcs, visits : 0..MaxVisits]

\* The passwords of any setting.
LEMMA PasswordsHaveTypes ==
  ASSUME setting \in Settings
  PROVE  /\ LoginPassword \in {"none", "p", "q"}
         /\ CreationPassword \in Passwords /\ PlainPw \in Passwords /\ SuffixPw \in Passwords
         /\ \A s \in BOOLEAN : [of |-> LoginPassword, strong |-> s] \in {PlainPw, SuffixPw}
<1>1. setting.own \in {"none", "p", "q"} /\ setting.env \in {"none", "p"}
  BY DEF Settings
<1>2. LoginPassword \in {"none", "p", "q"}
  BY <1>1 DEF LoginPassword
<1>3. CreationPassword \in Passwords
  BY <1>1 DEF CreationPassword, Passwords
<1>4. PlainPw \in Passwords /\ SuffixPw \in Passwords
  BY <1>2 DEF PlainPw, SuffixPw, Passwords
<1>5. \A s \in BOOLEAN : [of |-> LoginPassword, strong |-> s] \in {PlainPw, SuffixPw}
  BY DEF PlainPw, SuffixPw
<1>. QED
  BY <1>2, <1>3, <1>4, <1>5

\* Where the accounts are made as the logins are tried, the second attempt is the password
\* that they are made with.
LEMMA SecondIsTheCreated ==
  ASSUME setting \in Settings, LoginPassword # "none",
         setting.platform = "workday" => setting.own \in {"none", setting.env}
  PROVE  CreationPassword = SuffixPw
<1>1. setting.own \in {"none", "p", "q"} /\ setting.env \in {"none", "p"}
  BY DEF Settings
<1>2. (IF setting.own # "none" THEN setting.own ELSE setting.env) = LoginPassword
  BY <1>1 DEF LoginPassword
<1>. QED
  BY <1>2 DEF CreationPassword, SuffixPw

\* At first there is no account.
LEMMA NoAccountIsNobodys == NoAccount \in Accounts /\ NoAccount.by = "nobody"
BY DEF NoAccount, Accounts, Passwords

\* The handler is before the door.
LEMMA SignInStart == SignInInit => SignInInv
<1>1. SignInInit => setting \in Settings /\ lockedOut = {} /\ attempted = FALSE
  BY DEF SignInInit
<1>2. SignInInit => door \in SiteDoors
  BY DEF SignInInit, SiteDoors, Doors
<1>3. SignInInit => account \in Accounts /\ account.by \in {"nobody", "user"}
  <2>1. \A v \in {"p", "other"} :
          [pw |-> [of |-> v, strong |-> FALSE], by |-> "user"] \in Accounts
    BY DEF Accounts, Passwords
  <2>2. \A v \in {"p", "other"} :
          [pw |-> [of |-> v, strong |-> FALSE], by |-> "user"].by = "user"
    OBVIOUS
  <2>3. SignInInit => account = NoAccount
          \/ \E v \in {"p", "other"} : account = [pw |-> [of |-> v, strong |-> FALSE], by |-> "user"]
    BY DEF SignInInit
  <2>. QED
    BY <2>1, <2>2, <2>3, NoAccountIsNobodys
<1>4. SignInInit => sign = [pc |-> "detect", visits |-> 0] /\ visitor = 1
  BY DEF SignInInit
<1>5. SignInInit => sign \in Signs /\ sign.pc = "detect" /\ visitor \in 1..MaxSignInJobs
  BY <1>4, SignInAssumption DEF Signs, SignPcs
<1>. QED
  BY <1>1, <1>2, <1>3, <1>5
  DEF SignInInv, SignInTypeOK, Signs, MadeByHandler, PlainWasRefused, LogsInToItsOwn

\* A step that leaves the account, what was refused and the setting.
LEMMA NothingRefused ==
  ASSUME SignInInv, UNCHANGED <<setting, account, lockedOut>>,
         door' \in SiteDoors, sign' \in Signs, sign'.pc # "second", attempted' \in BOOLEAN,
         visitor' \in 1..MaxSignInJobs
  PROVE  SignInInv'
<1>1. SignInTypeOK'
  BY DEF SignInInv, SignInTypeOK, Signs
<1>2. MadeByHandler' /\ PlainWasRefused' /\ LogsInToItsOwn' /\ (lockedOut' # {} => account'.by = "handler")
  BY DEF SignInInv, MadeByHandler, PlainWasRefused, LogsInToItsOwn, CreationPassword, PlainPw, SuffixPw,
         LoginPassword
<1>. QED
  BY <1>1, <1>2 DEF SignInInv

\* A step that makes the user's account.
LEMMA AccountIsMade ==
  ASSUME SignInInv, UNCHANGED <<setting, lockedOut, visitor>>, account = NoAccount,
         NEW w \in {CreationPassword, PlainPw, SuffixPw}, account' = [pw |-> w, by |-> "handler"],
         door' \in SiteDoors, sign' \in Signs, sign'.pc = "detect", attempted' \in BOOLEAN
  PROVE  SignInInv'
<1>1. account' \in Accounts /\ account'.by = "handler" /\ account'.pw = w
  BY PasswordsHaveTypes DEF SignInInv, SignInTypeOK, Accounts
<1>2. SignInTypeOK'
  BY <1>1 DEF SignInInv, SignInTypeOK, Signs
<1>3. lockedOut = {}
  BY NoAccountIsNobodys DEF SignInInv
<1>4. MadeByHandler'
  BY <1>1 DEF MadeByHandler, CreationPassword, PlainPw, SuffixPw, LoginPassword
<1>. QED
  BY <1>1, <1>2, <1>3, <1>4 DEF SignInInv, PlainWasRefused, LogsInToItsOwn

\* What an account of the handler's making may refuse.
Excused(r) ==
  \/ LoginPassword = "none"
  \/ setting.platform = "workday" /\ setting.own \notin {"none", setting.env}
  \/ setting.platform = "workday" /\ ~account.pw.strong
  \/ r = [on |-> "first", seen |-> FALSE] /\ account.pw.strong

\* A refusal by such an account is of a second attempt that is excused, or of a first one.
LEMMA OwnRefusal ==
  ASSUME SignInInv, account = NoAccount \/ account.pw # TypedPassword,
         door.at = "signin", account.by = "handler", sign.pc \in {"first", "second"},
         NEW seen \in BOOLEAN, sign.pc = "second" \/ ~seen \/ LoginPassword = "none"
  PROVE  Excused([on |-> sign.pc, seen |-> seen])
<1>t. setting \in Settings
  BY DEF SignInInv, SignInTypeOK
<1>1. account # NoAccount
  BY NoAccountIsNobodys
<1>2. account.pw # TypedPassword
  BY <1>1
<1>3. account.pw \in {CreationPassword, PlainPw, SuffixPw}
  BY DEF SignInInv, MadeByHandler
<1>4. CASE LoginPassword = "none"
  BY <1>4 DEF Excused
<1>5. CASE LoginPassword # "none" /\ sign.pc = "first"
  <2>1. TypedPassword = PlainPw
    BY <1>5 DEF TypedPassword, PlainPw
  <2>2. account.pw \in {CreationPassword, SuffixPw}
    BY <1>2, <1>3, <2>1
  <2>3. account.pw.strong
    BY <2>2 DEF CreationPassword, SuffixPw
  <2>4. ~seen
    BY <1>5
  <2>. QED
    BY <1>5, <2>3, <2>4 DEF Excused
<1>6. CASE LoginPassword # "none" /\ sign.pc = "second"
  <2>1. TypedPassword = SuffixPw
    BY <1>6 DEF TypedPassword, SuffixPw
  <2>2. CASE setting.platform = "workday" /\ setting.own \notin {"none", setting.env}
    BY <2>2 DEF Excused
  <2>3. CASE ~(setting.platform = "workday" /\ setting.own \notin {"none", setting.env})
    <3>1. account.pw = PlainPw
      BY <1>t, <1>2, <1>3, <1>6, <2>1, <2>3, SecondIsTheCreated
    <3>2. setting.platform = "workday"
      BY <1>1, <1>6, <3>1 DEF SignInInv, PlainWasRefused
    <3>. QED
      BY <3>1, <3>2 DEF PlainPw, Excused
  <2>. QED
    BY <2>2, <2>3
<1>. QED
  BY <1>4, <1>5, <1>6

\* A refusal by any account.
LEMMA RefusalIsCounted ==
  ASSUME SignInInv, UNCHANGED <<setting, account, visitor>>,
         door.at = "signin" => account = NoAccount \/ account.pw # TypedPassword,
         sign.pc \in {"first", "second"},
         NEW seen \in BOOLEAN, sign.pc = "second" \/ ~seen \/ LoginPassword = "none",
         lockedOut' = lockedOut \cup LeftOutside(seen),
         door' \in SiteDoors, sign' \in Signs, sign'.pc # "second", attempted' \in BOOLEAN
  PROVE  SignInInv'
<1>1. LeftOutside(seen) \subseteq Refusals
  BY DEF LeftOutside, Refusals
<1>2. SignInTypeOK'
  BY <1>1 DEF SignInInv, SignInTypeOK, Signs
<1>3. MadeByHandler' /\ PlainWasRefused'
  BY DEF SignInInv, MadeByHandler, PlainWasRefused, CreationPassword, PlainPw, SuffixPw, LoginPassword
<1>4. lockedOut' # {} => account'.by = "handler"
  BY DEF SignInInv, LeftOutside
<1>5. \A r \in lockedOut : Excused(r)
  BY DEF SignInInv, LogsInToItsOwn, Excused
<1>6. \A r \in LeftOutside(seen) : Excused(r)
  BY OwnRefusal DEF LeftOutside
<1>7. \A r \in lockedOut' : Excused(r)
  BY <1>5, <1>6
<1>8. LogsInToItsOwn'
  BY <1>7 DEF LogsInToItsOwn, Excused, LoginPassword
<1>. QED
  BY <1>2, <1>3, <1>4, <1>8 DEF SignInInv

\* Every step at the door keeps SignInInv.
LEMMA SignInStep == SignInInv /\ [SignInNext]_signVars => SignInInv'
<1>. SUFFICES ASSUME SignInInv, [SignInNext]_signVars
              PROVE  SignInInv'
  OBVIOUS
<1>t. /\ setting \in Settings /\ door \in SiteDoors /\ account \in Accounts /\ sign \in Signs
      /\ attempted \in BOOLEAN /\ lockedOut \subseteq Refusals /\ visitor \in 1..MaxSignInJobs
  BY DEF SignInInv, SignInTypeOK, Signs
<1>s. ASSUME NEW pc \in SignPcs, SignAt(pc)
      PROVE  sign' \in Signs /\ sign'.pc = pc
  BY <1>s, <1>t DEF SignAt, Signs
<1>d. ASSUME NEW ats \in SUBSET Doors, Opens(ats)
      PROVE  door' \in SiteDoors /\ door'.at \in ats
  BY <1>d, <1>t DEF Opens, SiteDoors
<1>r. ASSUME LoginReturns
      PROVE  sign' \in Signs /\ sign'.pc = "detect" /\ attempted' \in BOOLEAN
  BY <1>r, <1>s DEF LoginReturns, SignPcs
<1>g. ASSUME NEW pc \in SignPcs, LoginGoesOn(pc)
      PROVE  sign' \in Signs /\ sign'.pc = pc /\ attempted' \in BOOLEAN
  BY <1>g, <1>s, <1>t DEF LoginGoesOn
<1>a. door.at \in Doors /\ Asks \subseteq Doors
  BY <1>t DEF SiteDoors, Doors
<1>1. CASE DetectDoor
  <2>. PICK type \in PageTypes(door.at) : sign' = [pc |-> type, visits |-> sign.visits + 1]
    BY <1>1 DEF DetectDoor
  <2>1. type \in SignPcs \ {"second"}
    BY DEF PageTypes, SignPcs
  <2>2. sign.visits \in 0..MaxVisits /\ sign.visits < MaxVisits
    BY <1>1, <1>t DEF DetectDoor, Signs
  <2>3. sign.visits + 1 \in 0..MaxVisits
    BY <2>2, SignInAssumption
  <2>4. sign' \in Signs /\ sign'.pc # "second"
    BY <2>1, <2>3 DEF Signs
  <2>. QED
    BY <1>1, <1>t, <2>4, NothingRefused DEF DetectDoor
<1>2. CASE SignInEnds
  BY <1>2, <1>t, <1>s, NothingRefused DEF SignInEnds, SignPcs
<1>3. CASE AnswerGoogle
  <2>1. sign' \in Signs /\ sign'.pc = "detect" /\ attempted' \in BOOLEAN
        /\ UNCHANGED <<setting, account, lockedOut, visitor>>
    BY <1>3, <1>r
    DEF AnswerGoogle, GoogleEmail, GooglePassword, GoogleConsent, GoogleChooser, GoogleOther, GooglePage
  <2>2. \E ats \in SUBSET Doors : Opens(ats)
    <3>1. GoogleEmail => Opens({"password", "other", "email"})
      BY DEF GoogleEmail
    <3>2. GooglePassword =>
            Opens({"password"} \cup IF setting.env = "none" THEN {} ELSE {"challenge", "consent", "inside"})
      BY DEF GooglePassword
    <3>3. GoogleConsent => Opens({"inside", "consent"})
      BY DEF GoogleConsent
    <3>4. GoogleChooser => Opens({"password", "consent", "inside"})
      BY DEF GoogleChooser
    <3>5. GoogleOther => Opens(Asks \cup {"challenge"})
      BY DEF GoogleOther
    <3>6. {"password", "other", "email"} \subseteq Doors /\ {"inside", "consent"} \subseteq Doors
          /\ {"password", "consent", "inside"} \subseteq Doors /\ Asks \cup {"challenge"} \subseteq Doors
          /\ {"password"} \cup (IF setting.env = "none" THEN {} ELSE {"challenge", "consent", "inside"})
               \subseteq Doors
      BY DEF Doors, Asks
    <3>. QED
      BY <1>3, <3>1, <3>2, <3>3, <3>4, <3>5, <3>6 DEF AnswerGoogle
  <2>. QED
    BY <1>t, <1>d, <2>1, <2>2, NothingRefused
<1>4. CASE SignInWithGoogle
  <2>1. (IF setting.platform = "workday" THEN Asks ELSE Asks \cup {door.at}) \in SUBSET Doors
    BY <1>a
  <2>2. door' \in SiteDoors
    BY <1>4, <1>d, <2>1 DEF SignInWithGoogle
  <2>. QED
    BY <1>4, <1>t, <1>r, <2>2, NothingRefused DEF SignInWithGoogle
<1>5. CASE ChooseView
  <2>1. (IF door.link THEN {"signin"} ELSE {door.at}) \in SUBSET Doors
    BY <1>a DEF Doors
  <2>2. door' \in SiteDoors
    BY <1>5, <1>d, <2>1 DEF ChooseView
  <2>. QED
    BY <1>5, <1>t, <1>g, <2>2, NothingRefused DEF ChooseView, SignPcs
<1>6. CASE FindSignIn
  <2>1. {"signin", "create", "gate"} \in SUBSET Doors
    BY DEF Doors
  <2>2. door' \in SiteDoors
    BY <1>6, <1>d, <2>1 DEF FindSignIn
  <2>3. sign' \in Signs /\ sign'.pc \in {"first", "detect"} /\ attempted' \in BOOLEAN
    BY <1>6, <1>r, <1>g DEF FindSignIn, SignPcs
  <2>. QED
    BY <1>6, <1>t, <2>2, <2>3, NothingRefused DEF FindSignIn
<1>7. CASE LoginAccepted
  <2>1. {"inside", "code"} \in SUBSET Doors
    BY DEF Doors
  <2>. QED
    BY <1>7, <1>t, <1>r, <1>d, <2>1, NothingRefused DEF LoginAccepted
<1>8. CASE LoginRefused
  <2>1. sign' \in Signs /\ attempted' \in BOOLEAN
        /\ sign'.pc = (IF MayTryAgain THEN "second" ELSE "toCreate")
    BY <1>8, <1>g DEF LoginRefused, SignPcs
  <2>2. door' \in SiteDoors /\ (setting.platform # "workday" => UNCHANGED door)
    <3>1. {"signin"} \in SUBSET Doors
      BY DEF Doors
    <3>. QED
      BY <1>8, <1>t, <1>d, <3>1 DEF LoginRefused
  <2>3. CASE MayTryAgain
    <3>1. UNCHANGED <<setting, account, lockedOut, visitor>>
      BY <1>8, <1>t, <2>3 DEF LoginRefused
    <3>2. SignInTypeOK'
      BY <1>t, <2>1, <2>2, <3>1 DEF SignInTypeOK, Signs
    <3>3. TypedPassword = PlainPw
      BY <2>3 DEF MayTryAgain, TypedPassword, PlainPw
    <3>4. door.at = "signin" => account = NoAccount \/ account.pw # PlainPw
      BY <1>8, <3>3 DEF LoginRefused
    <3>5. PlainWasRefused'
      BY <2>2, <3>1, <3>4 DEF PlainWasRefused, PlainPw, LoginPassword
    <3>6. MadeByHandler' /\ LogsInToItsOwn' /\ (lockedOut' # {} => account'.by = "handler")
      BY <3>1 DEF SignInInv, MadeByHandler, LogsInToItsOwn, CreationPassword, PlainPw, SuffixPw,
                  LoginPassword
    <3>. QED
      BY <3>2, <3>5, <3>6 DEF SignInInv
  <2>4. CASE ~MayTryAgain
    <3>1. UNCHANGED <<setting, account, visitor>> /\ lockedOut' = lockedOut \cup LeftOutside(TRUE)
      BY <1>8, <2>4 DEF LoginRefused
    <3>2. sign.pc = "second" \/ LoginPassword = "none"
      BY <1>8, <2>4 DEF LoginRefused, MayTryAgain
    <3>. QED
      BY <1>8, <2>1, <2>2, <2>4, <3>1, <3>2, RefusalIsCounted DEF LoginRefused
  <2>. QED
    BY <2>3, <2>4
<1>9. CASE LoginRefusedUnseen
  <2>1. UNCHANGED <<setting, door, account, visitor>> /\ lockedOut' = lockedOut \cup LeftOutside(FALSE)
    BY <1>9 DEF LoginRefusedUnseen
  <2>2. sign' \in Signs /\ sign'.pc = "detect" /\ attempted' \in BOOLEAN
    BY <1>9, <1>r DEF LoginRefusedUnseen
  <2>. QED
    BY <1>9, <1>t, <2>1, <2>2, RefusalIsCounted DEF LoginRefusedUnseen
<1>10. CASE CreatedByLogin
  <2>1. TypedPassword \in {CreationPassword, PlainPw, SuffixPw}
    BY <1>t, PasswordsHaveTypes DEF TypedPassword
  <2>2. {"inside", "code", "signin"} \in SUBSET Doors
    BY DEF Doors
  <2>. QED
    BY <1>10, <1>t, <1>r, <1>d, <2>1, <2>2, AccountIsMade DEF CreatedByLogin
<1>11. CASE GoToCreation
  <2>1. {"create", "gate", door.at} \in SUBSET Doors
    BY <1>a DEF Doors
  <2>. QED
    BY <1>11, <1>t, <1>r, <1>d, <2>1, NothingRefused DEF GoToCreation
<1>12. CASE FillAccountForm
  <2>1. sign' \in Signs /\ sign'.pc = "detect" /\ UNCHANGED <<setting, attempted, lockedOut, visitor>>
    BY <1>12, <1>s DEF FillAccountForm, SignPcs
  <2>2. {"create", "gate", door.at} \in SUBSET Doors /\ {"inside", "code", "signin"} \in SUBSET Doors
    BY <1>a DEF Doors
  <2>3. CASE /\ door.at = "create" /\ account = NoAccount
             /\ account' = [pw |-> CreationPassword, by |-> "handler"]
             /\ Opens({"inside", "code", "signin"})
    BY <1>t, <1>d, <2>1, <2>2, <2>3, AccountIsMade
  <2>4. CASE UNCHANGED account /\ Opens({"create", "gate", door.at})
    BY <1>t, <1>d, <2>1, <2>2, <2>4, NothingRefused
  <2>. QED
    BY <1>12, <2>3, <2>4 DEF FillAccountForm
<1>13. CASE EnterMailedCode
  <2>1. {"inside", "signin", "code"} \in SUBSET Doors
    BY DEF Doors
  <2>. QED
    BY <1>13, <1>t, <1>s, <1>d, <2>1, NothingRefused DEF EnterMailedCode, SignPcs
<1>14. CASE SignInThrows
  BY <1>14, <1>t, <1>s, NothingRefused DEF SignInThrows, SignPcs
<1>15. CASE Return2Site
  <2>1. {"signin", "create", "gate"} \in SUBSET Doors
    BY DEF Doors
  <2>2. visitor' \in 1..MaxSignInJobs
    BY <1>15, <1>t, SignInAssumption DEF Return2Site
  <2>3. sign' \in Signs /\ sign'.pc = "detect"
    BY <1>15, SignInAssumption DEF Return2Site, Signs, SignPcs
  <2>. QED
    BY <1>15, <1>t, <1>d, <2>1, <2>2, <2>3, NothingRefused DEF Return2Site
<1>16. CASE UNCHANGED signVars
  BY <1>16 DEF signVars, SignInInv, SignInTypeOK, MadeByHandler, PlainWasRefused, LogsInToItsOwn,
               CreationPassword, PlainPw, SuffixPw, LoginPassword
<1>. QED
  BY <1>1, <1>2, <1>3, <1>4, <1>5, <1>6, <1>7, <1>8, <1>9, <1>10, <1>11, <1>12, <1>13, <1>14,
     <1>15, <1>16
  DEF SignInNext, GetIn

\* The variables of the handler at a site's door have their types.
THEOREM SignInTypes == SignInSpec => []SignInTypeOK
BY SignInStart, SignInStep, PTL DEF SignInSpec, SignInInv

\* The handler is not refused by an account of its own making, but for what is told.
THEOREM ItsOwnLetsIn == SignInSpec => []LogsInToItsOwn
BY SignInStart, SignInStep, PTL DEF SignInSpec, SignInInv

-----------------------------------------------------------------------------
(* LlmBounded and TextIsKept for any form, any limits and any depth.  That *)
(* acts stays below MaxLlmCalls + 2 * MaxDepth is not inductive: FInv      *)
(* counts what each level may spend without looking at the limit, one act  *)
(* before its DOM pass and one after its walk (Unchecked), and says that   *)
(* whatever is beyond that was counted in fill.llm.                        *)

FillValues == {"absent", "empty", "dom", "other"}

\* Acts that may so far have been made without a look at the limit.
OfThisLevel ==
  CASE fill.pc \in {"enter", "scan", "upload"} -> 0
    [] fill.pc \in {"dom", "walk", "cleanup"} -> 1
    [] OTHER -> 2
Unchecked == IF fill.depth = MaxDepth THEN 2 * MaxDepth ELSE 2 * fill.depth + OfThisLevel

ActsAreCounted == acts <= fill.llm + Unchecked /\ acts <= MaxLlmCalls + Unchecked

\* fill.llm may pass its limit by two and by an upload for every level.
LlmOfLevel ==
  fill.llm <= MaxLlmCalls + 2 + fill.depth
                + IF fill.depth < MaxDepth /\ OfThisLevel # 0 THEN 1 ELSE 0

\* The innermost level does nothing, and fields are only ahead in the passes.
Places ==
  /\ fill.depth = MaxDepth => fill.pc \in {"enter", "complete"}
  /\ fill.pc \notin {"dom", "cleanup"} => ahead = {}

FInv == FillTypeOK /\ Places /\ LlmOfLevel /\ ActsAreCounted

-----------------------------------------------------------------------------
\* The page of a form after a write: fields come up empty, the others stay.
LEMMA BringsUp ==
  ASSUME NEW v \in [FormFields -> FillValues], NEW w \in Brings(v)
  PROVE  /\ w \in [FormFields -> FillValues]
         /\ \A f \in FormFields : w[f] = v[f] \/ w[f] = "empty"
BY DEF Brings, Emptied, FillValues

\* Others write nothing in the DOM pass's name.
LEMMA OthersWrite ==
  ASSUME value \in [FormFields -> FillValues], NEW seen, NEW w \in ByOthers(seen)
  PROVE  /\ w \in [FormFields -> FillValues]
         /\ \A f \in FormFields : w[f] = "dom" => value[f] = "dom"
<1>1. PICK s \in SUBSET {f \in seen : value[f] = "empty" \/ Kind[f] \in {"choice", "search"}} :
             w \in Brings([f \in FormFields |-> IF f \in s THEN "other" ELSE value[f]])
  BY DEF ByOthers
<1>. DEFINE v == [f \in FormFields |-> IF f \in s THEN "other" ELSE value[f]]
<1>2. v \in [FormFields -> FillValues]
  BY DEF FillValues
<1>3. \A f \in FormFields : v[f] = "other" \/ v[f] = value[f]
  OBVIOUS
<1>. HIDE DEF v
<1>4. w \in Brings(v)
  BY <1>1 DEF v
<1>. QED
  BY <1>2, <1>3, <1>4, BringsUp

\* A field is left as it is or written by the DOM pass, which spares what others have put
\* into a text or a checkbox.
LEMMA DomWrites ==
  ASSUME NEW f \in FormFields, NEW r \in FillAsScanned(f)
  PROVE  /\ r.to \in {value[f], "dom"}
         /\ value[f] = "other" /\ r.to = "dom" => Kind[f] \in {"choice", "search"}
<1>1. Kind[f] \in {"text", "choice", "search", "box", "llm"}
  BY FillAssumption DEF FormFields
<1>2. CASE value[f] = "absent"
  BY <1>1, <1>2 DEF FillAsScanned, FillByNativeSetter, FillChoice, FillSearch, FillBox
<1>3. CASE value[f] # "absent"
  BY <1>1, <1>3 DEF FillAsScanned, FillByNativeSetter, FillChoice, FillSearch, FillBox
<1>. QED
  BY <1>2, <1>3

\* An attempt of the LLM costs one act, and writes as others do.
LEMMA ActWrites ==
  ASSUME FillTypeOK, SafeAct
  PROVE  /\ acts' = acts + 1 /\ acts' \in Nat
         /\ value' \in [FormFields -> FillValues]
         /\ \A f \in FormFields : value'[f] = "dom" => value[f] = "dom"
<1>1. value \in [FormFields -> FillValues] /\ acts \in Nat
  BY DEF FillTypeOK, FillValues
<1>2. value' = value \/ value' \in ByOthers(OnPage)
  BY DEF SafeAct, IsPageHealthy
<1>. QED
  BY <1>1, <1>2, OthersWrite DEF SafeAct

\* A refused form has fields emptied or added.
LEMMA RefusalWrites ==
  ASSUME FillTypeOK, value' \in Refused
  PROVE  /\ value' \in [FormFields -> FillValues]
         /\ \A f \in FormFields : value'[f] = "dom" => value[f] = "dom"
BY DEF FillTypeOK, Refused, Emptied, FillValues

-----------------------------------------------------------------------------
\* The first call, before anything was spent.
LEMMA InitFInv == FillInit => FInv
<1>. SUFFICES ASSUME FillInit PROVE FInv
  OBVIOUS
<1>1. fill = [pc |-> "enter", depth |-> 0, llm |-> 0, scrolls |-> 0] /\ acts = 0
  BY DEF FillInit, Call
<1>2. FillTypeOK
  BY <1>1, FillAssumption DEF FillInit, FillTypeOK, Ends
<1>3. Places /\ LlmOfLevel /\ ActsAreCounted
  BY <1>1, FillAssumption
  DEF FillInit, Places, LlmOfLevel, ActsAreCounted, Unchecked, OfThisLevel
<1>. QED
  BY <1>2, <1>3 DEF FInv

\* What a step says of the locals of the call.
LEMMA Locals ==
  ASSUME FillTypeOK
  PROVE  /\ fill.depth \in Nat /\ fill.depth <= MaxDepth /\ fill.llm \in Nat
         /\ fill.scrolls \in 0..MaxScrollSteps /\ acts \in Nat
         /\ value \in [FormFields -> FillValues]
         /\ fill = [pc |-> fill.pc, depth |-> fill.depth, llm |-> fill.llm, scrolls |-> fill.scrolls]
         /\ MaxDepth \in Nat /\ MaxLlmCalls \in Nat /\ MaxScrollSteps \in Nat
BY FillAssumption DEF FillTypeOK, FillValues

\* A step within a level keeps FInv if it spends at most what it counts, or what the
\* level may spend unchecked.
LEMMA LevelKeeps ==
  ASSUME FInv, fill.depth < MaxDepth,
         NEW pc \in Ends \cup {"scan", "upload", "dom", "walk", "cleanup", "advance"},
         NEW llm \in Nat, NEW scrolls \in 0..MaxScrollSteps,
         fill' = [pc |-> pc, depth |-> fill.depth, llm |-> llm, scrolls |-> scrolls],
         acts' \in Nat, value' \in [FormFields -> FillValues],
         open' \subseteq FormFields, ahead' \subseteq open',
         pc \notin {"dom", "cleanup"} => ahead' = {},
         LlmOfLevel', ActsAreCounted'
  PROVE  FInv'
<1>1. llm \in 0..(MaxLlmCalls + MaxDepth + 2)
  BY Locals, FillAssumption DEF FInv, LlmOfLevel
<1>2. FillTypeOK'
  BY <1>1, Locals DEF FInv, FillTypeOK, FillValues, Ends
<1>3. Places'
  BY Locals DEF FInv, Places
<1>. QED
  BY <1>2, <1>3 DEF FInv

\* An act before the DOM pass is counted, or is the one that the level has for it.
LEMMA UploadKeeps ==
  ASSUME FInv, UploadResume \/ UploadByLlm
  PROVE  FInv'
<1>1. fill.pc = "upload" /\ fill.depth < MaxDepth
  BY Locals DEF FInv, Places, UploadResume, UploadByLlm
<1>2. /\ open' = open /\ ahead' = open \cap Answered /\ open \subseteq FormFields
  BY DEF UploadResume, UploadByLlm, ToDom, FInv, FillTypeOK
<1>3. /\ value' \in [FormFields -> FillValues]
      /\ acts' = acts \/ acts' = acts + 1
  <2>1. CASE UploadResume
    BY <2>1, OthersWrite, Locals DEF UploadResume, FInv
  <2>2. CASE UploadByLlm
    BY <2>2, ActWrites DEF UploadByLlm, FInv
  <2>. QED
    BY <2>1, <2>2
<1>4. PICK llm \in {fill.llm, fill.llm + 1} :
        fill' = [pc |-> "dom", depth |-> fill.depth, llm |-> llm, scrolls |-> fill.scrolls]
  BY Locals DEF UploadResume, UploadByLlm, ToDom, FillAt, FInv
<1>5. LlmOfLevel' /\ ActsAreCounted'
  BY <1>1, <1>3, <1>4, Locals
  DEF FInv, LlmOfLevel, ActsAreCounted, Unchecked, OfThisLevel
<1>. QED
  BY <1>1, <1>2, <1>3, <1>4, <1>5, Locals, LevelKeeps DEF FInv

\* An act of the walk is made below the limit, and counted.
LEMMA WalkKeeps ==
  ASSUME FInv, WalkActs
  PROVE  FInv'
<1>1. fill.pc = "walk" /\ fill.depth < MaxDepth /\ fill.llm < MaxLlmCalls /\ ahead = {}
      /\ fill.scrolls < MaxScrollSteps
  BY Locals DEF FInv, Places, WalkActs
<1>2. value' \in [FormFields -> FillValues] /\ acts' = acts + 1
  BY ActWrites DEF WalkActs, FInv
<1>3. open' \subseteq FormFields /\ ahead' = {}
  BY <1>1 DEF WalkActs, FInv, FillTypeOK
<1>. DEFINE now(n) == [pc |-> "walk", depth |-> fill.depth, llm |-> fill.llm + 1, scrolls |-> n]
<1>4. PICK scrolls \in 0..MaxScrollSteps : fill' = now(scrolls)
  <2>1. fill' = now(fill.scrolls) \/ fill' = now(fill.scrolls + 1)
    BY <1>1, Locals DEF WalkActs, FInv
  <2>2. fill.scrolls \in 0..MaxScrollSteps /\ fill.scrolls + 1 \in 0..MaxScrollSteps
    BY <1>1, Locals DEF FInv
  <2>. HIDE DEF now
  <2>. QED
    BY <2>1, <2>2
<1>5. LlmOfLevel' /\ ActsAreCounted'
  BY <1>1, <1>2, <1>4, Locals
  DEF FInv, LlmOfLevel, ActsAreCounted, Unchecked, OfThisLevel
<1>. QED
  BY <1>1, <1>2, <1>3, <1>4, <1>5, Locals, LevelKeeps DEF FInv

\* The last attempt of a level is made within two of the limit, and is the second act
\* that the level has.
LEMMA CleanupKeeps ==
  ASSUME FInv, Cleanup
  PROVE  FInv'
<1>1. fill.pc = "cleanup" /\ fill.depth < MaxDepth /\ ahead' = {} /\ open' = {}
  BY Locals DEF FInv, Places, Cleanup
<1>2. PICK llm \in Nat :
        /\ fill' = [pc |-> "advance", depth |-> fill.depth, llm |-> llm, scrolls |-> fill.scrolls]
        /\ \/ llm = fill.llm /\ acts' \in {acts, acts + 1}
           \/ llm = fill.llm + 1 /\ fill.llm < MaxLlmCalls + 2 /\ acts' = acts + 1
  <2>1. CASE FillAt("advance") /\ UNCHANGED <<value, acts>>
    BY <2>1, Locals DEF FillAt, FInv
  <2>2. CASE FillAt("advance") /\ SafeAct
    BY <2>2, Locals DEF FillAt, FInv, SafeAct
  <2>3. CASE /\ fill' = [fill EXCEPT !.pc = "advance", !.llm = @ + 1]
             /\ fill.llm < MaxLlmCalls + 2 /\ SafeAct
    <3>1. fill.llm + 1 \in Nat
      BY Locals DEF FInv
    <3>2. acts' = acts + 1
      BY <2>3 DEF SafeAct
    <3>3. fill' = [pc |-> "advance", depth |-> fill.depth, llm |-> fill.llm + 1,
                   scrolls |-> fill.scrolls]
      BY <2>3, Locals DEF FInv
    <3>. QED
      BY <2>3, <3>1, <3>2, <3>3
  <2>. QED
    BY <2>1, <2>2, <2>3 DEF Cleanup
<1>3. value' \in [FormFields -> FillValues] /\ acts' \in Nat
  <2>1. CASE UNCHANGED <<value, acts>>
    BY <2>1, Locals DEF FInv
  <2>2. CASE SafeAct
    BY <2>2, ActWrites DEF FInv
  <2>. QED
    BY <2>1, <2>2 DEF Cleanup
<1>4. LlmOfLevel' /\ ActsAreCounted'
  BY <1>1, <1>2, <1>3, Locals
  DEF FInv, LlmOfLevel, ActsAreCounted, Unchecked, OfThisLevel
<1>. QED
  BY <1>1, <1>2, <1>3, <1>4, Locals, LevelKeeps DEF FInv

\* A call within the call begins with what this one may have spent.
LEMMA RefillKeeps ==
  ASSUME FInv, Refill
  PROVE  FInv'
<1>1. fill.pc = "advance" /\ fill.depth < MaxDepth /\ ahead = {}
  BY Locals DEF FInv, Places, Refill
<1>2. /\ fill' = [pc |-> "enter", depth |-> fill.depth + 1, llm |-> fill.llm, scrolls |-> 0]
      /\ UNCHANGED <<open, ahead, acts>>
  BY DEF Refill, Call
<1>3. value' \in [FormFields -> FillValues]
  BY RefusalWrites DEF Refill, FInv
<1>4. fill.llm <= MaxLlmCalls + 2 + (fill.depth + 1)
  BY <1>1, Locals DEF FInv, LlmOfLevel, OfThisLevel
<1>5. LlmOfLevel' /\ ActsAreCounted'
  BY <1>1, <1>2, <1>4, Locals
  DEF FInv, LlmOfLevel, ActsAreCounted, Unchecked, OfThisLevel
<1>6. fill.llm \in 0..(MaxLlmCalls + MaxDepth + 2)
  BY Locals DEF FInv, FillTypeOK
<1>7. FillTypeOK'
  BY <1>1, <1>2, <1>3, <1>6, Locals DEF FInv, FillTypeOK, FillValues
<1>8. Places'
  BY <1>1, <1>2 DEF Places
<1>. QED
  BY <1>5, <1>7, <1>8 DEF FInv

\* A step that makes no call keeps FInv.
LEMMA QuietKeeps ==
  ASSUME FInv, fill.depth < MaxDepth, acts' = acts,
         NEW pc \in Ends \cup {"scan", "upload", "dom", "walk", "cleanup", "advance"},
         NEW scrolls \in 0..MaxScrollSteps,
         fill' = [pc |-> pc, depth |-> fill.depth, llm |-> fill.llm, scrolls |-> scrolls],
         pc \in {"scan", "upload"} => fill.pc \in {"enter", "scan"},
         pc \in {"dom", "walk", "cleanup"} => fill.pc \in {"dom", "walk", "cleanup"},
         value' \in [FormFields -> FillValues],
         open' \subseteq FormFields, ahead' \subseteq open',
         pc \notin {"dom", "cleanup"} => ahead' = {}
  PROVE  FInv'
<1>. DEFINE ofNext == CASE pc \in {"enter", "scan", "upload"} -> 0
                       [] pc \in {"dom", "walk", "cleanup"} -> 1
                       [] OTHER -> 2
<1>1. OfThisLevel' = ofNext /\ OfThisLevel \in 0..2 /\ ofNext \in 0..2
  BY DEF OfThisLevel
<1>2. OfThisLevel <= ofNext
  BY DEF OfThisLevel, Ends
<1>. HIDE DEF ofNext
<1>3. LlmOfLevel'
  BY <1>1, <1>2, Locals DEF FInv, LlmOfLevel
<1>4. ActsAreCounted'
  BY <1>1, <1>2, Locals DEF FInv, ActsAreCounted, Unchecked
<1>. QED
  BY <1>3, <1>4, Locals, LevelKeeps DEF FInv

\* Every step keeps FInv.
LEMMA NextKeepsFInv == FInv /\ [FillNext]_fillVars => FInv'
<1>. SUFFICES ASSUME FInv, [FillNext]_fillVars PROVE FInv'
  OBVIOUS
<1>. USE Locals DEF FInv
<1>1. CASE Enter
  <2>1. /\ fill.pc = "enter" /\ UNCHANGED <<value, open, ahead, acts>> /\ ahead = {}
    BY <1>1 DEF Enter, Places
  <2>2. CASE fill.depth >= MaxDepth
    <3>1. fill' = [pc |-> "complete", depth |-> fill.depth, llm |-> fill.llm, scrolls |-> fill.scrolls]
          /\ fill.depth = MaxDepth
      BY <1>1, <2>2 DEF Enter, FillAt
    <3>. QED
      BY <2>1, <3>1
      DEF FillTypeOK, Places, LlmOfLevel, ActsAreCounted, Unchecked, OfThisLevel, Ends
  <2>3. CASE fill.depth < MaxDepth
    <3>1. PICK pc \in {"review", "scan"} :
            fill' = [pc |-> pc, depth |-> fill.depth, llm |-> fill.llm, scrolls |-> fill.scrolls]
      BY <1>1, <2>3 DEF Enter, FillAt
    <3>. QED
      BY <2>1, <2>3, <3>1, QuietKeeps DEF Ends, FillTypeOK
  <2>. QED
    BY <2>2, <2>3
<1>2. CASE Scan
  <2>1. /\ fill.pc = "scan" /\ fill.depth < MaxDepth /\ ahead' = {} /\ open' \subseteq FormFields
        /\ UNCHANGED <<value, acts>>
    BY <1>2 DEF Scan, Places, Empty
  <2>2. PICK pc \in {"advance", "upload"} :
          fill' = [pc |-> pc, depth |-> fill.depth, llm |-> fill.llm, scrolls |-> fill.scrolls]
    BY <1>2 DEF Scan, FillAt
  <2>. QED
    BY <2>1, <2>2, QuietKeeps
<1>3. CASE UploadResume \/ UploadByLlm
  BY <1>3, UploadKeeps
<1>4. CASE DomFill
  <2>1. fill.pc \in {"dom", "cleanup"} /\ fill.depth < MaxDepth /\ UNCHANGED <<fill, acts>>
    BY <1>4 DEF DomFill, Places
  <2>2. PICK f \in ahead : /\ ahead' = ahead \ {f}
                           /\ \E r \in FillAsScanned(f) :
                                /\ value' \in Brings([value EXCEPT ![f] = r.to])
                                /\ open' = IF r.ok THEN open \ {f} ELSE open
    BY <1>4 DEF DomFill
  <2>3. PICK r \in FillAsScanned(f) : /\ value' \in Brings([value EXCEPT ![f] = r.to])
                                      /\ open' = IF r.ok THEN open \ {f} ELSE open
    BY <2>2
  <2>4. f \in FormFields /\ open \subseteq FormFields /\ ahead \subseteq open
    BY DEF FillTypeOK
  <2>5. r.to \in FillValues
    BY <2>4, DomWrites DEF FillValues
  <2>6. value' \in [FormFields -> FillValues]
    BY <2>3, <2>5, BringsUp
  <2>7. open' \subseteq FormFields /\ ahead' \subseteq open'
    BY <2>2, <2>3, <2>4
  <2>. QED
    BY <2>1, <2>6, <2>7, QuietKeeps
<1>5. CASE CheckRequiredCheckboxes
  <2>1. /\ fill.pc = "dom" /\ fill.depth < MaxDepth /\ ahead = {}
        /\ UNCHANGED <<open, acts>> /\ open \subseteq FormFields
    BY <1>5 DEF CheckRequiredCheckboxes, Places, FillTypeOK
  <2>2. value' \in [FormFields -> FillValues]
    BY <1>5 DEF CheckRequiredCheckboxes, FillValues
  <2>3. PICK pc \in {"walk", "cleanup"} :
          /\ fill' = [pc |-> pc, depth |-> fill.depth, llm |-> fill.llm, scrolls |-> fill.scrolls]
          /\ ahead' \subseteq open /\ (pc = "walk" => ahead' = {})
    BY <1>5, <2>1 DEF CheckRequiredCheckboxes, FillAt
  <2>. QED
    BY <2>1, <2>2, <2>3, QuietKeeps
<1>6. CASE WalkActs
  BY <1>6, WalkKeeps
<1>7. CASE WalkScrolls
  <2>1. /\ fill.pc = "walk" /\ fill.depth < MaxDepth /\ ahead = {}
        /\ UNCHANGED <<value, open, ahead, acts>> /\ open \subseteq FormFields
        /\ fill.scrolls + 1 \in 0..MaxScrollSteps
        /\ fill' = [pc |-> "walk", depth |-> fill.depth, llm |-> fill.llm,
                    scrolls |-> fill.scrolls + 1]
    BY <1>7 DEF WalkScrolls, Places, FillTypeOK
  <2>. QED
    BY <2>1, QuietKeeps
<1>8. CASE WalkEnds
  <2>1. /\ fill.pc = "walk" /\ fill.depth < MaxDepth
        /\ UNCHANGED <<value, open, acts>> /\ open \subseteq FormFields /\ ahead' \subseteq open
        /\ fill' = [pc |-> "cleanup", depth |-> fill.depth, llm |-> fill.llm, scrolls |-> fill.scrolls]
    BY <1>8 DEF WalkEnds, FillAt, Places, FillTypeOK
  <2>. QED
    BY <2>1, QuietKeeps
<1>9. CASE Cleanup
  BY <1>9, CleanupKeeps
<1>10. CASE Refill
  BY <1>10, RefillKeeps
<1>11. CASE Advance
  <2>1. /\ fill.pc = "advance" /\ fill.depth < MaxDepth /\ ahead = {}
        /\ UNCHANGED <<value, open, ahead, acts>> /\ open \subseteq FormFields
    BY <1>11 DEF Advance, Places, FillTypeOK
  <2>2. PICK pc \in {"navigated", "review", "complete"} :
          fill' = [pc |-> pc, depth |-> fill.depth, llm |-> fill.llm, scrolls |-> fill.scrolls]
    BY <1>11 DEF Advance, FillAt
  <2>. QED
    BY <2>1, <2>2, QuietKeeps DEF Ends
<1>12. CASE UNCHANGED fillVars
  BY <1>12
  DEF fillVars, FillTypeOK, Places, LlmOfLevel, ActsAreCounted, Unchecked, OfThisLevel
<1>. QED
  BY <1>1, <1>2, <1>3, <1>4, <1>5, <1>6, <1>7, <1>8, <1>9, <1>10, <1>11, <1>12 DEF FillNext

\* FInv holds in every reachable state.
LEMMA FInvHolds == FillSpec => []FInv
BY InitFInv, NextKeepsFInv, PTL DEF FillSpec

\* Every reachable state of fillPage() has its types.
THEOREM FillTypes == FillSpec => []FillTypeOK
<1>1. FInv => FillTypeOK
  BY DEF FInv
<1>. QED
  BY <1>1, FInvHolds, PTL

\* However often the site sends the handler back into fillPage(), and whatever its scans
\* find, a page costs at most MAX_LLM_CALLS and two more calls for every level.
THEOREM LlmIsBounded == FillSpec => []LlmBounded
<1>1. FInv => LlmBounded
  <2>. SUFFICES ASSUME FInv PROVE LlmBounded
    OBVIOUS
  <2>1. OfThisLevel \in 0..2
    BY DEF OfThisLevel
  <2>2. Unchecked \in Nat /\ Unchecked <= 2 * MaxDepth
    BY <2>1, Locals DEF FInv, Unchecked
  <2>. QED
    BY <2>2, Locals DEF FInv, ActsAreCounted, LlmBounded
<1>. QED
  BY <1>1, FInvHolds, PTL

\* Whichever fields the DOM passes still take for empty, what the LLM or the site has put
\* into a text or a checkbox since the scan is not written over.
THEOREM TextStays == FillSpec => TextIsKept
<1>1. FInv /\ [FillNext]_fillVars =>
        [\A f \in FormFields :
           value[f] = "other" /\ value'[f] = "dom" => Kind[f] \in {"choice", "search"}]_fillVars
  <2>. SUFFICES ASSUME FInv, FillNext, NEW f \in FormFields, value[f] = "other", value'[f] = "dom"
                PROVE  Kind[f] \in {"choice", "search"}
    BY DEF fillVars
  <2>. USE Locals DEF FInv
  <2>1. CASE UploadResume
    BY <2>1, OthersWrite DEF UploadResume
  <2>2. CASE SafeAct
    BY <2>2, ActWrites
  <2>3. CASE DomFill
    <3>. PICK g \in ahead : \E r \in FillAsScanned(g) : value' \in Brings([value EXCEPT ![g] = r.to])
      BY <2>3 DEF DomFill
    <3>1. PICK r \in FillAsScanned(g) : value' \in Brings([value EXCEPT ![g] = r.to])
      OBVIOUS
    <3>2. g \in FormFields
      BY DEF FillTypeOK
    <3>3. r.to \in FillValues
      BY <3>2, DomWrites DEF FillValues
    <3>4. [value EXCEPT ![g] = r.to][f] = "dom"
      BY <3>1, <3>3, BringsUp
    <3>. QED
      BY <3>2, <3>4, DomWrites
  <2>4. CASE CheckRequiredCheckboxes
    BY <2>4 DEF CheckRequiredCheckboxes, Empty
  <2>5. CASE Refill
    BY <2>5, RefusalWrites DEF Refill
  <2>. QED
    BY <2>1, <2>2, <2>3, <2>4, <2>5
    DEF FillNext, Enter, Scan, UploadByLlm, WalkActs, WalkScrolls, WalkEnds, Cleanup, Advance
<1>. QED
  BY <1>1, FInvHolds, PTL DEF FillSpec, TextIsKept

-----------------------------------------------------------------------------
(* Of the scan of a page, for any number of fields, kinds and viewports:   *)
(* two fields come by one selector only as CollidesOnlyLate says.  On a    *)
(* page without test marks that repeat, the running number is beyond every *)
(* number given until two viewports overlap; the first that overlaps still *)
(* begins beyond them.                                                     *)

HasTag(f) == tag[f] # NoTag
HasSelector(f) == f \in Marked \/ HasTag(f)
TagsDiffer == \A f, g \in PageFields : HasTag(f) /\ tag[g] = tag[f] => f = g

\* What was collected is what was shown, and is known by its selector.
Collected ==
  /\ nextIdx = Cardinality(allFields)
  /\ viewports = 0 => viewport.last = 0
  /\ \A f \in PageFields : f > viewport.last => ~HasTag(f) /\ f \notin allFields
  /\ \A f \in Marked : ~HasTag(f)
  /\ \A f \in allFields : HasSelector(f) /\ BuildSelector(f, tag) \in seenSelectors
  /\ \A s \in seenSelectors :
       \E f \in PageFields : f <= viewport.last /\ HasSelector(f) /\ s = BuildSelector(f, tag)

NumbersRun ==
  /\ viewports <= 1 => ~overlapped
  /\ viewports <= 1 => TagsDiffer
  /\ (viewports <= 2 \/ ~overlapped) /\ layout.repeats = {} => TagsDiffer
  /\ ~overlapped /\ layout.repeats = {} => \A f \in PageFields : HasTag(f) => tag[f] < nextIdx

ScanInv == ScanTypeOK /\ Collected /\ NumbersRun

\* The fields of a page are as many as FieldCount.
LEMMA PageIsFinite ==
  /\ IsFiniteSet(PageFields) /\ Cardinality(PageFields) = FieldCount
  /\ \A S \in SUBSET PageFields :
       IsFiniteSet(S) /\ Cardinality(S) \in 0..FieldCount
<1>1. IsFiniteSet(PageFields) /\ Cardinality(PageFields) = FieldCount
  BY FS_Interval, FieldScanAssumption DEF PageFields
<1>2. ASSUME NEW S \in SUBSET PageFields
      PROVE  IsFiniteSet(S) /\ Cardinality(S) \in 0..FieldCount
  BY <1>1, FS_Subset, FS_CardinalityType, FieldScanAssumption
<1>. QED
  BY <1>1, <1>2

\* The place of a field among others is its rank: different for each, and below their number.
LEMMA PlacesAreRanks ==
  ASSUME layout \in Layouts, NEW S \in SUBSET PageFields
  PROVE  /\ \A f \in S : PlaceAmong(f, S) \in Nat /\ PlaceAmong(f, S) < Cardinality(S)
         /\ \A f, g \in S : PlaceAmong(f, S) = PlaceAmong(g, S) => f = g
<1>. DEFINE before(f) == {g \in S : IsBefore(g, f)}
<1>1. \A f \in PageFields : layout.kind[f] \in Nat /\ f \in Nat
  BY FieldScanAssumption DEF Layouts, PageFields
<1>2. IsFiniteSet(S) /\ Cardinality(S) \in Nat
  BY PageIsFinite
<1>3. \A f : before(f) \in SUBSET S /\ IsFiniteSet(before(f)) /\ Cardinality(before(f)) \in Nat
  BY PageIsFinite
<1>4. ASSUME NEW f \in S
      PROVE  PlaceAmong(f, S) \in Nat /\ PlaceAmong(f, S) < Cardinality(S)
  <2>1. f \notin before(f)
    BY <1>1 DEF IsBefore
  <2>2. Cardinality(before(f)) <= Cardinality(S) /\ Cardinality(before(f)) # Cardinality(S)
    BY <1>2, <1>3, <2>1, FS_Subset
  <2>. QED
    BY <1>2, <1>3, <2>2 DEF PlaceAmong
<1>5. ASSUME NEW f \in S, NEW g \in S, IsBefore(g, f)
      PROVE  PlaceAmong(g, S) < PlaceAmong(f, S)
  <2>1. g \in before(f) /\ g \notin before(g)
    BY <1>1, <1>5 DEF IsBefore
  <2>2. before(g) \in SUBSET before(f)
    <3>1. ASSUME NEW h \in S, IsBefore(h, g) PROVE IsBefore(h, f)
      BY <1>1, <1>5, <3>1 DEF IsBefore
    <3>. QED
      BY <3>1
  <2>3. Cardinality(before(g)) <= Cardinality(before(f)) /\ Cardinality(before(g)) # Cardinality(before(f))
    BY <1>3, <2>1, <2>2, FS_Subset
  <2>. QED
    BY <1>3, <2>3 DEF PlaceAmong
<1>6. ASSUME NEW f \in S, NEW g \in S, f # g
      PROVE  IsBefore(g, f) \/ IsBefore(f, g)
  BY <1>1, <1>6 DEF IsBefore
<1>. QED
  BY <1>4, <1>5, <1>6

\* The numbers that a viewport may give are below that of no number.
LEMMA NoTagIsBeyond ==
  ASSUME viewports \in Nat, viewports < MaxViewports
  PROVE  /\ NoTag \in Nat
         /\ FieldCount <= NoTag
         /\ viewports > 0 => 2 * FieldCount <= NoTag
<1>1. FieldCount \in Nat /\ MaxViewports \in Nat /\ MaxViewports >= 1
  BY FieldScanAssumption
<1>2. \A a, b \in Nat : a * b \in Nat /\ (b >= 1 => a <= a * b) /\ (b >= 2 => 2 * a <= a * b)
  BY Z3
<1>3. viewports > 0 => MaxViewports >= 2
  BY <1>1
<1>. QED
  BY <1>1, <1>2, <1>3 DEF NoTag

\* Nothing was scanned.
LEMMA ScanStart == ScanInit => ScanInv
<1>. SUFFICES ASSUME ScanInit PROVE ScanInv
  OBVIOUS
<1>1. viewport = [first |-> 1, last |-> 0] /\ allFields = {} /\ seenSelectors = {} /\ nextIdx = 0
      /\ viewports = 0 /\ overlapped = FALSE /\ tag = [f \in PageFields |-> NoTag]
      /\ layout \in Layouts
  BY DEF ScanInit
<1>2. viewport \in [first : PageFields, last : 0..FieldCount] /\ viewport.last = 0
  BY <1>1, FieldScanAssumption DEF PageFields
<1>3. NoTag \in Nat
  BY FieldScanAssumption DEF NoTag
<1>4. ScanTypeOK
  <2>1. tag \in [PageFields -> 0..NoTag]
    BY <1>1, <1>3
  <2>2. viewports \in 0..MaxViewports /\ nextIdx \in 0..FieldCount
    BY <1>1, FieldScanAssumption
  <2>. QED
    BY <1>1, <1>2, <2>1, <2>2 DEF ScanTypeOK
<1>5. Marked \subseteq PageFields
  BY <1>1 DEF Layouts, Marked
<1>6. Collected /\ NumbersRun
  BY <1>1, <1>2, <1>5, FS_EmptySet DEF Collected, NumbersRun, HasTag, TagsDiffer
<1>. QED
  BY <1>4, <1>6 DEF ScanInv

\* The scan of a viewport keeps ScanInv.
LEMMA ScanStep == ScanInv /\ [CollectVisibleFields]_scanVars => ScanInv'
<1>. SUFFICES ASSUME ScanInv, CollectVisibleFields
              PROVE  ScanInv'
  <2>1. UNCHANGED scanVars /\ ScanInv => ScanInv'
    BY DEF scanVars, ScanInv, ScanTypeOK, Collected, NumbersRun, HasTag, HasSelector, TagsDiffer,
           BuildSelector, Marked
  <2>. QED
    BY <2>1
<1>. PICK first \in PageFields, last \in PageFields :
       /\ viewports < MaxViewports /\ Below(first, last)
       /\ tag' = Tagged(first..last)
       /\ LET selector(f) == BuildSelector(f, tag')
              isNew(f) == /\ selector(f) \notin seenSelectors
                          /\ \A g \in first..last : IsBefore(g, f) => selector(g) # selector(f)
              new == {f \in first..last : isNew(f)} IN
            /\ allFields' = allFields \cup new
            /\ nextIdx' = nextIdx + Cardinality(new)
            /\ seenSelectors' = seenSelectors \cup {selector(f) : f \in first..last}
       /\ overlapped' = (overlapped \/ first <= viewport.last)
       /\ viewport' = [first |-> first, last |-> last]
       /\ viewports' = viewports + 1
       /\ UNCHANGED layout
  BY DEF CollectVisibleFields
<1>. DEFINE fields == first..last
            new == {f \in fields : /\ BuildSelector(f, tag') \notin seenSelectors
                                   /\ \A g \in fields : IsBefore(g, f) =>
                                        BuildSelector(g, tag') # BuildSelector(f, tag')}
<1>t. /\ layout \in Layouts /\ Marked \in SUBSET PageFields
      /\ viewport \in [first : PageFields, last : 0..FieldCount]
      /\ viewports \in 0..MaxViewports /\ nextIdx \in 0..FieldCount /\ tag \in [PageFields -> 0..NoTag]
      /\ allFields \in SUBSET PageFields /\ overlapped \in BOOLEAN /\ viewports \in Nat
      /\ nextIdx \in Nat
  BY FieldScanAssumption DEF ScanInv, ScanTypeOK, Layouts, Marked
<1>s. /\ allFields' = allFields \cup new /\ nextIdx' = nextIdx + Cardinality(new)
      /\ seenSelectors' = seenSelectors \cup {BuildSelector(f, tag') : f \in fields}
  OBVIOUS
<1>f. /\ fields \in SUBSET PageFields /\ new \in SUBSET fields /\ first \in fields
      /\ viewport'.last = last /\ viewport.last <= last /\ viewport.last \in Nat
      /\ first >= 1 /\ first \in Nat /\ last \in Nat
      /\ \A f \in PageFields : f \in Nat
      /\ \A f \in PageFields : f > last => f \notin fields /\ f > viewport.last
      /\ \A f \in fields : f <= last /\ f >= first
  BY <1>t, FieldScanAssumption DEF Below, PageFields
<1>c. IsFiniteSet(fields) /\ Cardinality(fields) \in Nat /\ Cardinality(fields) <= FieldCount
  BY <1>f, PageIsFinite, FieldScanAssumption
<1>n. /\ NoTag \in Nat /\ FieldCount <= NoTag
      /\ viewports > 0 => 2 * FieldCount <= NoTag
      /\ FieldCount \in Nat
  BY <1>t, NoTagIsBeyond, FieldScanAssumption
<1>z. /\ viewports = 0 => viewport.last = 0 /\ nextIdx = 0 /\ allFields = {}
      /\ viewports = 0 => \A f \in PageFields : ~HasTag(f)
  <2>1. viewports = 0 => allFields = {} /\ \A f \in PageFields : ~HasTag(f)
    BY <1>t, <1>f, FieldScanAssumption DEF ScanInv, Collected, PageFields
  <2>. QED
    BY <2>1, FS_EmptySet DEF ScanInv, Collected
<1>. HIDE DEF new
<1>u. UNCHANGED layout /\ viewports' = viewports + 1 /\ tag' = Tagged(fields)
      /\ overlapped' = (overlapped \/ first <= viewport.last)
      /\ viewport' = [first |-> first, last |-> last] /\ viewports < MaxViewports
  OBVIOUS
<1>. HIDE DEF fields
\* A number given is new, in bounds and not the last one that stands for none.
<1>1. ASSUME NEW f \in fields, f \notin Marked, ~HasTag(f)
      PROVE  /\ tag'[f] = nextIdx + PlaceAmong(f, fields)
             /\ tag'[f] \in Nat /\ nextIdx <= tag'[f] /\ tag'[f] < nextIdx + Cardinality(fields)
             /\ tag'[f] < NoTag
  <2>1. tag'[f] = nextIdx + PlaceAmong(f, fields)
    BY <1>u, <1>f, <1>1 DEF Tagged, HasTag
  <2>2. PlaceAmong(f, fields) \in Nat /\ PlaceAmong(f, fields) < Cardinality(fields)
    BY <1>t, <1>f, PlacesAreRanks
  <2>3. nextIdx + Cardinality(fields) <= NoTag
    BY <1>t, <1>c, <1>n, <1>z
  <2>. QED
    BY <1>t, <1>c, <1>n, <2>1, <2>2, <2>3
<1>2. ASSUME NEW f \in PageFields, f \notin fields \/ f \in Marked \/ HasTag(f)
      PROVE  tag'[f] = tag[f]
  BY <1>u, <1>2 DEF Tagged, HasTag
<1>3. tag' \in [PageFields -> 0..NoTag]
  <2>1. \A f \in PageFields : tag'[f] \in 0..NoTag
    BY <1>1, <1>2, <1>t, <1>n
  <2>2. tag' = [f \in PageFields |-> tag'[f]]
    BY <1>u DEF Tagged
  <2>. QED
    BY <2>1, <2>2
<1>h. NoTag' = NoTag /\ Marked' = Marked
  BY <1>u DEF NoTag, Marked
<1>4. \A f \in fields : HasSelector(f)'
  BY <1>1, <1>n, <1>u, <1>f, <1>2, <1>h DEF HasSelector, HasTag
<1>5. \A f \in PageFields : HasSelector(f) =>
        HasSelector(f)' /\ BuildSelector(f, tag') = BuildSelector(f, tag)
  BY <1>2, <1>u, <1>h DEF HasSelector, HasTag, BuildSelector
<1>6. new \cap allFields = {}
  <2>. SUFFICES ASSUME NEW f \in new, f \in allFields PROVE FALSE
    OBVIOUS
  <2>1. BuildSelector(f, tag) \in seenSelectors /\ HasSelector(f)
    BY DEF ScanInv, Collected
  <2>2. BuildSelector(f, tag') \in seenSelectors
    BY <1>5, <1>t, <2>1
  <2>. QED
    BY <2>2 DEF new
<1>7. nextIdx' = Cardinality(allFields') /\ nextIdx' \in 0..FieldCount /\ allFields' \in SUBSET PageFields
  <2>1. IsFiniteSet(new) /\ IsFiniteSet(allFields)
    BY <1>f, <1>t, PageIsFinite
  <2>2. Cardinality(allFields \cup new) = Cardinality(allFields) + Cardinality(new)
    <3>1. allFields \cap new = {}
      BY <1>6
    <3>2. Cardinality(allFields \cap new) = 0
      BY <3>1, FS_EmptySet
    <3>3. Cardinality(allFields) \in Nat /\ Cardinality(new) \in Nat
      BY <2>1, FS_CardinalityType
    <3>4. Cardinality(allFields \cup new)
             = Cardinality(allFields) + Cardinality(new) - Cardinality(allFields \cap new)
      BY <2>1, FS_Union
    <3>. QED
      BY <3>2, <3>3, <3>4
  <2>3. allFields' \in SUBSET PageFields
    BY <1>f, <1>t, <1>s
  <2>. QED
    BY <1>s, <2>2, <2>3, PageIsFinite DEF ScanInv, Collected
<1>8. ScanTypeOK'
  <2>1. viewport' \in [first : PageFields, last : 0..FieldCount]
    BY <1>u, FieldScanAssumption DEF PageFields
  <2>2. viewports' \in 0..MaxViewports
    BY <1>u, <1>t, FieldScanAssumption
  <2>3. overlapped' \in BOOLEAN
    BY <1>u, <1>t
  <2>. QED
    BY <1>u, <1>t, <1>3, <1>7, <1>h, <2>1, <2>2, <2>3 DEF ScanTypeOK
<1>9. Collected'
  <2>1. viewports' # 0
    BY <1>u, <1>t
  <2>2. \A f \in PageFields : f > viewport'.last => ~HasTag(f)' /\ f \notin allFields'
    <3>. SUFFICES ASSUME NEW f \in PageFields, f > last
                  PROVE  ~HasTag(f)' /\ f \notin allFields'
      BY <1>f
    <3>1. f \notin fields /\ f > viewport.last /\ ~HasTag(f) /\ f \notin allFields
      BY <1>f DEF ScanInv, Collected
    <3>. QED
      BY <1>f, <1>s, <1>2, <1>h, <3>1 DEF HasTag
  <2>3. \A f \in Marked' : ~HasTag(f)'
    BY <1>2, <1>t, <1>u, <1>h DEF HasTag, ScanInv, Collected
  <2>4. \A f \in allFields' : HasSelector(f)' /\ BuildSelector(f, tag)' \in seenSelectors'
    <3>1. ASSUME NEW f \in allFields
          PROVE  HasSelector(f)' /\ BuildSelector(f, tag)' \in seenSelectors'
      BY <1>5, <1>t, <1>s, <1>u DEF ScanInv, Collected, BuildSelector
    <3>2. ASSUME NEW f \in new
          PROVE  HasSelector(f)' /\ BuildSelector(f, tag)' \in seenSelectors'
      BY <1>4, <1>f, <1>s, <1>u DEF BuildSelector
    <3>. QED
      BY <1>s, <3>1, <3>2
  <2>5. \A s \in seenSelectors' :
          \E f \in PageFields : f <= viewport'.last /\ HasSelector(f)' /\ s = BuildSelector(f, tag)'
    <3>1. ASSUME NEW s \in seenSelectors
          PROVE  \E f \in PageFields : f <= viewport'.last /\ HasSelector(f)' /\ s = BuildSelector(f, tag)'
      <4>. PICK f \in PageFields : f <= viewport.last /\ HasSelector(f) /\ s = BuildSelector(f, tag)
        BY DEF ScanInv, Collected
      <4>1. f <= last
        BY <1>f
      <4>2. BuildSelector(f, tag)' = BuildSelector(f, tag')
        BY <1>u DEF BuildSelector
      <4>. QED
        BY <1>5, <1>f, <4>1, <4>2
    <3>2. ASSUME NEW f \in fields
          PROVE  f \in PageFields /\ f <= viewport'.last /\ HasSelector(f)'
                 /\ BuildSelector(f, tag') = BuildSelector(f, tag)'
      BY <1>4, <1>f, <1>u DEF BuildSelector
    <3>. QED
      BY <1>s, <3>1, <3>2
  <2>. QED
    BY <1>7, <2>1, <2>2, <2>3, <2>4, <2>5 DEF Collected
<1>10. NumbersRun'
  <2>1. viewports' <= 1 => ~overlapped'
    BY <1>u, <1>t, <1>f, <1>z DEF ScanInv, NumbersRun
  \* With the first viewport, before two have overlapped, and with the second, they differ.
  <2>2. ASSUME ~overlapped, viewports = 0 \/ layout.repeats = {}
        PROVE  TagsDiffer'
    <3>. SUFFICES ASSUME NEW f \in PageFields, NEW g \in PageFields, HasTag(f)', tag'[g] = tag'[f],
                         f # g
                  PROVE  FALSE
      BY DEF TagsDiffer, PageFields
    <3>1. HasTag(g)'
      BY <1>h DEF HasTag
    <3>2. \A h \in PageFields : HasTag(h) => tag[h] < nextIdx /\ tag[h] \in Nat
      BY <2>2, <1>t, <1>n, <1>z DEF ScanInv, NumbersRun
    <3>3. \A h \in PageFields : HasTag(h)' /\ ~HasTag(h) => h \in fields /\ h \notin Marked
      BY <1>2, <1>h DEF HasTag
    <3>4. HasTag(f) /\ HasTag(g) => f = g
      BY <1>2, <1>z, <2>2 DEF ScanInv, NumbersRun, TagsDiffer
    <3>5. ~HasTag(f) /\ ~HasTag(g) => f = g
      <4>. SUFFICES ASSUME ~HasTag(f), ~HasTag(g) PROVE f = g
        OBVIOUS
      <4>1. /\ tag'[f] = nextIdx + PlaceAmong(f, fields) /\ tag'[g] = nextIdx + PlaceAmong(g, fields)
            /\ f \in fields /\ g \in fields
        BY <1>1, <3>1, <3>3
      <4>2. PlaceAmong(f, fields) \in Nat /\ PlaceAmong(g, fields) \in Nat
        BY <1>t, <1>f, <4>1, PlacesAreRanks
      <4>3. PlaceAmong(f, fields) = PlaceAmong(g, fields)
        BY <1>t, <4>1, <4>2
      <4>. QED
        BY <1>t, <1>f, <4>1, <4>3, PlacesAreRanks
    <3>6. HasTag(f) /\ ~HasTag(g) => FALSE
      BY <1>1, <1>2, <1>t, <3>1, <3>2, <3>3
    <3>7. ~HasTag(f) /\ HasTag(g) => FALSE
      BY <1>1, <1>2, <1>t, <3>1, <3>2, <3>3
    <3>. QED
      BY <3>4, <3>5, <3>6, <3>7
  <2>3. /\ viewports' <= 2 \/ ~overlapped' => ~overlapped
        /\ viewports' <= 1 => viewports = 0 /\ ~overlapped
        /\ layout'.repeats = layout.repeats
    BY <1>u, <1>t DEF ScanInv, NumbersRun
  \* Where the viewport shows only what is new, all of it is collected.
  <2>4. ASSUME ~overlapped', layout.repeats = {}
        PROVE  \A f \in PageFields : HasTag(f)' => tag'[f] < nextIdx'
    <3>1. ~overlapped /\ first > viewport.last
      <4>1. ~overlapped /\ ~(first <= viewport.last)
        BY <1>u, <2>4
      <4>2. first \in Nat /\ viewport.last \in Nat
        BY <1>t, <1>f, FieldScanAssumption DEF PageFields
      <4>. QED
        BY <4>1, <4>2
    <3>2. \A f \in fields : f > viewport.last /\ ~HasTag(f)
      BY <1>f, <3>1 DEF ScanInv, Collected
    <3>3. \A h \in PageFields : HasTag(h) => tag[h] < nextIdx /\ tag[h] \in Nat
      BY <2>4, <3>1, <1>t, <1>n DEF ScanInv, NumbersRun
    <3>4. \A f \in fields : BuildSelector(f, tag') \notin seenSelectors
      <4>. SUFFICES ASSUME NEW f \in fields, NEW g \in PageFields, g <= viewport.last, HasSelector(g),
                           BuildSelector(f, tag') = BuildSelector(g, tag)
                    PROVE  FALSE
        BY DEF ScanInv, Collected
      <4>1. f # g
        BY <1>f, <3>2
      <4>2. CASE f \in layout.ids
        BY <2>4, <4>1, <4>2 DEF BuildSelector
      <4>3. CASE f \notin layout.ids
        <5>1. f \notin Marked /\ g \notin Marked /\ tag'[f] = tag[g]
          BY <2>4, <4>3 DEF BuildSelector, Marked
        <5>2. tag[g] < nextIdx /\ tag[g] \in Nat
          BY <3>3, <5>1 DEF HasSelector
        <5>. QED
          BY <1>1, <1>t, <3>2, <4>3, <5>1, <5>2
      <4>. QED
        BY <4>2, <4>3
    <3>5. \A f, g \in fields : f # g => BuildSelector(f, tag') # BuildSelector(g, tag')
      <4>. SUFFICES ASSUME NEW f \in fields, NEW g \in fields, f # g,
                           BuildSelector(f, tag') = BuildSelector(g, tag')
                    PROVE  FALSE
        OBVIOUS
      <4>1. f \notin Marked /\ g \notin Marked /\ tag'[f] = tag'[g]
        BY <2>4 DEF BuildSelector, Marked
      <4>2. PlaceAmong(f, fields) = PlaceAmong(g, fields)
        <5>1. PlaceAmong(f, fields) \in Nat /\ PlaceAmong(g, fields) \in Nat
          BY <1>t, <1>f, PlacesAreRanks
        <5>2. nextIdx + PlaceAmong(f, fields) = nextIdx + PlaceAmong(g, fields)
          BY <1>1, <3>2, <4>1
        <5>. QED
          BY <1>t, <5>1, <5>2
      <4>. QED
        BY <1>t, <1>f, <4>2, PlacesAreRanks
    <3>6. new = fields
      <4>1. \A f, g \in fields : IsBefore(g, f) => g # f
        <5>1. \A f \in PageFields : layout.kind[f] \in Nat /\ f \in Nat
          BY <1>t, FieldScanAssumption DEF Layouts, PageFields
        <5>. QED
          BY <1>f, <5>1 DEF IsBefore
      <4>. QED
        BY <3>4, <3>5, <4>1 DEF new
    <3>7. nextIdx' = nextIdx + Cardinality(fields)
      BY <1>s, <3>6
    <3>8. ASSUME NEW f \in PageFields, HasTag(f)'
          PROVE  tag'[f] < nextIdx'
      <4>1. CASE HasTag(f)
        BY <1>2, <1>t, <1>c, <3>3, <3>7, <4>1
      <4>2. CASE ~HasTag(f)
        BY <1>1, <1>2, <1>h, <3>7, <3>8, <4>2 DEF HasTag
      <4>. QED
        BY <4>1, <4>2
    <3>. QED
      BY <3>8
  <2>. QED
    BY <2>1, <2>2, <2>3, <2>4 DEF NumbersRun
<1>. QED
  BY <1>8, <1>9, <1>10 DEF ScanInv

\* The variables of the scan have their types.
THEOREM ScanTypes == ScanSpec => []ScanTypeOK
BY ScanStart, ScanStep, PTL DEF ScanSpec, ScanInv

\* Two fields come by one selector only late: after two viewports overlapped, or where
\* test marks repeat.
THEOREM SelectorsCollideLate == ScanSpec => []CollidesOnlyLate
<1>1. ScanInv => CollidesOnlyLate
  <2>. SUFFICES ASSUME ScanInv, NEW f \in Addressed, NEW g \in Addressed, f # g,
                       ~({f, g} \subseteq layout.repeats),
                       BuildSelector(f, tag) = BuildSelector(g, tag)
                PROVE  (viewports > 2 /\ overlapped) \/ (viewports > 1 /\ layout.repeats # {})
    BY DEF CollidesOnlyLate
  <2>1. f \notin Marked /\ g \notin Marked /\ tag[f] = tag[g] /\ HasTag(f)
    BY DEF BuildSelector, Addressed, HasTag, Marked
  <2>2. ~TagsDiffer
    BY <2>1 DEF TagsDiffer, Addressed
  <2>3. viewports \in Nat /\ overlapped \in BOOLEAN
    BY FieldScanAssumption DEF ScanInv, ScanTypeOK
  <2>. QED
    BY <2>2, <2>3 DEF ScanInv, NumbersRun
<1>. QED
  BY <1>1, ScanStart, ScanStep, PTL DEF ScanSpec

-----------------------------------------------------------------------------
(* One field of a generic page, scanned and filled: whatever is done with  *)
(* it, what was reported as filled is left with a value that the next scan *)
(* takes for one, but for the exceptions that FilledIsNotReopened names.   *)

\* A value that counts as one: a select has the answer, anything else is not empty.
Kept ==
  \/ element.kind \in {"date", "number"} /\ element.at = 0
  \/ element.kind \in Dropdowns /\ element.elsewhere
  \/ element.kind = "radio"
  \/ chosen # NoValue /\ element.kind # "styled" /\ (element.kind = "select" => chosen = element.at)

\* The inductive invariant: what is tried again was read as open, and has its value still.
FilledInv ==
  /\ ScanFillTypeOK
  /\ stage = "scan" => scans < MaxScans
  /\ stage = "dom" => Reading(record.seen) = "open"
  /\ own => Kept

\* What an element has, by its kind.
LEMMA ElementKinds ==
  ASSUME NEW e \in Elements
  PROVE  /\ e.kind = "text" => e.at = 1
         /\ e.kind \in {"checkbox", "date", "number"} => e.at \in {0, 1}
         /\ e.kind \in {"select", "styled", "radio", "ariaGroup", "ariaSingle"} \cup Texts \cup Plain \cup Dropdowns
         /\ e.at \in 0..OptionCount
         /\ e.prompt \in BOOLEAN /\ e.telling \in BOOLEAN /\ e.elsewhere \in BOOLEAN /\ e.follows \in BOOLEAN
         /\ e.kind \notin Dropdowns => ~e.elsewhere /\ ~e.follows
<1>. DEFINE ats == {0} \cup Options
<1>a. ats \in SUBSET (0..OptionCount) /\ {0, 1} \in SUBSET (0..OptionCount)
  BY ScanFillAssumption DEF Options
<1>1. CASE e \in ElementsOf({"text", "file", "upload_button", "contenteditable"}, {1}, {TRUE}, {TRUE}, {FALSE})
  BY <1>a, <1>1 DEF ElementsOf, Dropdowns, Plain, Texts
<1>2. CASE e \in ElementsOf({"checkbox", "date", "number"}, {0, 1}, {TRUE}, {TRUE}, {FALSE})
  BY <1>a, <1>2 DEF ElementsOf, Dropdowns, Plain, Texts
<1>3. CASE e \in ElementsOf({"radio", "ariaGroup", "ariaSingle"}, ats, {TRUE}, {TRUE}, {FALSE})
  BY <1>a, <1>3 DEF ElementsOf, Dropdowns, Plain, Texts
<1>4. CASE e \in ElementsOf({"select"}, ats, BOOLEAN, {TRUE}, {FALSE})
  BY <1>a, <1>4 DEF ElementsOf, Dropdowns, Plain, Texts
<1>5. CASE e \in ElementsOf({"styled"}, {1}, BOOLEAN, BOOLEAN, {FALSE})
  BY <1>a, <1>5 DEF ElementsOf, Dropdowns, Plain, Texts
<1>6. CASE e \in ElementsOf(Dropdowns, ats, BOOLEAN, BOOLEAN, BOOLEAN)
  BY <1>a, <1>6 DEF ElementsOf, Dropdowns, Plain, Texts
<1>. QED
  BY <1>1, <1>2, <1>3, <1>4, <1>5, <1>6 DEF Elements

\* The radios up to the answer are as many as its place, if all of them are seen.
LEMMA RadiosUpTo ==
  ASSUME NEW seen \in SUBSET Options, NEW at \in seen
  PROVE  /\ Cardinality({o \in seen : o <= at}) \in 0..OptionCount
         /\ Cardinality({o \in seen : o <= at}) # 0
         /\ (\A o \in Options : o < at => o \in seen) => Cardinality({o \in seen : o <= at}) = at
<1>. DEFINE upTo == {o \in seen : o <= at}
<1>1. /\ IsFiniteSet(Options) /\ Cardinality(Options) = OptionCount
      /\ IsFiniteSet(1..at) /\ Cardinality(1..at) = at
  <2>1. OptionCount \in Nat /\ at \in Nat /\ at >= 1
    BY ScanFillAssumption DEF Options
  <2>. QED
    BY <2>1, FS_Interval DEF Options
<1>2. IsFiniteSet(upTo) /\ Cardinality(upTo) \in Nat /\ Cardinality(upTo) <= OptionCount
  BY <1>1, FS_Subset, FS_CardinalityType
<1>3. Cardinality(upTo) # 0
  <2>1. at \in upTo
    BY ScanFillAssumption DEF Options
  <2>. QED
    BY <1>2, <2>1, FS_EmptySet
<1>4. ASSUME \A o \in Options : o < at => o \in seen
      PROVE  Cardinality(upTo) = at
  <2>1. at \in 1..OptionCount /\ OptionCount \in Nat
    BY ScanFillAssumption DEF Options
  <2>2. ASSUME NEW o \in 1..at
        PROVE  o \in upTo
    BY <1>4, <2>1, <2>2 DEF Options
  <2>3. ASSUME NEW o \in upTo
        PROVE  o \in 1..at
    BY <2>1, <2>3 DEF Options
  <2>. QED
    BY <1>1, <2>2, <2>3
<1>. QED
  BY <1>2, <1>3, <1>4, ScanFillAssumption

\* The radio that the answer's place among those of the scan is clicked as.
RadioClicked == Cardinality({o \in record.seen : o <= element.at})

\* What the ways to fill return, by the kind of element.
IsReturned(r) ==
  /\ r.ok \in BOOLEAN /\ r.to \in 0..Leftover
  /\ r.ok => element.kind # "styled"
  /\ r.ok => \/ r.to = element.at /\ element.at # 0
             \/ r.to = 1 /\ element.kind = "checkbox"
             \/ r.to = NoValue /\ element.kind \in {"date", "number"} /\ element.at = 0
             \/ element.kind = "radio" /\ element.at \in record.seen /\ r.to = RadioClicked
             \/ element.kind \in Dropdowns /\ element.elsewhere
  /\ ~r.ok => r.to = chosen \/ element.kind = "combobox" \/ element.follows

\* All that comes of an element is returned by one of the ways to fill it, or failed.
LEMMA FillsOrFails ==
  ASSUME FilledInv, NEW r \in FillScannedField \cup Failed
  PROVE  IsReturned(r)
<1>t. /\ chosen \in 0..Leftover /\ OptionCount \in Nat /\ OptionCount >= 1 /\ element \in Elements
      /\ record.seen \in SUBSET Options /\ Leftover = OptionCount + 1 /\ NoValue = 0
  BY ScanFillAssumption DEF FilledInv, ScanFillTypeOK, Records, Leftover, NoValue
<1>k. /\ element.at \in 0..OptionCount /\ (element.kind = "text" => element.at = 1)
      /\ (element.kind \in {"date", "number"} => element.at \in {0, 1})
      /\ element.elsewhere \in BOOLEAN /\ element.follows \in BOOLEAN
  BY <1>t, ElementKinds
<1>d. ASSUME NEW v, r \in Done(v)
      PROVE  r.ok = TRUE /\ r.to = v
  BY <1>d DEF Done
<1>f. r \in Failed => r.ok = FALSE /\ r.to = chosen
  BY DEF Failed
<1>1. CASE r \in Failed
  BY <1>1, <1>t, <1>f DEF IsReturned
<1>b. 0..OptionCount \in SUBSET (0..Leftover) /\ 0 \in 0..OptionCount /\ 1 \in 0..OptionCount
  BY <1>t
\* What is left to show of a way that says it has filled.
<1>g. ASSUME NEW v \in 0..OptionCount, r \in Done(v), element.kind # "styled",
             \/ v = element.at /\ element.at # 0
             \/ v = 1 /\ element.kind = "checkbox"
             \/ v = NoValue /\ element.kind \in {"date", "number"} /\ element.at = 0
             \/ element.kind = "radio" /\ element.at \in record.seen /\ v = RadioClicked
      PROVE  IsReturned(r)
  <2>1. r.ok = TRUE /\ r.to = v /\ v \in 0..Leftover
    BY <1>b, <1>d, <1>g
  <2>. QED
    BY <1>g, <2>1 DEF IsReturned
<1>2. CASE element.kind \in Texts \cup {"date"} /\ r \in FillText
  <2>1. r \in Failed \/ (r \in Done(NoValue) /\ element.at = 0) \/ (r \in Done(1) /\ element.at # 0)
    BY <1>2 DEF FillText
  <2>. QED
    BY <1>1, <1>2, <1>b, <1>g, <1>k, <1>t, <2>1 DEF Texts
<1>3. CASE element.kind = "select" /\ r \in FillSelect
  BY <1>1, <1>3, <1>g, <1>k DEF FillSelect
<1>4. CASE element.kind = "checkbox" /\ r \in FillByClick
  BY <1>1, <1>4, <1>b, <1>g DEF FillByClick
<1>5. CASE element.kind = "radio" /\ r \in FillNativeRadio
  <2>1. element.at \in record.seen => RadioClicked \in 0..OptionCount
    BY <1>t, RadiosUpTo DEF RadioClicked
  <2>2. r \in Failed \/ (element.at \in record.seen /\ r \in Done(RadioClicked))
    BY <1>5 DEF FillNativeRadio, RadioClicked
  <2>. QED
    BY <1>1, <1>5, <1>g, <2>1, <2>2
<1>6. CASE element.kind \in {"ariaGroup", "ariaSingle"} /\ r \in FillAriaRadio
  BY <1>1, <1>6, <1>g, <1>k DEF FillAriaRadio
<1>7. ASSUME NEW left \in SUBSET (0..Leftover), r \in ArrowScrollToOption(left), element.kind \in Dropdowns,
             left = {chosen} \/ element.kind = "combobox"
      PROVE  /\ r.ok \in BOOLEAN /\ r.to \in 0..Leftover
             /\ r.ok => (r.to = element.at /\ element.at # 0) \/ element.elsewhere
             /\ ~r.ok => r.to = chosen \/ element.kind = "combobox" \/ element.follows
  <2>1. CASE element.at # 0 /\ r \in Done(element.at)
    <3>1. r.ok = TRUE /\ r.to = element.at
      BY <2>1, <1>d
    <3>. QED
      BY <2>1, <3>1, <1>b, <1>k
  <2>2. CASE element.elsewhere /\ r \in {[ok |-> TRUE, to |-> v] : v \in left}
    <3>1. PICK v \in left : r = [ok |-> TRUE, to |-> v]
      BY <2>2
    <3>2. r.ok = TRUE /\ r.to = v /\ v \in 0..Leftover
      BY <1>7, <3>1
    <3>. QED
      BY <2>2, <3>2
  <2>3. CASE r \in {[ok |-> FALSE, to |-> v] : v \in left \cup IF element.follows THEN Options ELSE {}}
    <3>1. PICK v \in left \cup IF element.follows THEN Options ELSE {} : r = [ok |-> FALSE, to |-> v]
      BY <2>3
    <3>2. r.ok = FALSE /\ r.to = v
      BY <3>1
    <3>3. v \in 0..Leftover
      BY <1>7, <1>t DEF Options
    <3>4. v = chosen \/ element.kind = "combobox" \/ element.follows
      BY <1>7
    <3>. QED
      BY <3>2, <3>3, <3>4
  <2>. QED
    BY <1>7, <2>1, <2>2, <2>3 DEF ArrowScrollToOption
<1>8. CASE element.kind = "combobox" /\ r \in FillSearchableDropdown
  <2>1. {NoValue, Leftover} \in SUBSET (0..Leftover)
    BY <1>t
  <2>. QED
    BY <1>1, <1>7, <1>8, <2>1 DEF FillSearchableDropdown, Dropdowns, IsReturned
<1>9. CASE element.kind = "listbox" /\ r \in FillClickableDropdown
  BY <1>t, <1>7, <1>9 DEF FillClickableDropdown, Dropdowns, IsReturned
<1>. QED
  BY <1>1, <1>2, <1>3, <1>4, <1>5, <1>6, <1>8, <1>9 DEF FillScannedField, FillByClickOption, Dropdowns, Texts

\* A value that counts as one is not read as none.
LEMMA KeptIsFull ==
  ASSUME FilledInv, own, stage = "dom"
  PROVE  \/ element.kind \in {"date", "number"} /\ element.at = 0
         \/ element.kind \in Dropdowns /\ (element.elsewhere \/ ~element.telling)
         \/ element.kind = "select" /\ ~element.prompt /\ element.at = 1
         \/ element.kind = "radio" /\ chosen \notin record.seen
<1>1. Kept /\ Reading(record.seen) = "open" /\ element \in Elements
  BY DEF FilledInv, ScanFillTypeOK
<1>2. /\ element.prompt \in BOOLEAN /\ element.telling \in BOOLEAN
      /\ element.kind \in {"select", "styled", "radio", "ariaGroup", "ariaSingle"} \cup Texts \cup Plain \cup Dropdowns
  BY <1>1, ElementKinds
<1>3. CASE element.kind = "select"
  BY <1>1, <1>2, <1>3 DEF Kept, Reading, ReadSelect, NoValue, Dropdowns, Plain, Texts
<1>4. CASE element.kind \in Dropdowns
  BY <1>1, <1>2, <1>4 DEF Kept, Reading, ReadDropdown, NoValue, Dropdowns, Plain, Texts
<1>5. CASE element.kind = "styled"
  BY <1>1, <1>2, <1>5 DEF Kept, Reading, ReadStyled, NoValue, Dropdowns, Plain, Texts
<1>6. CASE element.kind = "radio"
  BY <1>1, <1>6 DEF Reading, ReadRadio, Dropdowns, Plain, Texts
<1>7. CASE element.kind \in {"ariaGroup", "ariaSingle"} \cup Texts \cup Plain
  BY <1>1, <1>2, <1>7 DEF Kept, Reading, ReadText, ReadPlain, ReadAria, ByValue, NoValue, Dropdowns, Plain, Texts
<1>. QED
  BY <1>2, <1>3, <1>4, <1>5, <1>6, <1>7

\* The element has not been scanned.
LEMMA ScanFillStart == ScanFillInit => FilledInv
<1>. SUFFICES ASSUME ScanFillInit PROVE FilledInv
  OBVIOUS
<1>1. record \in Records /\ record.filled = FALSE
  <2>1. record = [reading |-> "unlisted", seen |-> {}, filled |-> FALSE]
    BY DEF ScanFillInit
  <2>. QED
    BY <2>1 DEF Records
<1>2. chosen \in 0..Leftover
  BY ScanFillAssumption DEF ScanFillInit, Possible, Options, NoValue, Leftover
<1>3. scans \in 0..MaxScans /\ scans < MaxScans
  BY ScanFillAssumption DEF ScanFillInit
<1>. QED
  BY <1>1, <1>2, <1>3 DEF ScanFillInit, FilledInv, ScanFillTypeOK

\* Every step of the element keeps FilledInv.
LEMMA ScanFillStep == FilledInv /\ [ScanFillNext]_scanFillVars => FilledInv'
<1>. SUFFICES ASSUME FilledInv, [ScanFillNext]_scanFillVars PROVE FilledInv'
  OBVIOUS
<1>t. /\ element \in Elements /\ chosen \in 0..Leftover /\ record \in Records
      /\ stage \in {"scan", "dom", "walk", "cleanup", "advance", "over"}
      /\ scans \in 0..MaxScans /\ own \in BOOLEAN /\ MaxScans \in Nat /\ scans \in Nat
  BY ScanFillAssumption DEF FilledInv, ScanFillTypeOK
<1>1. CASE ScanElement
  <2>1. PICK seen \in IF element.kind = "radio" THEN SUBSET Options ELSE {Options} :
          record' = [reading |-> Reading(seen), seen |-> seen, filled |-> FALSE]
    BY <1>1 DEF ScanElement
  <2>2. record'.reading = Reading(seen) /\ record'.seen = seen /\ seen \in SUBSET Options
    BY <2>1
  <2>3. Reading(seen) \in {"open", "full", "unlisted"}
    BY DEF Reading, ReadText, ReadPlain, ByValue, ReadSelect, ReadDropdown, ReadStyled, ReadRadio, ReadAria
  <2>4. record' \in Records
    BY <2>1, <2>2, <2>3 DEF Records
  <2>5. Reading(seen)' = Reading(seen)
    BY <1>1 DEF ScanElement, Reading, ReadText, ReadPlain, ByValue, ReadSelect, ReadDropdown, ReadStyled,
       ReadRadio, ReadAria
  <2>6. stage' \in {"dom", "over"} /\ (stage' = "dom" => Reading(record.seen)' = "open")
    BY <1>1, <2>2, <2>5 DEF ScanElement, Reading, ReadText, ReadPlain, ByValue, ReadSelect, ReadDropdown,
       ReadStyled, ReadRadio, ReadAria
  <2>7. UNCHANGED <<element, chosen, own>> /\ scans' = scans + 1 /\ scans < MaxScans
    BY <1>1 DEF ScanElement, FilledInv
  <2>8. scans' \in 0..MaxScans
    BY <1>t, <2>7
  <2>. QED
    BY <1>t, <2>4, <2>6, <2>7, <2>8 DEF FilledInv, ScanFillTypeOK, Kept
<1>2. CASE FillField
  <2>1. PICK r \in FillScannedField \cup Failed :
          chosen' = r.to /\ record' = [record EXCEPT !.filled = r.ok] /\ own' = r.ok
    BY <1>2 DEF FillField
  <2>2. IsReturned(r)
    BY FillsOrFails
  <2>3. UNCHANGED <<element, scans>> /\ stage' \in {"walk", "advance"}
    BY <1>2 DEF FillField
  <2>4. record' \in Records
    BY <1>t, <2>1, <2>2 DEF Records, IsReturned
  <2>5. own' => Kept'
    BY <2>1, <2>2, <2>3 DEF Kept, NoValue, IsReturned
  <2>. QED
    BY <1>t, <2>1, <2>2, <2>3, <2>4, <2>5 DEF FilledInv, ScanFillTypeOK, IsReturned
<1>3. CASE NoFill
  BY <1>t, <1>3 DEF NoFill, FilledInv, ScanFillTypeOK, Kept
<1>4. CASE LlmActs
  <2>1. record' \in Records
    BY <1>t, <1>4 DEF LlmActs, Records
  <2>2. chosen' \in 0..Leftover
    BY <1>t, <1>4, ScanFillAssumption DEF LlmActs, Possible, Options, NoValue, Leftover
  <2>3. own' \in BOOLEAN /\ (own' => own /\ chosen' = chosen) /\ UNCHANGED <<element, scans>> /\ stage' = "cleanup"
    BY <1>t, <1>4 DEF LlmActs
  <2>. QED
    BY <1>t, <2>1, <2>2, <2>3 DEF FilledInv, ScanFillTypeOK, Kept
<1>5. CASE LlmPasses
  BY <1>t, <1>5 DEF LlmPasses, FilledInv, ScanFillTypeOK, Kept
<1>6. CASE ScanAgain
  BY <1>t, <1>6 DEF ScanAgain, FilledInv, ScanFillTypeOK, Kept
<1>7. CASE UNCHANGED scanFillVars
  BY <1>t, <1>7 DEF scanFillVars, FilledInv, ScanFillTypeOK, Kept, Reading, ReadText, ReadPlain, ByValue,
     ReadSelect, ReadDropdown, ReadStyled, ReadRadio, ReadAria
<1>. QED
  BY <1>1, <1>2, <1>3, <1>4, <1>5, <1>6, <1>7 DEF ScanFillNext

\* The variables of a field have their types.
THEOREM ScanFillTypes == ScanFillSpec => []ScanFillTypeOK
<1>1. FilledInv => ScanFillTypeOK
  BY DEF FilledInv
<1>. QED
  BY <1>1, ScanFillStart, ScanFillStep, PTL DEF ScanFillSpec

\* What fillScannedField() has reported as filled is not open in the next scan, with the
\* exceptions that the property names.
THEOREM FilledStaysFilled == ScanFillSpec => []FilledIsNotReopened
<1>1. FilledInv => FilledIsNotReopened
  BY KeptIsFull DEF FilledIsNotReopened
<1>. QED
  BY <1>1, ScanFillStart, ScanFillStep, PTL DEF ScanFillSpec

\* What a step of the field says it has done is so, with the exceptions of the property.
LEMMA FillIsTruth ==
  ASSUME FilledInv, [ScanFillNext]_scanFillVars
  PROVE  /\ Fills => \/ chosen' = element.at
                     \/ element.kind \in {"checkbox", "date", "number"} /\ element.at = 0
                     \/ element.kind = "radio" /\ \E o \in Options \ record.seen : o < element.at
                     \/ element.elsewhere
         /\ FailsToFill => element.kind = "combobox" \/ element.follows
<1>1. CASE FillField
  <2>1. PICK r \in FillScannedField \cup Failed :
          chosen' = r.to /\ record' = [record EXCEPT !.filled = r.ok]
    BY <1>1 DEF FillField
  <2>2. IsReturned(r)
    BY FillsOrFails
  <2>3. record'.filled = r.ok /\ record.seen \in SUBSET Options /\ element \in Elements
    BY <2>1 DEF FilledInv, ScanFillTypeOK, Records
  <2>4. element.kind = "checkbox" => element.at \in {0, 1}
    BY <2>3 DEF Elements, ElementsOf, Dropdowns
  <2>5. CASE element.kind = "radio" /\ element.at \in record.seen
             /\ r.to = RadioClicked
    <3>1. (\A o \in Options : o < element.at => o \in record.seen) => r.to = element.at
      BY <2>3, <2>5, RadiosUpTo DEF RadioClicked
    <3>. QED
      BY <2>1, <2>2, <2>3, <2>5, <3>1 DEF Fills, FailsToFill, IsReturned
  <2>. QED
    BY <2>1, <2>2, <2>3, <2>4, <2>5 DEF Fills, FailsToFill, IsReturned
<1>2. CASE ~FillField
  <2>1. stage \notin {"dom", "cleanup"} \/ UNCHANGED <<record, chosen>>
    BY <1>2 DEF ScanFillNext, ScanElement, NoFill, LlmActs, LlmPasses, ScanAgain, scanFillVars
  <2>. QED
    BY <2>1 DEF Fills, FailsToFill
<1>. QED
  BY <1>1, <1>2

\* A report of filled means the answer is there, a report of failed that nothing changed,
\* with the exceptions that the property names.
THEOREM FillIsTrue == ScanFillSpec => FillTellsTheTruth
<1>1. FilledInv /\ [ScanFillNext]_scanFillVars =>
        [ /\ Fills => \/ chosen' = element.at
                      \/ element.kind \in {"checkbox", "date", "number"} /\ element.at = 0
                      \/ element.kind = "radio" /\ \E o \in Options \ record.seen : o < element.at
                      \/ element.elsewhere
          /\ FailsToFill => element.kind = "combobox" \/ element.follows ]_scanFillVars
  BY FillIsTruth
<1>. QED
  BY <1>1, ScanFillStart, ScanFillStep, PTL DEF ScanFillSpec, FillTellsTheTruth
=============================================================================
