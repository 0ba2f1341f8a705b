----------------------------- MODULE WorkerSlots -----------------------------
(***************************************************************************)
(* What a fleet of GhostHands workers promises, without queue, attempts or *)
(* heartbeats: a worker does one job at a time, only jobs it may do, and   *)
(* once it is closed for shutdown it takes none until it boots again       *)
(* ("Single-task-per-worker", workers/main.ts:111).                        *)
(***************************************************************************)
CONSTANTS
  Workers, Jobs, NoJob,
  May            (* pairs <<worker, job>> the routing rules allow           *)

VARIABLES
  mode,          (* "off", "open" or "closed"                               *)
  task           (* the job a worker has in hand, or NoJob                  *)

Boot(w) ==
  /\ mode[w] = "off"
  /\ mode' = [mode EXCEPT ![w] = "open"]
  /\ UNCHANGED task

Take(w, j) ==
  /\ mode[w] = "open"
  /\ task[w] = NoJob
  /\ <<w, j>> \in May
  /\ task' = [task EXCEPT ![w] = j]
  /\ UNCHANGED mode

Finish(w) ==
  /\ task[w] # NoJob
  /\ task' = [task EXCEPT ![w] = NoJob]
  /\ UNCHANGED mode

Shut(w) ==
  /\ mode[w] = "open"
  /\ mode' = [mode EXCEPT ![w] = "closed"]
  /\ UNCHANGED task

Exit(w) ==
  /\ mode[w] # "off"
  /\ mode' = [mode EXCEPT ![w] = "off"]
  /\ task' = [task EXCEPT ![w] = NoJob]

Init ==
  /\ mode = [w \in Workers |-> "off"]
  /\ task = [w \in Workers |-> NoJob]

Next ==
  \E w \in Workers :
    \/ Boot(w) \/ Finish(w) \/ Shut(w) \/ Exit(w)
    \/ \E j \in Jobs : Take(w, j)

Spec == Init /\ [][Next]_<<mode, task>>
=============================================================================
