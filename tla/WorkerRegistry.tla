--------------------------- MODULE WorkerRegistry ---------------------------
(***************************************************************************)
(* The list of workers (gh_worker_registry) and the life of a worker's     *)
(* process around it (workers/main.ts, and the deregistration in           *)
(* api/routes/valet.ts): start-up, heartbeats that also sweep out workers  *)
(* that fell silent, drain, shutdown, death.  Processes on one host follow *)
(* each other or run side by side, under ids of their own or the same id.  *)
(* A process has one connection, so that its writes arrive in their order. *)
(* Time is the age of a row's last heartbeat: fresh, above two minutes,    *)
(* above five.                                                             *)
(***************************************************************************)
EXTENDS Naturals

CONSTANTS
  Procs,         (* processes, each started once                            *)
  WorkerIds      (* WORKER_ID: of the environment, or made up               *)

VARIABLES
  idOf,          (* each process's WORKER_ID                                *)
  dispatch,      (* JOB_DISPATCH_MODE: "legacy" or "queue"                  *)
  proc,          (* the processes                                           *)
  registry       (* the rows, by worker id                                  *)

registryVars == <<idOf, dispatch, proc, registry>>

Recent == 0
Stale == 1       \* two minutes
Silent == 2      \* STALE_THRESHOLD_MINUTES
Unlisted == [status |-> "none", age |-> Recent]
RowOf(status) == [status |-> status, age |-> Recent]
Unborn == [pc |-> "start", open |-> FALSE, draining |-> FALSE, shutdown |-> "none",
           told |-> "no", left |-> "no"]

Here(p, pcs) == proc[p].pc \in pcs
Beating(p) == Here(p, {"ready", "running"}) /\ proc[p].shutdown # "left"
ShuttingDown(p) == proc[p].shutdown # "none"
Mine(p) == registry[idOf[p]]
Set(p, row) == registry' = [registry EXCEPT ![idOf[p]] = row]
\* A process takes its memory along, but for the history.
Gone(p, how) == proc' = [proc EXCEPT ![p] = [Unborn EXCEPT !.pc = "gone", !.left = how]]
Fixed == UNCHANGED <<idOf, dispatch>>

-----------------------------------------------------------------------------
\* Three attempts; one that fails may have written the row.
Register(p) ==
  /\ Here(p, {"start"})
  /\ \/ Set(p, RowOf("active")) /\ proc' = [proc EXCEPT ![p].pc = "registered"]
     \/ /\ registry' \in {registry, [registry EXCEPT ![idOf[p]] = RowOf("active")]}
        /\ Gone(p, "badly")
  /\ Fixed

\* Rows that other processes left behind on this host; then the heartbeats start.
CleanUp(p) ==
  /\ Here(p, {"registered"})
  /\ proc' = [proc EXCEPT ![p].pc = "ready"]
  /\ \/ registry' = [i \in WorkerIds |->
          IF i # idOf[p] /\ registry[i].status \in {"active", "draining"} /\ registry[i].age >= Stale
          THEN RowOf("offline") ELSE registry[i]]
     \/ UNCHANGED registry
  /\ Fixed

\* The consumer or the poller takes jobs, and the status server listens; pg-boss may not
\* start.  A shutdown() that met the poller half started has stopped it.
StartProcessor(p) ==
  /\ Here(p, {"ready"})
  /\ \/ \E open \in {TRUE, proc[p].shutdown \notin {"stopping", "left"}} :
          proc' = [proc EXCEPT ![p].pc = "running", ![p].open = open]
     \/ dispatch = "queue" /\ Gone(p, "badly")
  /\ UNCHANGED registry /\ Fixed

\* A heartbeat that gets through: this worker's row, then the active ones that are silent.
Beat(p) ==
  /\ Beating(p)
  /\ registry' = [i \in WorkerIds |->
       CASE i = idOf[p] -> RowOf(IF ShuttingDown(p) \/ proc[p].draining THEN "draining" ELSE "active")
         [] i # idOf[p] /\ registry[i].status = "active" /\ registry[i].age = Silent ->
              RowOf("offline")
         [] OTHER -> registry[i]]
  /\ UNCHANGED proc /\ Fixed

Told(p) == IF Here(p, {"running"}) THEN "running" ELSE "starting"

\* POST /worker/drain: the write may fail; the consumer of pg-boss's messages goes on
\* receiving what boss.work() delivers.
Drain(p) ==
  /\ Here(p, {"running"}) /\ ~proc[p].draining
  /\ proc' = [proc EXCEPT ![p].draining = TRUE,
                          ![p].open = @ /\ dispatch = "queue",
                          ![p].told = IF @ = "no" THEN "drain" ELSE @,
                          ![p].left = IF @ = "cleanly" THEN "badly" ELSE @]
  /\ Set(p, [Mine(p) EXCEPT !.status = "draining"]) \/ UNCHANGED registry
  /\ Fixed

\* Mutant: the processor is stopped when all else is done.
SignalLeavesOpen(p) ==
  /\ proc[p].pc \notin {"gone"} /\ ~ShuttingDown(p)
  /\ proc' = [proc EXCEPT ![p].shutdown = IF Here(p, {"ready", "running"}) THEN "stopping" ELSE "stuck",
                          ![p].told = Told(p)]
  /\ UNCHANGED registry /\ Fixed

\* SIGTERM: what takes jobs, if it is there, is stopped.  Before deregisterWorker has its
\* value, shutdown() fails on it, which is logged, and the start-up goes on.
Signal(p) ==
  /\ proc[p].pc \notin {"gone"} /\ ~ShuttingDown(p)
  /\ proc' = [proc EXCEPT ![p].shutdown = IF Here(p, {"ready", "running"}) THEN "stopping" ELSE "stuck",
                          ![p].open = FALSE, ![p].told = Told(p)]
  /\ UNCHANGED registry /\ Fixed

\* Mutant: the heartbeats go on while the instance's lifecycle action is completed.
DeregisterBeats(p) ==
  /\ Here(p, {"ready", "running"}) /\ proc[p].shutdown = "stopping"
  /\ Set(p, RowOf("offline")) /\ proc' = [proc EXCEPT ![p].left = "cleanly"]
  /\ Fixed

\* deregisterWorker, when the processor has stopped: no more heartbeats, and offline.
DeregisterWorker(p) ==
  /\ Here(p, {"ready", "running"}) /\ proc[p].shutdown = "stopping"
  /\ \/ Set(p, RowOf("offline")) /\ proc' = [proc EXCEPT ![p].shutdown = "left", ![p].left = "cleanly"]
     \/ UNCHANGED registry /\ proc' = [proc EXCEPT ![p].shutdown = "left", ![p].left = "badly"]
  /\ Fixed

\* The lifecycle action is completed and the connections closed.
Exit(p) ==
  /\ Here(p, {"ready", "running"}) /\ proc[p].left # "no"
  /\ Gone(p, proc[p].left)
  /\ UNCHANGED registry /\ Fixed

\* A second signal, or a death: nobody tells the registry.
DieUnlisted(p) ==
  /\ proc[p].pc # "gone"
  /\ Gone(p, IF proc[p].left = "no" THEN "badly" ELSE proc[p].left)
  /\ UNCHANGED registry /\ Fixed

\* VALET terminates a sandbox, and its worker is offline, whatever it is doing.
DeregisterByValet(i) ==
  /\ registry[i].status # "none"
  /\ registry' = [registry EXCEPT ![i] = RowOf("offline")]
  /\ UNCHANGED proc /\ Fixed

\* (The age of the other rows is not looked at.)
Later ==
  /\ registry' = [i \in WorkerIds |->
       IF registry[i].status \in {"active", "draining"} /\ registry[i].age < Silent THEN [registry[i] EXCEPT !.age = @ + 1] ELSE registry[i]]
  /\ UNCHANGED proc /\ Fixed

-----------------------------------------------------------------------------
RegistryInit ==
  /\ idOf \in [Procs -> WorkerIds] /\ dispatch \in {"legacy", "queue"}
  /\ proc = [p \in Procs |-> Unborn]
  /\ registry = [i \in WorkerIds |-> Unlisted]

ProcStep(p) ==
  \/ Register(p) \/ CleanUp(p) \/ StartProcessor(p) \/ Beat(p)
  \/ Drain(p) \/ Signal(p) \/ DeregisterWorker(p) \/ Exit(p) \/ DieUnlisted(p)

RegistryNext ==
  \/ \E p \in Procs : ProcStep(p)
  \/ \E i \in WorkerIds : DeregisterByValet(i)
  \/ Later

RegistrySpec == RegistryInit /\ [][RegistryNext]_registryVars

-----------------------------------------------------------------------------
RegistryTypeOK ==
  /\ idOf \in [Procs -> WorkerIds] /\ dispatch \in {"legacy", "queue"}
  /\ proc \in [Procs -> [pc : {"start", "registered", "ready", "running", "gone"}, open : BOOLEAN,
                         draining : BOOLEAN, shutdown : {"none", "stuck", "stopping", "left"},
                         told : {"no", "starting", "running", "drain"},
                         left : {"no", "cleanly", "badly"}]]
  /\ registry \in [WorkerIds -> [status : {"none", "active", "draining", "offline"}, age : Recent..Silent]]

\* Whoever was told to stop, by a signal or by a drain, takes no more jobs, unless it was
\* still starting, when a signal is forgotten, or is drained in queue mode, which has no
\* effect on what pg-boss delivers.
ToldToStop ==
  \A p \in Procs : proc[p].open =>
    \/ proc[p].told \in {"no", "starting"}
    \/ proc[p].told = "drain" /\ dispatch = "queue"

OnlyBearer(p) == \A q \in Procs \ {p} : idOf[q] # idOf[p] \/ Here(q, {"start"})

\* A worker that has left in good order, and was not asked to drain after that, stays
\* listed as offline until somebody else takes its id.
LeavesTheList ==
  \A p \in Procs : Here(p, {"gone"}) /\ proc[p].left = "cleanly" /\ OnlyBearer(p) =>
    Mine(p).status = "offline"

Unattended(i) == registry[i].status = "active" /\ \A p \in Procs : idOf[p] = i => Here(p, {"gone"})
\* A dead worker is listed as active, while another one beats.
ListIsWrong == \E i \in WorkerIds : Unattended(i) /\ \E p \in Procs : Beating(p)
=============================================================================
