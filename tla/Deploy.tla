------------------------------- MODULE Deploy -------------------------------
(***************************************************************************)
(* The deploy server of an instance (scripts/deploy-server.ts, with        *)
(* lib/docker-client.ts, lib/ecr-auth.ts and lib/container-configs.ts):    *)
(* calls of POST /deploy that may meet, the containers they stop and start *)
(* and the worker in one of them, which has its jobs meanwhile.  Every     *)
(* container has the host's network, so that the first to listen has the   *)
(* port of its service, and Docker restarts what exits.                    *)
(***************************************************************************)
EXTENDS Naturals, Sequences

CONSTANTS
  Calls,              (* calls of POST /deploy                                 *)
  TagOf,              (* the image each of them asks for                       *)
  MaxServerDeaths     (* bound: deaths of the deploy server                    *)

\* No call has a name that means something else.
ASSUME DeployAssumption ==
  Calls \cap {"none", "old", "null"} = {} /\ MaxServerDeaths \in Nat

VARIABLES
  containers,         (* by name: the state, and the call that made it         *)
  images,             (* the images that the instance has                      *)
  listening,          (* by service: the container that has its port           *)
  pickup,             (* the listening worker: may it take a job, has it one   *)
  calls,              (* where each call is, and its locals                    *)
  currentDeploy,      (* the variable of the server                            *)
  late, raced,        (* history: calls that came when another was at work; a  *)
                      (* call that did not met one                             *)
  serverDeaths

deployVars == <<containers, images, listening, pickup, calls, currentDeploy, late, raced, serverDeaths>>

StartOrder == <<"api", "worker">>
Services == {"api", "worker"}
\* A container of docker-compose has a number behind its name.
Composed == [s \in Services |-> IF s = "api" THEN "api-1" ELSE "worker-1"]
Names == Services \cup {Composed[s] : s \in Services}
Vacant == "vacant"
NoContainer == [state |-> "none", by |-> "none"]
NoTarget == [name |-> "none", by |-> "none", up |-> FALSE]
IdleCall == [pc |-> "idle", todo |-> {}, target |-> NoTarget, i |-> 1, heard |-> "nothing"]

Owners == Calls \cup {"old", "none"}
Containers == [state : {"none", "created", "running", "exited"}, by : Owners]
Targets == [name : Names, by : Owners, up : BOOLEAN]

AtWorkPcs == {"pull", "list", "next", "drain", "stop", "remove", "create", "start", "health", "giveup"}
DeployCalls ==
  [pc : AtWorkPcs \cup {"idle", "refused", "body", "success", "failed", "unhealthy", "lost"},
   todo : SUBSET Targets, target : Targets \cup {NoTarget}, i : 1..2,
   heard : {"nothing", "working", "draining"}]
AtDeploy(c) == calls[c].pc \in AtWorkPcs
OthersAtDeploy(c) == \E d \in Calls \ {c} : AtDeploy(d)

-----------------------------------------------------------------------------
CallAt(c, pc) == calls' = [calls EXCEPT ![c].pc = pc]
\* The locals of a call are gone with it.
Ended(how) == [IdleCall EXCEPT !.pc = how]

\* Whatever its end, a call resets the variable, also when it is another call's.
DeployReturns(c, result) == calls' = [calls EXCEPT ![c] = Ended(result)] /\ currentDeploy' = "null"

\* A request to Docker fails: its time is over, or the answer is none of 2xx and 304.
DockerRefuses(c) == DeployReturns(c, "failed")

UnchangedHost == UNCHANGED <<containers, images, listening, pickup>>
UnchangedServer == UNCHANGED <<currentDeploy, late, raced, serverDeaths>>

\* The variable is looked at before the body is read.
AskDeploy(c) ==
  /\ calls[c].pc = "idle"
  /\ CallAt(c, IF currentDeploy # "null" THEN "refused" ELSE "body")
  /\ late' = (IF OthersAtDeploy(c) THEN late \cup {c} ELSE late)
  /\ UnchangedHost /\ UNCHANGED <<currentDeploy, raced, serverDeaths>>

BeginDeploy(c) ==
  /\ calls[c].pc = "body"
  /\ \/ /\ CallAt(c, "pull")
        /\ currentDeploy' = c
        /\ raced' = (raced \/ (OthersAtDeploy(c) /\ c \notin late))
     \/ CallAt(c, "refused") /\ UNCHANGED <<currentDeploy, raced>>
  /\ UnchangedHost /\ UNCHANGED <<late, serverDeaths>>

\* Docker's configuration has no token for the registry, and none was read in the last
\* half hour.
NoEcrAuth(c) ==
  /\ calls[c].pc = "pull"
  /\ DeployReturns(c, "failed")
  /\ UnchangedHost /\ UNCHANGED <<late, raced, serverDeaths>>

\* Pull errors in the stream of a response that began with 200 are not looked at.
PullImage(c) ==
  /\ calls[c].pc = "pull"
  /\ \/ images' \in {images, images \cup {TagOf[c]}} /\ CallAt(c, "list") /\ UNCHANGED currentDeploy
     \/ UNCHANGED images /\ DockerRefuses(c)
  /\ UNCHANGED <<containers, listening, pickup, late, raced, serverDeaths>>

Present(names) == {n \in names : containers[n] # NoContainer}
Listed(names) ==
  {[name |-> n, by |-> containers[n].by, up |-> containers[n].state = "running"] : n \in Present(names)}

\* Mutant: only the deploy server's own containers are looked for.
ListContainersOwn(c) ==
  /\ calls[c].pc = "list"
  /\ \/ /\ calls' = [calls EXCEPT ![c].pc = "next", ![c].todo = Listed(Services)]
        /\ UNCHANGED currentDeploy
     \/ DockerRefuses(c)
  /\ UnchangedHost /\ UNCHANGED <<late, raced, serverDeaths>>

\* All containers of the services, whoever made them, and which of them run now.
ListContainers(c) ==
  /\ calls[c].pc = "list"
  /\ \/ /\ calls' = [calls EXCEPT ![c].pc = "next", ![c].todo = Listed(Names)]
        /\ UNCHANGED currentDeploy
     \/ DockerRefuses(c)
  /\ UnchangedHost /\ UNCHANGED <<late, raced, serverDeaths>>

-----------------------------------------------------------------------------
IsWorker(n) == n \in {"worker", Composed["worker"]}
ServiceOf(n) == IF IsWorker(n) THEN "worker" ELSE "api"

\* The worker's containers first, then the API's.
NextContainer(c) ==
  /\ calls[c].pc = "next" /\ calls[c].todo # {}
  /\ \E t \in calls[c].todo :
       /\ (\E w \in calls[c].todo : IsWorker(w.name)) => IsWorker(t.name)
       /\ calls' = [calls EXCEPT
            ![c].todo = @ \ {t}, ![c].target = t,
            ![c].pc = IF ~t.up THEN "remove" ELSE IF IsWorker(t.name) THEN "drain" ELSE "stop"]
  /\ UnchangedHost /\ UnchangedServer

Drained == [pickup EXCEPT !.draining = TRUE]

\* Drains whichever worker listens, which answers at once; no answer is as good.
DrainWorker(c) ==
  /\ calls[c].pc = "drain"
  /\ IF listening["worker"] # Vacant THEN pickup' \in {pickup, Drained}
                                    ELSE UNCHANGED pickup
  /\ CallAt(c, "stop")
  /\ UNCHANGED <<containers, images, listening>> /\ UnchangedServer

NoPickup == [draining |-> FALSE, job |-> FALSE]
\* The container's process ends: its port is free, its job is over or given back.
Silence(n) ==
  /\ listening' = [s \in Services |-> IF listening[s] = n THEN Vacant ELSE listening[s]]
  /\ pickup' = (IF listening["worker"] = n THEN NoPickup ELSE pickup)

\* The containers are stopped and removed by their ids: one that is gone is no error.
Target(c) == calls[c].target.name
IsThere(c) == containers[Target(c)].by = calls[c].target.by

\* SIGTERM, 30 seconds, SIGKILL.
StopContainer(c) ==
  /\ calls[c].pc = "stop"
  /\ \/ /\ CallAt(c, "remove") /\ UNCHANGED currentDeploy
        /\ IF IsThere(c)
             THEN containers' = [containers EXCEPT ![Target(c)].state = "exited"] /\ Silence(Target(c))
             ELSE UNCHANGED <<containers, listening, pickup>>
     \/ DockerRefuses(c) /\ UNCHANGED <<containers, listening, pickup>>
  /\ UNCHANGED <<images, late, raced, serverDeaths>>

\* By force, should it run again.
RemoveContainer(c) ==
  /\ calls[c].pc = "remove"
  /\ \/ /\ CallAt(c, "next") /\ UNCHANGED currentDeploy
        /\ IF IsThere(c)
             THEN containers' = [containers EXCEPT ![Target(c)] = NoContainer] /\ Silence(Target(c))
             ELSE UNCHANGED <<containers, listening, pickup>>
     \/ DockerRefuses(c) /\ UNCHANGED <<containers, listening, pickup>>
  /\ UNCHANGED <<images, late, raced, serverDeaths>>

-----------------------------------------------------------------------------
BeginStart(c) ==
  /\ calls[c].pc = "next" /\ calls[c].todo = {}
  /\ CallAt(c, "create")
  /\ UnchangedHost /\ UnchangedServer

Service(c) == StartOrder[calls[c].i]

\* 409 when the name is taken, 404 when the image is missing; an error may come late.
CreateContainer(c) ==
  /\ calls[c].pc = "create"
  /\ \/ /\ containers[Service(c)] = NoContainer /\ TagOf[c] \in images
        /\ containers' = [containers EXCEPT ![Service(c)] = [state |-> "created", by |-> c]]
        /\ \/ CallAt(c, "start") /\ UNCHANGED currentDeploy
           \/ DockerRefuses(c)
     \/ DockerRefuses(c) /\ UNCHANGED containers
  /\ UNCHANGED <<images, listening, pickup, late, raced, serverDeaths>>

\* By its name, whoever made it.
StartContainer(c) ==
  /\ calls[c].pc = "start"
  /\ \/ /\ containers[Service(c)] # NoContainer
        /\ containers' = [containers EXCEPT ![Service(c)].state = "running"]
        /\ \/ CallAt(c, "health") /\ UNCHANGED currentDeploy
           \/ DockerRefuses(c)
     \/ DockerRefuses(c) /\ UNCHANGED containers
  /\ UNCHANGED <<images, listening, pickup, late, raced, serverDeaths>>

\* GET /health of the API; /worker/health says 503 of a worker that drains or works.
IsHealthy(s) ==
  /\ listening[s] # Vacant
  /\ s = "worker" => ~pickup.draining /\ ~pickup.job

\* The next service; after the last, images are pruned, for which an error does not matter.
ServiceIsUp(c) ==
  IF calls[c].i < Len(StartOrder)
    THEN calls' = [calls EXCEPT ![c].pc = "create", ![c].i = @ + 1] /\ UNCHANGED currentDeploy
    ELSE DeployReturns(c, "success")

\* What a poll of the service may hear: nothing within 5 seconds, or its 503.
Polls(s) ==
  {"nothing"} \cup (IF listening[s] = Vacant \/ IsHealthy(s) THEN {}
                   ELSE {IF pickup.draining THEN "draining" ELSE "working"})

\* Polled every 2 seconds: one poll finds it healthy, or the last before the deadline does not.
WaitForHealthy(c) ==
  /\ calls[c].pc = "health"
  /\ \/ IsHealthy(Service(c)) /\ ServiceIsUp(c)
     \/ \E h \in Polls(Service(c)) :
          calls' = [calls EXCEPT ![c].pc = "giveup", ![c].heard = h] /\ UNCHANGED currentDeploy
  /\ UnchangedHost /\ UNCHANGED <<late, raced, serverDeaths>>

\* The 60 or 90 seconds are over, which it sees after another 2.
HealthTimesOut(c) ==
  /\ calls[c].pc = "giveup"
  /\ DeployReturns(c, "unhealthy")
  /\ UnchangedHost /\ UNCHANGED <<late, raced, serverDeaths>>

-----------------------------------------------------------------------------
\* A container's process listens, or could not and is restarted until the port is free.
Listen(n) ==
  /\ containers[n].state = "running" /\ listening[ServiceOf(n)] = Vacant
  /\ listening' = [listening EXCEPT ![ServiceOf(n)] = n]
  /\ UNCHANGED <<containers, images, pickup, calls>> /\ UnchangedServer

ProcessDies(s) ==
  /\ listening[s] # Vacant
  /\ Silence(listening[s])
  /\ UNCHANGED <<containers, images, calls>> /\ UnchangedServer

WorkerTakesJob ==
  /\ listening["worker"] # Vacant /\ pickup = NoPickup
  /\ pickup' = [pickup EXCEPT !.job = TRUE]
  /\ UNCHANGED <<containers, images, listening, calls>> /\ UnchangedServer

WorkerEndsJob ==
  /\ pickup.job
  /\ pickup' = [pickup EXCEPT !.job = FALSE]
  /\ UNCHANGED <<containers, images, listening, calls>> /\ UnchangedServer

\* The calls die with the server, whatever they have stopped.
ServerDies ==
  /\ serverDeaths < MaxServerDeaths
  /\ serverDeaths' = serverDeaths + 1
  /\ calls' = [c \in Calls |-> IF AtDeploy(c) \/ calls[c].pc = "body"
                               THEN Ended("lost") ELSE calls[c]]
  /\ currentDeploy' = "null"
  /\ UnchangedHost /\ UNCHANGED <<late, raced>>

-----------------------------------------------------------------------------
\* The services run, as docker-compose or an earlier deploy has started them.
DeployInit ==
  /\ \E old \in {Composed, [s \in Services |-> s]} :
       /\ containers = [n \in Names |-> IF \E s \in Services : old[s] = n
                                        THEN [state |-> "running", by |-> "old"] ELSE NoContainer]
       /\ listening = old
  /\ images = {"old"}
  /\ pickup \in [draining : {FALSE}, job : BOOLEAN]
  /\ calls = [c \in Calls |-> IdleCall]
  /\ currentDeploy = "null" /\ late = {} /\ raced = FALSE /\ serverDeaths = 0

ExecuteDeploy(c) ==
  \/ BeginDeploy(c) \/ NoEcrAuth(c) \/ PullImage(c) \/ ListContainers(c)
  \/ NextContainer(c) \/ DrainWorker(c) \/ StopContainer(c) \/ RemoveContainer(c)
  \/ BeginStart(c) \/ CreateContainer(c) \/ StartContainer(c)
  \/ WaitForHealthy(c) \/ HealthTimesOut(c)

DeployNext ==
  \/ \E c \in Calls : AskDeploy(c) \/ ExecuteDeploy(c)
  \/ \E n \in Names : Listen(n)
  \/ \E s \in Services : ProcessDies(s)
  \/ WorkerTakesJob \/ WorkerEndsJob \/ ServerDies

DeploySpec == DeployInit /\ [][DeployNext]_deployVars /\ \A c \in Calls : WF_deployVars(ExecuteDeploy(c))

-----------------------------------------------------------------------------
\* The variables have their types.
DeployTypeOK ==
  /\ containers \in [Names -> Containers]
  /\ listening \in [Services -> Names \cup {Vacant}]
  /\ \A s \in Services : listening[s] \in {Vacant, s, Composed[s]}
  /\ pickup \in [draining : BOOLEAN, job : BOOLEAN]
  /\ calls \in [Calls -> DeployCalls]
  /\ currentDeploy \in Calls \cup {"null"} /\ late \subseteq Calls /\ raced \in BOOLEAN
  /\ serverDeaths \in 0..MaxServerDeaths

ReturnsNow(c, result) == AtDeploy(c) /\ calls'[c].pc = result

\* Two deploys are at work at once only if they came at the same time, both before the
\* body of either was read, or if that has happened before.
MeetOnlyByRace ==
  \A c \in Calls : calls[c].pc = "body" /\ calls'[c].pc = "pull" /\ OthersAtDeploy(c)
                     => raced'

\* If no two have met, a deploy that tells of a success has left the new containers
\* running and no others.  One that tells of an unhealthy service has left the new one
\* running, which may have come up since the last poll; that poll was not answered, or
\* by a worker that had taken a job as soon as it was up, never by one that drains: the
\* worker that was told to is gone by then.
TellsTheTruth ==
  \A c \in Calls : ~raced =>
    /\ ReturnsNow(c, "success") =>
         \A n \in Names : containers[n] =
           (IF n \in Services THEN [state |-> "running", by |-> c] ELSE NoContainer)
    /\ ReturnsNow(c, "unhealthy") =>
         /\ containers[Service(c)] = [state |-> "running", by |-> c]
         /\ calls[c].heard = "working" => Service(c) = "worker"
         /\ calls[c].heard # "draining"

\* The two of them of every step.
DeploysKeepTheirWord == [][MeetOnlyByRace /\ TellsTheTruth]_deployVars
=============================================================================
