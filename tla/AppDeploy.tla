----------------------------- MODULE AppDeploy -----------------------------
(***************************************************************************)
(* Deployments of one application: the API that records and queues them    *)
(* and deletes the application, BullMQ's deploy queue, the worker's        *)
(* runDeploy(), the Docker daemon with the application's one container,    *)
(* and the watcher that turns die events into the status "crashed".        *)
(*                                                                         *)
(* Sources: apps/api/src/routes/applications.ts and github-webhook.ts,     *)
(* apps/worker/src/index.ts, docker-ops.ts, container-spec.ts and          *)
(* crash-watch.ts.                                                         *)
(***************************************************************************)
EXTENDS Naturals, Sequences, FiniteSets

CONSTANTS
  Deployments,  \* ids of the deployments rows that may be created
  None,         \* no deployment, no image
  FaultKinds,   \* the infrastructure faults this instance may suffer
  MaxFaults,    \* bound on the number of such faults, each kind once
  MaxCrashes,   \* bound on the crashes of the application's own process
  MaxStalled,   \* BullMQ maxStalledCount: re-runs of a stalled job
  Deletable     \* whether the application may be deleted

ASSUME NoneAssumption == None \notin Deployments
ASSUME BoundsAssumption ==
  /\ FaultKinds \subseteq {"worker", "api", "docker", "db", "events"}
  /\ MaxFaults \in Nat /\ MaxCrashes \in Nat /\ MaxStalled \in Nat
  /\ Deletable \in BOOLEAN

VARIABLES
  app,                        \* the applications row: exists, status
  status, source, image,      \* deployments rows: status, promoted from, image
  req, deleting, doomed,      \* progress of the API's requests, container listed
  queue, stalled, stallCount, \* BullMQ: waiting jobs, ownerless active jobs
  w,                          \* the worker: position in runDeploy and its locals
  ctr,                        \* Docker: the container named after the slug
  watching, dies,             \* the events stream, die events not handled yet
  faults, crashes             \* kinds of faults suffered, crashes of the process

rowVars    == <<app, status, source, image>>
deleteVars == <<deleting, doomed>>
queueVars  == <<queue, stalled, stallCount>>
vars == <<rowVars, req, deleteVars, queueVars, w, ctr, watching, dies, faults, crashes>>

\* buildImageTag names the image after the deployment that built it.
Images == Deployments \cup {None}

NoCtr == [state |-> "none", dep |-> None, image |-> None, net |-> FALSE]
CtrOf(d, i) == [state |-> "created", dep |-> d, image |-> i, net |-> FALSE]

PCs == {"down", "idle", "begin", "mark", "image", "list", "stop", "remove", "create",
        "start", "connect", "success", "running", "close", "failed", "failApp",
        "ack"}

Fresh(p) == [pc |-> p, dep |-> None, status |-> "idle", image |-> None, stopped |-> FALSE]

TypeOK ==
  /\ app \in [exists : BOOLEAN, status : {"idle", "deploying", "running", "crashed"}]
  /\ status \in [Deployments -> {"absent", "pending", "building", "success", "failed"}]
  /\ source \in [Deployments -> Deployments \cup {None}]
  /\ image \in [Deployments -> Images]
  /\ req \in [Deployments -> {"unused", "created", "done"}]
  /\ doomed \in Deployments \cup {None}
  /\ deleting \in {"no", "containers", "volumes", "refused", "row", "done"}
  /\ queue \in Seq(Deployments) /\ stalled \subseteq Deployments
  /\ stallCount \in [Deployments -> Nat]
  /\ w \in [pc : PCs, dep : Deployments \cup {None}, image : Images,
            status : {"idle", "deploying", "running", "crashed"}, stopped : BOOLEAN]
  /\ w.dep = None <=> w.pc \in {"down", "idle"}
  /\ ctr \in [state : {"none", "created", "running", "stopped"},
              dep : Deployments \cup {None}, image : Images, net : BOOLEAN]
  /\ watching \in BOOLEAN
  /\ dies \in Nat /\ faults \subseteq FaultKinds /\ crashes \in Nat

Init ==
  /\ app = [exists |-> TRUE, status |-> "idle"]
  /\ status = [d \in Deployments |-> "absent"]
  /\ source = [d \in Deployments |-> None]
  /\ image = [d \in Deployments |-> None]
  /\ req = [d \in Deployments |-> "unused"] /\ deleting = "no" /\ doomed = None
  /\ queue = <<>> /\ stalled = {} /\ stallCount = [d \in Deployments |-> 0]
  /\ w = Fresh("idle")
  /\ ctr = NoCtr
  /\ watching = TRUE /\ dies = 0
  /\ faults = {} /\ crashes = 0

\* One infrastructure fault of the given kind happens in this step.
Fault(kind) == /\ kind \in FaultKinds \ faults /\ Cardinality(faults) < MaxFaults
               /\ faults' = faults \cup {kind}

-----------------------------------------------------------------------------
(***************************************************************************)
(* The API.                                                                *)
(***************************************************************************)
NewRow(d, src) ==
  /\ req[d] = "unused" /\ app.exists
  /\ status' = [status EXCEPT ![d] = "pending"]
  /\ source' = [source EXCEPT ![d] = src]
  /\ req' = [req EXCEPT ![d] = "created"]
  /\ UNCHANGED <<app, image, deleteVars, queueVars, w, ctr, watching, dies, faults,
                 crashes>>

\* POST /deploy, and a push the webhook matches to the application.
RequestDeploy(d) == NewRow(d, None)

\* POST /rollback to a deployment that is successful now.
RequestRollback(d, src) ==
  /\ status[src] = "success" /\ image[src] # None
  /\ NewRow(d, src)

Enqueue(d) ==
  /\ req[d] = "created"
  /\ queue' = Append(queue, d)
  /\ req' = [req EXCEPT ![d] = "done"]
  /\ UNCHANGED <<rowVars, deleteVars, stalled, stallCount, w, ctr, watching, dies,
                 faults, crashes>>

\* queue.add rejects or the process dies: the row stays pending.
EnqueueFails(d) ==
  /\ req[d] = "created"
  /\ Fault("api")
  /\ req' = [req EXCEPT ![d] = "done"]
  /\ UNCHANGED <<rowVars, deleteVars, queueVars, w, ctr, watching, dies, crashes>>

\* A stop or kill whose exit code is not 0 raises a die event the watcher acts on.
DieEvent == dies' \in {dies, IF watching THEN dies + 1 ELSE dies}

\* removeDockerForApplication lists the containers ...
DeleteApp ==
  /\ Deletable /\ deleting \in {"no", "refused"} /\ app.exists
  /\ doomed' = ctr.dep
  /\ deleting' = "containers"
  /\ UNCHANGED <<rowVars, req, queueVars, w, ctr, watching, dies, faults, crashes>>

\* ... stops and removes what it listed, errors swallowed ...
DeleteContainers ==
  /\ deleting = "containers"
  /\ \/ /\ doomed # None /\ ctr.dep = doomed
        /\ ctr' = NoCtr
        /\ IF ctr.state = "running" THEN DieEvent ELSE UNCHANGED dies
        /\ UNCHANGED faults
     \/ (doomed = None \/ ctr.dep # doomed) /\ UNCHANGED <<ctr, dies, faults>>
     \/ Fault("docker") /\ UNCHANGED <<ctr, dies>>
  /\ deleting' = "volumes"
  /\ UNCHANGED <<rowVars, req, doomed, queueVars, w, watching, crashes>>

\* ... removes the volumes and the network, from which it disconnects what is left ...
DeleteVolumes ==
  /\ deleting = "volumes"
  /\ ctr' = [ctr EXCEPT !.net = FALSE]
  /\ deleting' = "row"
  /\ UNCHANGED <<rowVars, req, doomed, queueVars, w, watching, dies, faults, crashes>>

\* ... or throws when Docker refuses: the row stays, and the deletion may be asked again ...
DeletionRefused ==
  /\ deleting = "volumes"
  /\ Fault("docker")
  /\ deleting' = "refused"
  /\ UNCHANGED <<rowVars, req, doomed, queueVars, w, ctr, watching, dies, crashes>>

\* ... and the row goes last, its deployments with it.
DeleteRow ==
  /\ deleting = "row"
  /\ app' = [app EXCEPT !.exists = FALSE]
  /\ status' = [d \in Deployments |-> "absent"]
  /\ deleting' = "done"
  /\ UNCHANGED <<source, image, req, doomed, queueVars, w, ctr, watching, dies, faults,
                 crashes>>

-----------------------------------------------------------------------------
(***************************************************************************)
(* The worker: runDeploy(), one action per awaited effect.  An update of a *)
(* row that was deleted rejects, like any other failing await.             *)
(***************************************************************************)
Goto(p) == w' = [w EXCEPT !.pc = p]

\* Application and deployment are read; if one is gone the job throws at once.
TakeJob ==
  /\ w.pc = "idle" /\ queue # <<>>
  /\ LET d == Head(queue) IN
       w' = [Fresh(IF status[d] = "absent" THEN "ack" ELSE "begin")
               EXCEPT !.dep = d, !.status = app.status]
  /\ queue' = Tail(queue)
  /\ UNCHANGED <<rowVars, req, deleteVars, stalled, stallCount, ctr, watching, dies,
                 faults, crashes>>

\* A read of the application or the deployment rejects: the job fails before the try that
\* would record it, and the deployment stays pending.
TakeJobFails ==
  /\ w.pc = "idle" /\ queue # <<>>
  /\ Fault("db")
  /\ queue' = Tail(queue)
  /\ UNCHANGED <<rowVars, req, deleteVars, stalled, stallCount, w, ctr, watching, dies, crashes>>

BeginDeploy ==
  /\ w.pc = "begin" /\ status[w.dep] # "absent"
  /\ status' = [status EXCEPT ![w.dep] = "building"]
  /\ Goto("mark")
  /\ UNCHANGED <<app, source, image, req, deleteVars, queueVars, ctr, watching, dies,
                 faults, crashes>>

MarkDeploying ==
  /\ w.pc = "mark" /\ app.exists
  /\ app' = [app EXCEPT !.status = "deploying"]
  /\ Goto("image")
  /\ UNCHANGED <<status, source, image, req, deleteVars, queueVars, ctr, watching, dies,
                 faults, crashes>>

\* A rollback promotes the image its source recorded; otherwise clone and build,
\* or pull, an image of this deployment.
ImageFor(d) == IF source[d] = None THEN d ELSE image[source[d]]

ResolveImage ==
  /\ w.pc = "image" /\ ImageFor(w.dep) # None
  /\ w' = [w EXCEPT !.pc = "list", !.image = ImageFor(w.dep)]
  /\ UNCHANGED <<rowVars, req, deleteVars, queueVars, ctr, watching, dies, faults, crashes>>

\* Mutant: the flag is only set once the old container is known to be stopped.
ListOldUnflagged ==
  /\ w.pc = "list"
  /\ \/ Goto(IF ctr.state = "none" THEN "create" ELSE "stop") /\ UNCHANGED faults
     \/ Fault("docker") /\ Goto("failed")
  /\ UNCHANGED <<rowVars, req, deleteVars, queueVars, ctr, watching, dies, crashes>>

\* From here on the failure path no longer believes in the old container.
\* stopAndRemoveAppContainers: the list may throw, stop and remove may not.
ListOld ==
  /\ w.pc = "list"
  /\ \/ /\ w' = [w EXCEPT !.stopped = TRUE,
                          !.pc = IF ctr.state = "none" THEN "create" ELSE "stop"]
        /\ UNCHANGED faults
     \/ Fault("docker") /\ w' = [w EXCEPT !.stopped = TRUE, !.pc = "failed"]
  /\ UNCHANGED <<rowVars, req, deleteVars, queueVars, ctr, watching, dies, crashes>>

StopOld ==
  /\ w.pc = "stop"
  /\ \/ /\ ctr.state = "running"
        /\ ctr' = [ctr EXCEPT !.state = "stopped"]
        /\ DieEvent
        /\ UNCHANGED faults
     \/ ctr.state # "running" /\ UNCHANGED <<ctr, dies, faults>>
     \/ Fault("docker") /\ UNCHANGED <<ctr, dies>>
  /\ Goto("remove")
  /\ UNCHANGED <<rowVars, req, deleteVars, queueVars, watching, crashes>>

\* Docker refuses to remove a running container.
RemoveOld ==
  /\ w.pc = "remove"
  /\ \/ ctr' = (IF ctr.state = "running" THEN ctr ELSE NoCtr) /\ UNCHANGED faults
     \/ Fault("docker") /\ UNCHANGED ctr
  /\ Goto("create")
  /\ UNCHANGED <<rowVars, req, deleteVars, queueVars, watching, dies, crashes>>

\* The container's name is the application's: a leftover makes the create fail.
CreateContainer ==
  /\ w.pc = "create"
  /\ IF ctr.state = "none"
       THEN ctr' = CtrOf(w.dep, w.image) /\ Goto("start")
       ELSE UNCHANGED ctr /\ Goto("failed")
  /\ UNCHANGED <<rowVars, req, deleteVars, queueVars, watching, dies, faults, crashes>>

Mine == ctr.state # "none" /\ ctr.dep = w.dep

StartContainer ==
  /\ w.pc = "start" /\ Mine
  /\ ctr' = [ctr EXCEPT !.state = "running"]
  /\ Goto("connect")
  /\ UNCHANGED <<rowVars, req, deleteVars, queueVars, watching, dies, faults, crashes>>

\* connectToInternalNetwork: an existing network is fine, a failed connect is not.
ConnectNetwork ==
  /\ w.pc = "connect" /\ Mine
  /\ ctr' = [ctr EXCEPT !.net = TRUE]
  /\ Goto("success")
  /\ UNCHANGED <<rowVars, req, deleteVars, queueVars, watching, dies, faults, crashes>>

RecordSuccess ==
  /\ w.pc = "success"
  /\ \/ /\ status[w.dep] # "absent"
        /\ status' = [status EXCEPT ![w.dep] = "success"]
        /\ image' = [image EXCEPT ![w.dep] = w.image]
        /\ Goto("running")
        /\ UNCHANGED faults
     \/ /\ \/ status[w.dep] = "absent" /\ UNCHANGED faults
           \/ Fault("db")
        /\ Goto("failed")
        /\ UNCHANGED <<status, image>>
  /\ UNCHANGED <<app, source, req, deleteVars, queueVars, ctr, watching, dies, crashes>>

MarkRunning ==
  /\ w.pc = "running"
  /\ \/ /\ app.exists
        /\ app' = [app EXCEPT !.status = "running"]
        /\ Goto("close")
        /\ UNCHANGED faults
     \/ /\ \/ ~app.exists /\ UNCHANGED faults
           \/ Fault("db")
        /\ Goto("failed")
        /\ UNCHANGED app
  /\ UNCHANGED <<status, source, image, req, deleteVars, queueVars, ctr, watching, dies,
                 crashes>>

\* sink.end(): when its last write rejects, a deployment that succeeded is failed.
CloseLog ==
  /\ w.pc = "close"
  /\ \/ Goto("ack") /\ UNCHANGED faults
     \/ Fault("db") /\ Goto("failed")
  /\ UNCHANGED <<rowVars, req, deleteVars, queueVars, ctr, watching, dies, crashes>>

\* Any await before the container is stopped may reject: clone, build, plan, pull,
\* missing variables; later ones too: volumes, create, start, network.
Throw ==
  /\ w.pc \in {"begin", "mark", "image", "create", "start", "connect"}
  /\ Goto("failed")
  /\ UNCHANGED <<rowVars, req, deleteVars, queueVars, ctr, watching, dies, faults, crashes>>

\* The catch block: the deployment's update is awaited unguarded ...
FailDeployment ==
  /\ w.pc = "failed"
  /\ \/ /\ status[w.dep] # "absent"
        /\ status' = [status EXCEPT ![w.dep] = "failed"]
        /\ Goto("failApp")
        /\ UNCHANGED faults
     \/ /\ \/ status[w.dep] = "absent" /\ UNCHANGED faults
           \/ Fault("db")
        /\ Goto("ack")
        /\ UNCHANGED status
  /\ UNCHANGED <<app, source, image, req, deleteVars, queueVars, ctr, watching, dies,
                 crashes>>

\* Mutant: the flag set before the old container is stopped is ignored.
StatusAfterFailureOptimistic == IF w.status = "running" THEN "running" ELSE "idle"

StatusAfterFailure == IF ~w.stopped /\ w.status = "running" THEN "running" ELSE "idle"

\* ... the application's is swallowed.
FailApp ==
  /\ w.pc = "failApp"
  /\ \/ /\ app' = IF app.exists THEN [app EXCEPT !.status = StatusAfterFailure] ELSE app
        /\ UNCHANGED faults
     \/ Fault("db") /\ UNCHANGED app
  /\ Goto("ack")
  /\ UNCHANGED <<status, source, image, req, deleteVars, queueVars, ctr, watching, dies,
                 crashes>>

AckJob ==
  /\ w.pc = "ack"
  /\ w' = Fresh("idle")
  /\ UNCHANGED <<rowVars, req, deleteVars, queueVars, ctr, watching, dies, faults, crashes>>

\* The process dies, and with it the events stream and what it had not handled.
WorkerCrash ==
  /\ w.dep # None
  /\ Fault("worker")
  /\ stalled' = stalled \cup {w.dep}
  /\ w' = Fresh("down")
  /\ watching' = FALSE /\ dies' = 0
  /\ UNCHANGED <<rowVars, req, deleteVars, queue, stallCount, ctr, crashes>>

WorkerRestart ==
  /\ w.pc = "down"
  /\ w' = Fresh("idle")
  /\ watching' = TRUE
  /\ UNCHANGED <<rowVars, req, deleteVars, queueVars, ctr, dies, faults, crashes>>

\* Mutant: a stalled job is dropped at once.
DropStalled(d) ==
  /\ w.pc # "down" /\ d \in stalled
  /\ stalled' = stalled \ {d}
  /\ UNCHANGED <<rowVars, req, deleteVars, queue, stallCount, w, ctr, watching, dies,
                 faults, crashes>>

\* BullMQ's stalled checker: the job runs again first, or fails for good.
RequeueStalled(d) ==
  /\ w.pc # "down" /\ d \in stalled
  /\ stalled' = stalled \ {d}
  /\ IF stallCount[d] < MaxStalled
       THEN /\ queue' = <<d>> \o queue
            /\ stallCount' = [stallCount EXCEPT ![d] = @ + 1]
       ELSE UNCHANGED <<queue, stallCount>>
  /\ UNCHANGED <<rowVars, req, deleteVars, w, ctr, watching, dies, faults, crashes>>

-----------------------------------------------------------------------------
(***************************************************************************)
(* The application's process and the watcher of Docker events.             *)
(***************************************************************************)

\* A non-zero exit or OOM kill; restart policy "unless-stopped" starts it again.
ProcessCrash ==
  /\ ctr.state = "running" /\ crashes < MaxCrashes
  /\ crashes' = crashes + 1
  /\ dies' = IF watching THEN dies + 1 ELSE dies
  /\ UNCHANGED <<rowVars, req, deleteVars, queueVars, w, ctr, watching, faults>>

\* onCrash: runs beside runDeploy; the update of a deleted row is swallowed.
OnCrash ==
  /\ dies > 0
  /\ dies' = dies - 1
  /\ app' = IF app.exists THEN [app EXCEPT !.status = "crashed"] ELSE app
  /\ UNCHANGED <<status, source, image, req, deleteVars, queueVars, w, ctr, watching,
                 faults, crashes>>

\* The stream ends; events are not replayed, and a failed subscription is not retried.
LoseStream ==
  /\ watching /\ w.pc # "down"
  /\ Fault("events")
  /\ watching' = FALSE
  /\ UNCHANGED <<rowVars, req, deleteVars, queueVars, w, ctr, dies, crashes>>

Resubscribe ==
  /\ ~watching /\ w.pc # "down"
  /\ watching' = TRUE
  /\ UNCHANGED <<rowVars, req, deleteVars, queueVars, w, ctr, dies, faults, crashes>>

-----------------------------------------------------------------------------
ApiStep ==
  \/ \E d \in Deployments : \/ RequestDeploy(d) \/ Enqueue(d) \/ EnqueueFails(d)
                            \/ \E src \in Deployments : RequestRollback(d, src)
  \/ DeleteApp \/ DeleteContainers \/ DeleteVolumes \/ DeletionRefused \/ DeleteRow

WorkerStep ==
  \/ TakeJob \/ BeginDeploy \/ MarkDeploying \/ ResolveImage \/ ListOld \/ StopOld
  \/ RemoveOld \/ CreateContainer \/ StartContainer \/ ConnectNetwork
  \/ RecordSuccess \/ MarkRunning \/ CloseLog \/ Throw \/ FailDeployment \/ FailApp \/ AckJob
  \/ WorkerRestart

QueueStep == \E d \in Deployments : RequeueStalled(d)

WatchStep == OnCrash \/ LoseStream \/ Resubscribe

Next == ApiStep \/ WorkerStep \/ WorkerCrash \/ TakeJobFails \/ QueueStep \/ ProcessCrash
        \/ WatchStep

Spec == Init /\ [][Next]_vars

\* The worker runs its event loop and is restarted by its supervisor, BullMQ checks
\* for stalled jobs, and an accepted request is carried through.
Fairness ==
  /\ WF_vars(WorkerStep)
  /\ WF_vars(QueueStep)
  /\ \A d \in Deployments : WF_vars(Enqueue(d))

FairSpec == Spec /\ Fairness

-----------------------------------------------------------------------------
AtRest == w.pc = "idle" /\ queue = <<>> /\ stalled = {}

\* When no job is in hand or waiting and the application reads "running", its
\* container runs, is attached to its network, belongs to a successful deployment
\* and was created from the image that deployment recorded.  (Without worker
\* crashes: a re-run of the deployment that went live may record it as failed; and until
\* a deletion is asked for, which may be refused once the container is gone.)
RunningIsDeployed ==
  AtRest /\ "worker" \notin faults /\ app.exists /\ deleting = "no" /\ app.status = "running" =>
    /\ ctr.state = "running" /\ ctr.net
    /\ status[ctr.dep] = "success" /\ image[ctr.dep] = ctr.image

\* A deployment that failed before it stopped the old container reports the state
\* it found, so an application that was running is not reported idle and one whose
\* container is gone or half replaced is not reported running.  (Without worker
\* crashes: the re-run of the deployment that is live may fail before it stops it.)
FailureReportsWhatRuns ==
  w.pc = "ack" /\ deleting = "no" /\ "worker" \notin faults
    /\ status[w.dep] = "failed" /\ app.status = "running"
    => ctr.state = "running" /\ ctr.dep # w.dep

\* A rollback that succeeded runs the very image its source recorded, even when the
\* source's own job is run again after a crash.
RollbackKeepsImage ==
  \A d \in Deployments : status[d] = "success" /\ source[d] # None
                           => image[d] = image[source[d]]

\* No deployment stays in progress when nothing works on it: every job ends as a
\* success or a readable failure.  (Without database errors; a job whose enqueue
\* failed stays pending, and one that stalled twice stays building.)
NoneInProgressAtRest ==
  AtRest /\ "db" \notin faults =>
            /\ \A d \in Deployments : status[d] # "building"
            /\ app.exists => app.status # "deploying"

\* "A missing required variable is detected before Sohwe replaces the running
\* container": the worker changes a container only when the job has its image, and
\* never removes one that is still running.
UntouchedUntilBuilt ==
  [][ctr' # ctr /\ deleting' = deleting /\ ctr.state # "none" =>
       /\ w.image # None
       /\ ctr.state = "running" => ctr'.state # "none"]_vars

\* Every queued deployment ends, or goes away with the application, even when the
\* worker dies once.  (Without database errors, which the failure path needs.)
QueuedDeploymentEnds ==
  \A d \in Deployments :
    (\E i \in 1..Len(queue) : queue[i] = d)
      ~> status[d] \in {"success", "failed", "absent"} \/ "db" \in faults

(***************************************************************************)
(* What the repository says of the program and the code does not do.       *)
(***************************************************************************)

\* CHANGELOG: "on a non-zero-exit crash or OOM kill it marks the app `crashed`".
CrashedOnlyAfterCrash == app.status = "crashed" => crashes > 0
=============================================================================
