--------------------------- MODULE ProjectRelease ---------------------------
(***************************************************************************)
(* Coordinated releases of one project: the API that records and queues a  *)
(* release, BullMQ's project-deploy queue, the worker that builds, runs    *)
(* the release job, starts private candidates, promotes the HTTP ones,     *)
(* retires the previous release and commits, and the Docker daemon whose   *)
(* containers outlive a worker crash.                                      *)
(*                                                                         *)
(* Sources: apps/api/src/routes/projects.ts, github-webhook.ts and         *)
(* datastores.ts (API), packages/queue (queue), apps/worker/src/           *)
(* project-deploy.ts, project-docker-ops.ts, project-container-spec.ts     *)
(* (worker).  BullMQ and Docker are modelled from how that code uses them. *)
(***************************************************************************)
EXTENDS Naturals, Sequences, FiniteSets

CONSTANTS
  Releases,     \* ids of the project_releases rows that may be created
  Services,     \* the project's services
  Kind,         \* Kind[s]: "http" | "worker" | "release"
  BuildKey,     \* BuildKey[s]: serviceBuildKey, equal for a shared image
  HealthyDeps,  \* HealthyDeps[s]: dependencies of s with condition "healthy"
  StartedDeps,  \* StartedDeps[s]: dependencies of s with condition "started"
  Datastores,   \* managed datastores of the organization
  None,         \* no release
  NoImage,      \* no image tag recorded
  FaultKinds,   \* the infrastructure faults this instance may suffer
  MaxFaults,    \* bound on the number of such faults
  MaxStalled    \* BullMQ maxStalledCount: re-runs of a stalled job

Http    == {s \in Services : Kind[s] = "http"}
Runtime == {s \in Services : Kind[s] # "release"}
JobSvc  == Services \ Runtime

ASSUME KindAssumption ==
  /\ Kind \in [Services -> {"http", "worker", "release"}]
  /\ \A s, t \in Services : Kind[s] = "release" /\ Kind[t] = "release" => s = t
ASSUME DepsAssumption ==
  /\ HealthyDeps \in [Services -> SUBSET Runtime]
  /\ StartedDeps \in [Services -> SUBSET Runtime]
ASSUME NoneAssumption == None \notin Releases
ASSUME ImageAssumption ==
  \A r \in Releases, s \in Services : <<r, BuildKey[s]>> # NoImage
ASSUME BoundsAssumption ==
  /\ FaultKinds \subseteq {"worker", "api", "redis", "docker", "db"}
  /\ MaxFaults \in Nat /\ MaxStalled \in Nat

VARIABLES
  projectStatus, current, bound,    \* the projects row and its datastore bindings
  status, trigger, source,          \* project_releases, by release
  row, image,                       \* service_deployments, by release and service
  req,                              \* progress of the API request that creates a release
  queue, stalled, stallCount,       \* BullMQ: waiting jobs, ownerless active jobs
  w,                                \* the worker: its position in deploy() and its locals
  ctr, attached,                    \* Docker: containers, datastores on the project network
  faults, jobRuns                   \* faults so far; starts of each release's job

dbVars     == <<projectStatus, current, bound, status, trigger, source, row, image>>
queueVars  == <<queue, stalled, stallCount>>
dockerVars == <<ctr, attached>>
vars == <<dbVars, req, queueVars, w, dockerVars, faults, jobRuns>>

ActiveStatuses == {"pending", "building", "releasing", "deploying"}
InProgressRows == {"pending", "building", "built", "running"}
Images == (Releases \X {BuildKey[s] : s \in Services}) \cup {NoImage}

(***************************************************************************)
(* A container is identified by its release and service, because           *)
(* projectServiceContainerName is: a second create under the same name is  *)
(* refused by Docker.  "stopped" covers created and exited; the routed     *)
(* states are those of a spec built with routeReady.                       *)
(***************************************************************************)
CtrStates == {"absent", "stopped", "running", "routedStopped", "routedRunning"}

Up(r, s)   == ctr[r][s] = IF s \in Http THEN "routedRunning" ELSE "running"
\* Every runtime service of r runs, the HTTP ones on the proxy network.
Serving(r) == \A s \in Runtime : Up(r, s)

Active(r)  == status[r] \in ActiveStatuses
Exists(r)  == status[r] # "absent"

PCs == {"down", "idle", "begin", "detach", "images", "network", "jobCreate",
        "jobStart", "jobWait", "mark", "create", "start", "probe", "promote",
        "recheck", "list", "retire", "commit", "cleanup", "failed", "ack"}

Fresh(p) ==
  [pc |-> p, job |-> None, current |-> None, bound |-> {}, building |-> {},
   built |-> {}, cands |-> {}, started |-> {}, ready |-> {}, promoted |-> {},
   rejected |-> {}, todo |-> {}]

DbTypeOK ==
  /\ projectStatus \in {"idle", "deploying", "running"}
  /\ current \in Releases \cup {None}
  /\ bound \subseteq Datastores
  /\ status \in [Releases -> ActiveStatuses \cup {"absent", "success", "failed"}]
  /\ trigger \in [Releases -> {"none", "manual", "rollback", "push"}]
  /\ source \in [Releases -> Releases \cup {None}]
  /\ \A r \in Releases : trigger[r] = "rollback" => source[r] \in Releases
  /\ row \in [Releases -> [Services -> InProgressRows \cup {"success", "failed"}]]
  /\ image \in [Releases -> [Services -> Images]]

QueueTypeOK ==
  /\ req \in [Releases -> {"unused", "checked", "created", "done"}]
  /\ queue \in Seq(Releases)
  /\ stalled \subseteq Releases
  /\ stallCount \in [Releases -> Nat]

WorkerTypeOK ==
  /\ w \in [pc : PCs, job : Releases \cup {None}, current : Releases \cup {None},
            bound : SUBSET Datastores, building : SUBSET Services,
            built : SUBSET Services, cands : SUBSET Services,
            started : SUBSET Services, ready : SUBSET Services,
            promoted : SUBSET Services, rejected : SUBSET Services,
            todo : SUBSET (Releases \X Services)]
  /\ w.job = None <=> w.pc \in {"down", "idle"}

DockerTypeOK ==
  /\ ctr \in [Releases -> [Services -> CtrStates]]
  /\ attached \subseteq Datastores
  /\ faults \in Nat
  /\ jobRuns \in [Releases -> Nat]

TypeOK == DbTypeOK /\ QueueTypeOK /\ WorkerTypeOK /\ DockerTypeOK

Init ==
  /\ projectStatus = "idle" /\ current = None /\ bound = {}
  /\ status = [r \in Releases |-> "absent"]
  /\ trigger = [r \in Releases |-> "none"]
  /\ source = [r \in Releases |-> None]
  /\ row = [r \in Releases |-> [s \in Services |-> "pending"]]
  /\ image = [r \in Releases |-> [s \in Services |-> NoImage]]
  /\ req = [r \in Releases |-> "unused"]
  /\ queue = <<>> /\ stalled = {} /\ stallCount = [r \in Releases |-> 0]
  /\ w = Fresh("idle")
  /\ ctr = [r \in Releases |-> [s \in Services |-> "absent"]]
  /\ attached = {}
  /\ faults = 0
  /\ jobRuns = [r \in Releases |-> 0]

\* One infrastructure fault of the given kind happens in this step.
Fault(kind) == /\ kind \in FaultKinds /\ faults < MaxFaults
               /\ faults' = faults + 1

-----------------------------------------------------------------------------
(***************************************************************************)
(* The API.  enqueueRelease reads, creates and queues in three awaited     *)
(* steps; concurrent requests interleave between them.                     *)
(***************************************************************************)
NoActiveRelease == \A r \in Releases : ~Active(r)

\* POST /deploy and /rollback, up to the active-release check of enqueueRelease.
CheckRelease(r) ==
  /\ req[r] = "unused"
  /\ NoActiveRelease
  /\ \/ /\ trigger' = [trigger EXCEPT ![r] = "manual"]
        /\ UNCHANGED source
     \/ \E src \in Releases :
          /\ status[src] = "success"
          /\ trigger' = [trigger EXCEPT ![r] = "rollback"]
          /\ source' = [source EXCEPT ![r] = src]
  /\ req' = [req EXCEPT ![r] = "checked"]
  /\ UNCHANGED <<projectStatus, current, bound, status, row, image, queueVars, w,
                 dockerVars, faults, jobRuns>>

CreateRelease(r) ==
  /\ req[r] = "checked"
  /\ status' = [status EXCEPT ![r] = "pending"]
  /\ req' = [req EXCEPT ![r] = "created"]
  /\ UNCHANGED <<projectStatus, current, bound, trigger, source, row, image,
                 queueVars, w, dockerVars, faults, jobRuns>>

\* enqueuePushDeploys: a push creates its release without the check.
PushRelease(r) ==
  /\ req[r] = "unused"
  /\ trigger' = [trigger EXCEPT ![r] = "push"]
  /\ status' = [status EXCEPT ![r] = "pending"]
  /\ req' = [req EXCEPT ![r] = "created"]
  /\ UNCHANGED <<projectStatus, current, bound, source, row, image, queueVars, w,
                 dockerVars, faults, jobRuns>>

EnqueueRelease(r) ==
  /\ req[r] = "created"
  /\ queue' = Append(queue, r)
  /\ req' = [req EXCEPT ![r] = "done"]
  /\ UNCHANGED <<dbVars, stalled, stallCount, w, dockerVars, faults, jobRuns>>

\* queue.add rejects: enqueueRelease records a failed attempt, the webhook throws.
EnqueueFails(r) ==
  /\ req[r] = "created"
  /\ Fault("redis")
  /\ req' = [req EXCEPT ![r] = "done"]
  /\ IF trigger[r] = "push"
       THEN UNCHANGED <<status, row>>
       ELSE /\ status' = [status EXCEPT ![r] = "failed"]
            /\ row' = [row EXCEPT ![r] = [s \in Services |-> "failed"]]
  /\ UNCHANGED <<projectStatus, current, bound, trigger, source, image, queueVars,
                 w, dockerVars, jobRuns>>

\* The API process dies between the create and the add.
ApiCrash(r) ==
  /\ req[r] = "created"
  /\ Fault("api")
  /\ req' = [req EXCEPT ![r] = "done"]
  /\ UNCHANGED <<dbVars, queueVars, w, dockerVars, jobRuns>>

\* project-bindings POST: the row, then a best-effort network connect.
Bind(d) ==
  /\ d \notin bound
  /\ bound' = bound \cup {d}
  /\ attached' \in {attached, attached \cup {d}}
  /\ UNCHANGED <<projectStatus, current, status, trigger, source, row, image, req,
                 queueVars, w, ctr, faults, jobRuns>>

\* project-bindings DELETE: the row only, the network stays for the live release.
Unbind(d) ==
  /\ d \in bound
  /\ bound' = bound \ {d}
  /\ UNCHANGED <<projectStatus, current, status, trigger, source, row, image, req,
                 queueVars, w, dockerVars, faults, jobRuns>>

-----------------------------------------------------------------------------
(***************************************************************************)
(* The worker: deploy() of project-deploy.ts, one action per awaited       *)
(* effect.  r stands for the release of the job in hand.                   *)
(***************************************************************************)
Goto(p) == w' = [w EXCEPT !.pc = p]

TakeJob ==
  /\ w.pc = "idle" /\ queue # <<>>
  /\ w' = [Fresh("begin") EXCEPT !.job = Head(queue), !.current = current,
                                 !.bound = bound]
  /\ queue' = Tail(queue)
  /\ UNCHANGED <<dbVars, req, stalled, stallCount, dockerVars, faults, jobRuns>>

\* A read of the project or the release rejects: the job fails before the try that
\* would record it, and the release stays pending.
TakeJobFails ==
  /\ w.pc = "idle" /\ queue # <<>>
  /\ Fault("db")
  /\ queue' = Tail(queue)
  /\ UNCHANGED <<dbVars, req, stalled, stallCount, w, dockerVars, jobRuns>>

BeginRelease ==
  /\ w.pc = "begin"
  /\ projectStatus' = "deploying"
  /\ status' = [status EXCEPT ![w.job] = "building"]
  /\ Goto("detach")
  /\ UNCHANGED <<current, bound, trigger, source, row, image, req, queueVars,
                 dockerVars, faults, jobRuns>>

\* disconnectUnboundProjectDatastores; an error ends the loop and is swallowed.
DetachUnbound ==
  /\ w.pc = "detach"
  /\ \/ /\ attached' = attached \cap w.bound
        /\ UNCHANGED faults
     \/ /\ Fault("docker")
        /\ \E D \in SUBSET (attached \ w.bound) : attached' = attached \ D
  /\ Goto("images")
  /\ UNCHANGED <<dbVars, req, queueVars, ctr, jobRuns>>

\* Mutant: a rollback names images of its own instead of its source's.
RetaggedImages(r) == [s \in Services |-> <<r, BuildKey[s]>>]

ReusedImages(r) == image[source[r]]

\* Rollback: every service reuses the image of a release that is successful now.
ReuseImages ==
  /\ w.pc = "images" /\ trigger[w.job] = "rollback"
  /\ LET src == source[w.job] IN
       /\ status[src] = "success"
       /\ \A s \in Services : image[src][s] # NoImage
       /\ image' = [image EXCEPT ![w.job] = ReusedImages(w.job)]
       /\ row' = [row EXCEPT ![w.job] = [s \in Services |-> "built"]]
  /\ Goto("network")
  /\ UNCHANGED <<projectStatus, current, bound, status, trigger, source, req,
                 queueVars, dockerVars, faults, jobRuns>>

\* A service whose build key was built before reuses that image.
ReuseBuild(s) ==
  /\ w.pc = "images" /\ trigger[w.job] # "rollback" /\ w.building = {}
  /\ s \notin w.built
  /\ \E t \in w.built :
       /\ BuildKey[t] = BuildKey[s]
       /\ image' = [image EXCEPT ![w.job][s] = image[w.job][t]]
  /\ row' = [row EXCEPT ![w.job][s] = "built"]
  /\ w' = [w EXCEPT !.built = @ \cup {s}]
  /\ UNCHANGED <<projectStatus, current, bound, status, trigger, source, req,
                 queueVars, dockerVars, faults, jobRuns>>

StartBuild(s) ==
  /\ w.pc = "images" /\ trigger[w.job] # "rollback" /\ w.building = {}
  /\ s \notin w.built
  /\ \A t \in w.built : BuildKey[t] # BuildKey[s]
  /\ row' = [row EXCEPT ![w.job][s] = "building"]
  /\ w' = [w EXCEPT !.building = {s}]
  /\ UNCHANGED <<projectStatus, current, bound, status, trigger, source, image, req,
                 queueVars, dockerVars, faults, jobRuns>>

FinishBuild(s) ==
  /\ w.pc = "images" /\ s \in w.building
  /\ image' = [image EXCEPT ![w.job][s] = <<w.job, BuildKey[s]>>]
  /\ row' = [row EXCEPT ![w.job][s] = "built"]
  /\ w' = [w EXCEPT !.building = {}, !.built = @ \cup {s}]
  /\ UNCHANGED <<projectStatus, current, bound, status, trigger, source, req,
                 queueVars, dockerVars, faults, jobRuns>>

AllBuilt ==
  /\ w.pc = "images" /\ trigger[w.job] # "rollback" /\ w.built = Services
  /\ Goto("network")
  /\ UNCHANGED <<dbVars, req, queueVars, dockerVars, faults, jobRuns>>

\* ensureProjectNetwork, then every bound datastore is connected.
EnsureNetwork ==
  /\ w.pc = "network"
  /\ attached' = attached \cup w.bound
  /\ Goto(IF JobSvc = {} THEN "mark" ELSE "jobCreate")
  /\ UNCHANGED <<dbVars, req, queueVars, ctr, faults, jobRuns>>

CreateJob(s) ==
  /\ w.pc = "jobCreate" /\ s \in JobSvc
  /\ status' = [status EXCEPT ![w.job] = "releasing"]
  /\ IF ctr[w.job][s] = "absent"
       THEN ctr' = [ctr EXCEPT ![w.job][s] = "stopped"] /\ Goto("jobStart")
       ELSE UNCHANGED ctr /\ Goto("failed")      \* 409: the name is taken
  /\ UNCHANGED <<projectStatus, current, bound, trigger, source, row, image, req,
                 queueVars, attached, faults, jobRuns>>

StartJob(s) ==
  /\ w.pc = "jobStart" /\ s \in JobSvc
  /\ ctr' = [ctr EXCEPT ![w.job][s] = "running"]
  /\ jobRuns' = [jobRuns EXCEPT ![w.job] = @ + 1]
  /\ Goto("jobWait")
  /\ UNCHANGED <<dbVars, req, queueVars, attached, faults>>

AfterJob(exit) == IF exit = "success" THEN "mark" ELSE "failed"

\* wait(), remove() and the exit code; a failing remove is swallowed.
FinishJob(s) ==
  /\ w.pc = "jobWait" /\ s \in JobSvc
  /\ \/ ctr' = [ctr EXCEPT ![w.job][s] = "absent"] /\ UNCHANGED faults
     \/ ctr' = [ctr EXCEPT ![w.job][s] = "stopped"] /\ Fault("docker")
  /\ \E exit \in {"success", "failed"} :
       row' = [row EXCEPT ![w.job][s] = exit] /\ Goto(AfterJob(exit))
  /\ UNCHANGED <<projectStatus, current, bound, status, trigger, source, image, req,
                 queueVars, attached, jobRuns>>

MarkDeploying ==
  /\ w.pc = "mark"
  /\ status' = [status EXCEPT ![w.job] = "deploying"]
  /\ Goto("create")
  /\ UNCHANGED <<projectStatus, current, bound, trigger, source, row, image, req,
                 queueVars, dockerVars, faults, jobRuns>>

\* A private candidate under its release-specific name; a taken name throws.
CreateCandidate(s) ==
  /\ w.pc = "create" /\ s \in Runtime \ w.cands
  /\ IF ctr[w.job][s] = "absent"
       THEN /\ ctr' = [ctr EXCEPT ![w.job][s] = "stopped"]
            /\ w' = [w EXCEPT !.cands = @ \cup {s}]
       ELSE /\ UNCHANGED ctr
            /\ Goto("cleanup")
  /\ UNCHANGED <<dbVars, req, queueVars, attached, faults, jobRuns>>

AllCreated ==
  /\ w.pc = "create" /\ w.cands = Runtime
  /\ Goto("start")
  /\ UNCHANGED <<dbVars, req, queueVars, dockerVars, faults, jobRuns>>

CanStart(s) == /\ HealthyDeps[s] \cup StartedDeps[s] \subseteq w.started
               /\ HealthyDeps[s] \subseteq w.ready

\* orderRuntimeServices: a service starts after everything it depends on.
StartCandidate(s) ==
  /\ w.pc = "start" /\ s \in Runtime \ w.started
  /\ CanStart(s)
  /\ ctr' = [ctr EXCEPT ![w.job][s] = "running"]
  /\ row' = [row EXCEPT ![w.job][s] = "running"]
  /\ w' = [w EXCEPT !.started = @ \cup {s}]
  /\ UNCHANGED <<projectStatus, current, bound, status, trigger, source, image, req,
                 queueVars, attached, faults, jobRuns>>

AllStarted ==
  /\ w.pc = "start" /\ w.started = Runtime
  /\ Goto("probe")
  /\ UNCHANGED <<dbVars, req, queueVars, dockerVars, faults, jobRuns>>

\* ensureReady: for a dependent that waits for s, or for all at the end.
CandidateReady(s) ==
  /\ \/ /\ w.pc = "start"
        /\ \E t \in Runtime \ w.started : s \in HealthyDeps[t]
     \/ w.pc = "probe"
  /\ s \in w.started \ w.ready
  /\ w' = [w EXCEPT !.ready = @ \cup {s}]
  /\ UNCHANGED <<dbVars, req, queueVars, dockerVars, faults, jobRuns>>

\* Mutant: the old release is retired before the new one is promoted.
AllReadyRetiresFirst ==
  /\ w.pc = "probe" /\ w.ready = Runtime
  /\ Goto("list")
  /\ UNCHANGED <<dbVars, req, queueVars, dockerVars, faults, jobRuns>>

AllReady ==
  /\ w.pc = "probe" /\ w.ready = Runtime
  /\ Goto("promote")
  /\ UNCHANGED <<dbVars, req, queueVars, dockerVars, faults, jobRuns>>

Promoting(s) == /\ w.pc = "promote"
                /\ s \in Http \ (w.promoted \cup w.rejected)

\* promoteProjectHttpContainer: the private probe goes first ...
RemoveProbe(s) ==
  /\ Promoting(s) /\ ctr[w.job][s] = "running"
  /\ ctr' = [ctr EXCEPT ![w.job][s] = "absent"]
  /\ UNCHANGED <<dbVars, req, queueVars, w, attached, faults, jobRuns>>

\* ... then the routed instance is created under the same name and started.
CreateRouted(s) ==
  /\ Promoting(s) /\ ctr[w.job][s] = "absent"
  /\ ctr' = [ctr EXCEPT ![w.job][s] = "routedStopped"]
  /\ UNCHANGED <<dbVars, req, queueVars, w, attached, faults, jobRuns>>

StartRouted(s) ==
  /\ Promoting(s) /\ ctr[w.job][s] = "routedStopped"
  /\ ctr' = [ctr EXCEPT ![w.job][s] = "routedRunning"]
  /\ UNCHANGED <<dbVars, req, queueVars, w, attached, faults, jobRuns>>

RoutedReady(s) ==
  /\ Promoting(s) /\ ctr[w.job][s] = "routedRunning"
  /\ w' = [w EXCEPT !.promoted = @ \cup {s}]
  /\ UNCHANGED <<dbVars, req, queueVars, dockerVars, faults, jobRuns>>

\* Any of those awaits rejects; allSettled still waits for the other services.
RejectPromotion(s) ==
  /\ Promoting(s)
  /\ w' = [w EXCEPT !.rejected = @ \cup {s}]
  /\ UNCHANGED <<dbVars, req, queueVars, dockerVars, faults, jobRuns>>

\* Mutant: allSettled's rejections are not rethrown.
AfterPromotionRegardless == "recheck"

AfterPromotion == IF w.rejected = {} THEN "recheck" ELSE "cleanup"

AllSettled ==
  /\ w.pc = "promote" /\ w.promoted \cup w.rejected = Http
  /\ Goto(AfterPromotion)
  /\ UNCHANGED <<dbVars, req, queueVars, dockerVars, faults, jobRuns>>

\* Every candidate, HTTP or not, passes readiness once more.
RecheckReady ==
  /\ w.pc = "recheck"
  /\ Goto("list")
  /\ UNCHANGED <<dbVars, req, queueVars, dockerVars, faults, jobRuns>>

\* The inner catch removes each candidate; stop and remove errors are swallowed.
CleanupCandidate(s) ==
  /\ w.pc = "cleanup" /\ s \in w.cands
  /\ \/ ctr' = [ctr EXCEPT ![w.job][s] = "absent"] /\ UNCHANGED faults
     \/ UNCHANGED ctr /\ Fault("docker")
  /\ w' = [w EXCEPT !.cands = @ \ {s}]
  /\ UNCHANGED <<dbVars, req, queueVars, attached, jobRuns>>

\* Mutant: the inner catch rethrows without removing the candidates.
CleanupSkipped ==
  /\ w.pc = "cleanup"
  /\ Goto("failed")
  /\ UNCHANGED <<dbVars, req, queueVars, dockerVars, faults, jobRuns>>

CleanupDone ==
  /\ w.pc = "cleanup" /\ w.cands = {}
  /\ Goto("failed")
  /\ UNCHANGED <<dbVars, req, queueVars, dockerVars, faults, jobRuns>>

\* stopAndRemoveProjectContainers lists the project's containers; this can throw.
ListOld ==
  /\ w.pc = "list"
  /\ \/ /\ w' = [w EXCEPT !.pc = "retire",
                          !.todo = {c \in Releases \X Services :
                                      c[1] # w.job /\ ctr[c[1]][c[2]] # "absent"}]
        /\ UNCHANGED faults
     \/ Fault("docker") /\ Goto("failed")
  /\ UNCHANGED <<dbVars, req, queueVars, dockerVars, jobRuns>>

RetireOld(c) ==
  /\ w.pc = "retire" /\ c \in w.todo
  /\ \/ ctr' = [ctr EXCEPT ![c[1]][c[2]] = "absent"] /\ UNCHANGED faults
     \/ UNCHANGED ctr /\ Fault("docker")
  /\ w' = [w EXCEPT !.todo = @ \ {c}]
  /\ UNCHANGED <<dbVars, req, queueVars, attached, jobRuns>>

AllRetired ==
  /\ w.pc = "retire" /\ w.todo = {}
  /\ Goto("commit")
  /\ UNCHANGED <<dbVars, req, queueVars, dockerVars, faults, jobRuns>>

CommitRelease ==
  /\ w.pc = "commit"
  /\ \/ /\ row' = [row EXCEPT ![w.job] =
                     [s \in Services |-> IF s \in Runtime THEN "success" ELSE @[s]]]
        /\ status' = [status EXCEPT ![w.job] = "success"]
        /\ projectStatus' = "running"
        /\ current' = w.job
        /\ Goto("ack")
        /\ UNCHANGED faults
     \/ /\ Fault("db") /\ Goto("failed")
        /\ UNCHANGED <<row, status, projectStatus, current>>
  /\ UNCHANGED <<bound, trigger, source, image, req, queueVars, dockerVars, jobRuns>>

FailedRow(st) == IF st \in InProgressRows THEN "failed" ELSE st

StatusAfterFailure == IF w.current # None THEN "running" ELSE "idle"

\* The outer catch; its own failure is swallowed.
RecordFailure ==
  /\ w.pc = "failed"
  /\ \/ /\ status' = [status EXCEPT ![w.job] = "failed"]
        /\ row' = [row EXCEPT ![w.job] =
                     [s \in Services |-> FailedRow(@[s])]]
        /\ projectStatus' = StatusAfterFailure
        /\ UNCHANGED faults
     \/ /\ Fault("db")
        /\ UNCHANGED <<status, row, projectStatus>>
  /\ Goto("ack")
  /\ UNCHANGED <<current, bound, trigger, source, image, req, queueVars, dockerVars,
                 jobRuns>>

\* An await before the candidates exist rejects: clone, build, datastore, Docker.
Throw ==
  /\ w.pc \in {"begin", "images", "network", "jobCreate", "jobStart", "jobWait", "mark"}
  /\ Goto("failed")
  /\ UNCHANGED <<dbVars, req, queueVars, dockerVars, faults, jobRuns>>

\* An await of the inner try rejects: create, start, readiness.
ThrowCandidate ==
  /\ w.pc \in {"create", "start", "probe", "recheck"}
  /\ Goto("cleanup")
  /\ UNCHANGED <<dbVars, req, queueVars, dockerVars, faults, jobRuns>>

\* BullMQ moves the job to completed or failed (attempts defaults to 1).
AckJob ==
  /\ w.pc = "ack"
  /\ w' = Fresh("idle")
  /\ UNCHANGED <<dbVars, req, queueVars, dockerVars, faults, jobRuns>>

\* The worker process dies; its job stays in the active list without an owner.
WorkerCrash ==
  /\ w.job # None
  /\ Fault("worker")
  /\ stalled' = stalled \cup {w.job}
  /\ w' = Fresh("down")
  /\ UNCHANGED <<dbVars, req, queue, stallCount, dockerVars, jobRuns>>

WorkerRestart ==
  /\ w.pc = "down"
  /\ w' = Fresh("idle")
  /\ UNCHANGED <<dbVars, req, queueVars, dockerVars, faults, jobRuns>>

\* Mutant: a stalled job is dropped at once.
DropStalled(r) ==
  /\ w.pc # "down" /\ r \in stalled
  /\ stalled' = stalled \ {r}
  /\ UNCHANGED <<dbVars, req, queue, stallCount, w, dockerVars, faults, jobRuns>>

\* BullMQ's stalled checker: the job runs again first, or fails for good.
RequeueStalled(r) ==
  /\ w.pc # "down" /\ r \in stalled
  /\ stalled' = stalled \ {r}
  /\ IF stallCount[r] < MaxStalled
       THEN /\ queue' = <<r>> \o queue
            /\ stallCount' = [stallCount EXCEPT ![r] = @ + 1]
       ELSE UNCHANGED <<queue, stallCount>>
  /\ UNCHANGED <<dbVars, req, w, dockerVars, faults, jobRuns>>

-----------------------------------------------------------------------------
ApiStep ==
  \/ \E r \in Releases : \/ CheckRelease(r) \/ CreateRelease(r) \/ PushRelease(r)
                         \/ EnqueueRelease(r) \/ EnqueueFails(r) \/ ApiCrash(r)
  \/ \E d \in Datastores : Bind(d) \/ Unbind(d)

ImageStep ==
  \/ ReuseImages \/ AllBuilt
  \/ \E s \in Services : ReuseBuild(s) \/ StartBuild(s) \/ FinishBuild(s)

JobStep == \E s \in Services : CreateJob(s) \/ StartJob(s) \/ FinishJob(s)

CandidateStep ==
  \/ AllCreated \/ AllStarted \/ AllReady
  \/ \E s \in Services : CreateCandidate(s) \/ StartCandidate(s) \/ CandidateReady(s)

PromoteStep ==
  \/ AllSettled \/ RecheckReady
  \/ \E s \in Services : \/ RemoveProbe(s) \/ CreateRouted(s) \/ StartRouted(s)
                         \/ RoutedReady(s) \/ RejectPromotion(s)

RetireStep ==
  \/ ListOld \/ AllRetired
  \/ \E c \in Releases \X Services : RetireOld(c)

FailStep ==
  \/ Throw \/ ThrowCandidate \/ CleanupDone \/ RecordFailure
  \/ \E s \in Services : CleanupCandidate(s)

WorkerStep ==
  \/ TakeJob \/ BeginRelease \/ DetachUnbound \/ ImageStep \/ EnsureNetwork
  \/ JobStep \/ MarkDeploying \/ CandidateStep \/ PromoteStep \/ RetireStep
  \/ CommitRelease \/ FailStep \/ AckJob \/ WorkerRestart

QueueStep == \E r \in Releases : RequeueStalled(r)

Next == ApiStep \/ WorkerStep \/ WorkerCrash \/ TakeJobFails \/ QueueStep

Spec == Init /\ [][Next]_vars

\* A started request finishes, the worker runs its event loop and is restarted by
\* its supervisor, and BullMQ checks for stalled jobs; users promise nothing.
Fairness ==
  /\ WF_vars(WorkerStep)
  /\ WF_vars(QueueStep)
  /\ \A r \in Releases : WF_vars(CreateRelease(r)) /\ WF_vars(EnqueueRelease(r))

FairSpec == Spec /\ Fairness

-----------------------------------------------------------------------------
(***************************************************************************)
(* Safety.                                                                 *)
(***************************************************************************)

\* Once a release has been promoted, some release always serves in full: every
\* runtime service running and every HTTP one routed.  Candidates are built beside
\* the old set, and the old set is removed only under a complete new one, whatever
\* crashes or Docker and database errors happen in between.
AlwaysServed == current # None => \E r \in Releases : Serving(r)

(***************************************************************************)
(* The inductive invariant behind AlwaysServed: what the worker's locals   *)
(* say of the containers, at every point a crash may interrupt.            *)
(***************************************************************************)
BeforeCandidates ==
  {"begin", "detach", "images", "network", "jobCreate", "jobStart", "jobWait", "mark"}

LocalsInv ==
  /\ w.cands \subseteq Runtime /\ w.started \subseteq Runtime
  /\ w.promoted \subseteq Http
  /\ w.pc \in BeforeCandidates => w.cands = {}
  /\ w.pc \in BeforeCandidates \cup {"create"} => w.started = {}
  /\ w.pc \in BeforeCandidates \cup {"create", "start", "probe"}
       => w.promoted = {} /\ w.rejected = {}
  /\ w.pc \in {"start", "probe", "promote", "recheck"} => w.cands = Runtime
  /\ w.pc \in {"probe", "promote"} => w.started = Runtime
  /\ w.pc = "promote" => w.ready = Runtime

\* Started candidates run until they are promoted; promoted ones are routed.
CandidatesInv ==
  /\ w.pc \in {"start", "probe"} => \A s \in w.started : ctr[w.job][s] = "running"
  /\ w.pc = "promote" =>
       /\ \A s \in Runtime \ Http : ctr[w.job][s] = "running"
       /\ \A s \in w.promoted : ctr[w.job][s] = "routedRunning"
  /\ w.pc \in {"recheck", "list", "retire", "commit"} => Serving(w.job)
  /\ w.pc = "retire" => \A c \in w.todo : c[1] # w.job

\* While candidates of the release in hand exist, another release serves.
BackedInv ==
  /\ current # None
  /\ w.pc \in {"create", "start", "probe", "promote", "recheck", "cleanup"}
  /\ w.cands # {}
  => \E q \in Releases : q # w.job /\ Serving(q)

\* A complete set of containers always stands behind the project: while the worker
\* still handles candidates it is another release's, from the last readiness check
\* to the commit it is the candidates' own.
ServedInv == LocalsInv /\ CandidatesInv /\ BackedInv /\ AlwaysServed

\* When the worker is at rest, the project runs its current release in full and no
\* runtime container of any other release: a failed attempt cleans up after itself
\* and a promotion retires all it replaces.  (Until the first infrastructure fault.)
AtRestExactlyCurrent ==
  faults = 0 /\ w.pc = "idle" =>
    /\ current # None => Serving(current)
    /\ \A r \in Releases, s \in Runtime : ctr[r][s] # "absent" => r = current

\* "Every image is built before a release job runs or a live container is touched":
\* a container of a release exists only when all its services have an image.
BuiltBeforeTouched ==
  \A r \in Releases : (\E s \in Services : ctr[r][s] # "absent")
                        => \A s \in Services : image[r][s] # NoImage

\* A finished release has no service row left in progress: the commit and the outer
\* catch between them settle every row, and so does a failed enqueue.
NoRowLeftInProgress ==
  \A r \in Releases : status[r] \in {"success", "failed"}
                        => \A s \in Services : row[r][s] \in {"success", "failed"}

\* A release that rolled back runs exactly the images its source recorded, whatever
\* happened to the source between the API's check and the job.
RollbackKeepsImages ==
  \A r \in Releases : status[r] = "success" /\ trigger[r] = "rollback"
                        => image[r] = image[source[r]]

\* The release job (a migration) is started once per attempt: only the re-run of a
\* release whose worker died may start it again, never a failure of the job.
JobStartsOncePerAttempt == \A r \in Releases : jobRuns[r] <= 1 + stallCount[r]

\* A release works with the datastores that were bound when its job was loaded:
\* from its candidates to its commit all of them are on the project's network,
\* whatever is bound or unbound meanwhile and whatever earlier attempts detached.
CandidatesHaveDatastores ==
  w.pc \in {"create", "start", "probe", "promote", "recheck", "list", "retire", "commit"}
    => w.bound \subseteq attached

\* The project's current release is recorded as successful, and the project reads
\* "running" exactly when it has one and no job is in hand.  (Until the first
\* infrastructure fault.)
CurrentIsSuccessful ==
  faults = 0 =>
    /\ current # None => status[current] = "success"
    /\ w.pc = "idle" => (projectStatus = "running" <=> current # None)

(***************************************************************************)
(* What a step may never do.                                               *)
(***************************************************************************)

\* An HTTP container joins the proxy network only when every private probe of its
\* attempt, workers included, has passed readiness.
RoutedOnlyAfterProbes ==
  [][\A r \in Releases, s \in Services :
       ctr'[r][s] = "routedRunning" /\ ctr[r][s] # "routedRunning"
         => w.job = r /\ w.ready = Runtime]_vars

\* A runtime container of a release appears only after the release's job, if the
\* project has one, has exited with code 0 in this attempt.
MigratedBeforeCandidates ==
  [][\A r \in Releases, s \in Runtime :
       ctr'[r][s] # "absent" /\ ctr[r][s] = "absent"
         => \A j \in JobSvc : row[r][j] = "success"]_vars

\* A container of the current release is removed only while the release in hand
\* serves in full, or by the clean-up of an attempt of that very release.
LiveRemovedOnlyWhenReplaced ==
  [][\A s \in Runtime :
       current # None /\ ctr[current][s] # "absent" /\ ctr'[current][s] = "absent"
         => w.job # None /\ (w.job = current \/ Serving(w.job))]_vars

(***************************************************************************)
(* Liveness.                                                               *)
(***************************************************************************)

\* Every release that reached the queue finishes, as a success or a readable
\* failure, even when the worker dies once in the middle of it.  (Without database
\* errors, which leave it pending: TakeJobFails.)
QueuedReleaseFinishes ==
  \A r \in Releases :
    (\E i \in 1..Len(queue) : queue[i] = r) ~> status[r] \in {"success", "failed"}

(***************************************************************************)
(* What the repository says of the program and the code does not do.       *)
(***************************************************************************)

\* project-deploy.ts, outer catch: "A failed candidate leaves the last successful
\* release live", so the project is set back to running.
FailureLeavesCurrentLive ==
  w.pc = "ack" /\ status[w.job] = "failed" /\ projectStatus = "running"
    => Serving(current)

\* project-docker-ops.ts: datastores are detached "only after a new release has
\* replaced every container that could still depend on them".  Here: a datastore
\* leaves the network only when the release in hand has been promoted.
DetachOnlyAfterPromotion ==
  [][\A d \in Datastores : d \in attached /\ d \notin attached' /\ current # None
       => Serving(w.job)]_vars
=============================================================================
