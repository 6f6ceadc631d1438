-------------------------- MODULE DeploymentProofs --------------------------
(***************************************************************************)
(* Theorems about deployments and their logs, for any constants.           *)
(*                                                                         *)
(* AppDeploy: type correctness; an application that reads "running" runs   *)
(* what a successful deployment recorded; a failure reports what still     *)
(* runs; a rollback keeps its image; a container is left alone until its   *)
(* successor has an image.                                                 *)
(*                                                                         *)
(* RuntimeLog: the running container is followed, by one stream, and the   *)
(* lines a viewer gets never go back.                                      *)
(*                                                                         *)
(* BuildLog: the stored log of an attempt that ended is complete, and that *)
(* of any other is the log as it was.                                      *)
(***************************************************************************)
EXTENDS MCDeployment, FiniteSetTheorems, TLAPS

AppStatus == {"idle", "deploying", "running", "crashed"}
AppType == [exists : BOOLEAN, status : AppStatus]
RowStatus == {"absent", "pending", "building", "success", "failed"}
WorkerType == [pc : PCs, dep : Deployments \cup {None}, image : Images,
               status : AppStatus, stopped : BOOLEAN]
CtrType == [state : {"none", "created", "running", "stopped"},
            dep : Deployments \cup {None}, image : Images, net : BOOLEAN]

LEMMA InitTypeOK == Init => TypeOK
<1> SUFFICES ASSUME Init PROVE TypeOK
  OBVIOUS
<1>1. w \in WorkerType /\ (w.dep = None <=> w.pc \in {"down", "idle"})
  BY DEF Init, Fresh, WorkerType, PCs, Images, AppStatus
<1>2. ctr \in CtrType BY DEF Init, NoCtr, CtrType, Images
<1> QED BY <1>1, <1>2 DEF Init, TypeOK, WorkerType, CtrType, AppStatus, Images

\* Where the worker goes on keeps its job and what it has read.
LEMMA GotoStep ==
  ASSUME TypeOK, NEW p \in PCs \ {"down", "idle"}, w.pc \notin {"down", "idle"}, Goto(p)
  PROVE  /\ w' \in WorkerType /\ w'.pc = p /\ w'.dep = w.dep /\ w'.image = w.image
         /\ w'.status = w.status /\ w'.stopped = w.stopped
         /\ w'.dep = None <=> w'.pc \in {"down", "idle"}
BY DEF TypeOK, Goto, WorkerType, AppStatus

LEMMA FaultStep ==
  ASSUME TypeOK, NEW k, Fault(k)
  PROVE  faults' \subseteq FaultKinds /\ faults' = faults \cup {k} /\ k \notin faults
BY DEF TypeOK, Fault

LEMMA DieEventType ==
  ASSUME TypeOK, DieEvent
  PROVE  dies' \in Nat
BY DEF TypeOK, DieEvent

\* The step of a worker with a job in hand, variable by variable.
LEMMA WorkerFrame ==
  ASSUME TypeOK, w' \in WorkerType, w'.dep = None <=> w'.pc \in {"down", "idle"},
         app' \in AppType, status' \in [Deployments -> RowStatus],
         image' \in [Deployments -> Images], ctr' \in CtrType, dies' \in Nat,
         faults' \subseteq FaultKinds,
         UNCHANGED <<source, req, deleteVars, queueVars, watching, crashes>>
  PROVE  TypeOK'
BY DEF TypeOK, WorkerType, AppType, RowStatus, CtrType, AppStatus, deleteVars, queueVars

LEMMA TypeFacts ==
  ASSUME TypeOK
  PROVE  /\ w \in WorkerType /\ app \in AppType /\ ctr \in CtrType
         /\ status \in [Deployments -> RowStatus] /\ image \in [Deployments -> Images]
         /\ w.pc \notin {"down", "idle"} => w.dep \in Deployments
BY DEF TypeOK, WorkerType, AppType, RowStatus, CtrType, AppStatus

LEMMA CtrTypes ==
  /\ NoCtr \in CtrType
  /\ \A d \in Deployments, i \in Images : CtrOf(d, i) \in CtrType
BY DEF NoCtr, CtrOf, CtrType, Images

LEMMA TypeApi ==
  ASSUME TypeOK, ApiStep
  PROVE  TypeOK'
<1>1. ASSUME NEW d \in Deployments, NEW src \in Deployments \cup {None}, NewRow(d, src)
      PROVE  TypeOK'
  BY <1>1 DEF NewRow, TypeOK, deleteVars, queueVars
<1>2. CASE \E d \in Deployments : RequestDeploy(d)
  BY <1>1, <1>2 DEF RequestDeploy
<1>3. CASE \E d, src \in Deployments : RequestRollback(d, src)
  BY <1>1, <1>3 DEF RequestRollback
<1>4. CASE \E d \in Deployments : Enqueue(d)
  BY <1>4 DEF Enqueue, TypeOK, rowVars, deleteVars
<1>5. CASE \E d \in Deployments : EnqueueFails(d)
  BY <1>5, FaultStep DEF EnqueueFails, TypeOK, rowVars, deleteVars, queueVars
<1>6. CASE DeleteApp
  BY <1>6 DEF DeleteApp, TypeOK, rowVars, queueVars
<1>7. CASE DeleteContainers
  <2>0. dies \in Nat /\ faults \subseteq FaultKinds /\ ctr \in CtrType
    BY TypeFacts DEF TypeOK
  <2>1. ctr' \in CtrType
    BY <1>7, <2>0, CtrTypes DEF DeleteContainers
  <2>2. dies' \in Nat /\ faults' \subseteq FaultKinds
    BY <1>7, <2>0, FaultStep, DieEventType DEF DeleteContainers
  <2> QED BY <1>7, <2>1, <2>2 DEF DeleteContainers, TypeOK, CtrType, rowVars, queueVars
<1>8. CASE DeleteRow
  BY <1>8, ZenonT(60) DEF DeleteRow, TypeOK, queueVars
<1>9. CASE DeleteVolumes
  <2>1. ctr' \in CtrType
    BY <1>9, TypeFacts DEF DeleteVolumes, CtrType
  <2> QED BY <1>9, <2>1 DEF DeleteVolumes, TypeOK, CtrType, rowVars, queueVars
<1>10. CASE DeletionRefused
  BY <1>10, FaultStep DEF DeletionRefused, TypeOK, rowVars, queueVars
<1> QED BY <1>2, <1>3, <1>4, <1>5, <1>6, <1>7, <1>8, <1>9, <1>10 DEF ApiStep

LEMMA TypeTake ==
  ASSUME TypeOK, TakeJob
  PROVE  TypeOK'
<1>1. Head(queue) \in Deployments /\ Tail(queue) \in Seq(Deployments)
  BY DEF TypeOK, TakeJob
<1>2. w' \in WorkerType /\ (w'.dep = None <=> w'.pc \in {"down", "idle"})
  <2> DEFINE p == IF status[Head(queue)] = "absent" THEN "ack" ELSE "begin"
  <2>1. w' = [Fresh(p) EXCEPT !.dep = Head(queue), !.status = app.status]
    BY DEF TakeJob
  <2>2. w' = [pc |-> p, dep |-> Head(queue), status |-> app.status, image |-> None,
              stopped |-> FALSE]
    BY <2>1 DEF Fresh
  <2>3. p \in PCs \ {"down", "idle"}
    BY DEF PCs
  <2> HIDE DEF p
  <2> QED BY <1>1, <2>2, <2>3, NoneAssumption, TypeFacts DEF WorkerType, AppType, Images
<1> QED BY <1>1, <1>2 DEF TakeJob, TypeOK, WorkerType, AppStatus, rowVars, deleteVars

LEMMA TypeWorker ==
  ASSUME TypeOK, WorkerStep
  PROVE  TypeOK'
<1>0. /\ w \in WorkerType /\ app \in AppType /\ ctr \in CtrType /\ dies \in Nat
      /\ status \in [Deployments -> RowStatus] /\ image \in [Deployments -> Images]
      /\ w.pc \notin {"down", "idle"} => w.dep \in Deployments
      /\ faults \subseteq FaultKinds
  BY TypeFacts DEF TypeOK
<1>1. CASE TakeJob
  BY <1>1, TypeTake
<1>2. CASE BeginDeploy
  <2>1. w' \in WorkerType /\ (w'.dep = None <=> w'.pc \in {"down", "idle"})
    BY <1>2, GotoStep DEF BeginDeploy, PCs
  <2>2. status' \in [Deployments -> RowStatus]
    BY <1>0, <1>2 DEF BeginDeploy, RowStatus
  <2> QED BY <1>0, <1>2, <2>1, <2>2, WorkerFrame DEF BeginDeploy
<1>3. CASE MarkDeploying
  <2>1. w' \in WorkerType /\ (w'.dep = None <=> w'.pc \in {"down", "idle"})
    BY <1>3, GotoStep DEF MarkDeploying, PCs
  <2>2. app' \in AppType
    BY <1>0, <1>3 DEF MarkDeploying, AppType, AppStatus
  <2> QED BY <1>0, <1>3, <2>1, <2>2, WorkerFrame DEF MarkDeploying
<1>4. CASE ResolveImage
  <2>1. ImageFor(w.dep) \in Images
    BY <1>0, <1>4 DEF ResolveImage, ImageFor, TypeOK, Images
  <2>2. w' \in WorkerType /\ (w'.dep = None <=> w'.pc \in {"down", "idle"})
    BY <1>0, <1>4, <2>1, NoneAssumption DEF ResolveImage, WorkerType, PCs
  <2> QED BY <1>0, <1>4, <2>2, WorkerFrame DEF ResolveImage, rowVars
<1>5. CASE ListOld
  <2>1. w' \in WorkerType /\ (w'.dep = None <=> w'.pc \in {"down", "idle"})
    BY <1>0, <1>5, NoneAssumption DEF ListOld, WorkerType, PCs
  <2>2. faults' \subseteq FaultKinds BY <1>0, <1>5, FaultStep DEF ListOld
  <2> QED BY <1>0, <1>5, <2>1, <2>2, WorkerFrame DEF ListOld, rowVars
<1>6. CASE StopOld
  <2>1. w' \in WorkerType /\ (w'.dep = None <=> w'.pc \in {"down", "idle"})
    BY <1>6, GotoStep DEF StopOld, PCs
  <2>2. ctr' \in CtrType BY <1>0, <1>6 DEF StopOld, CtrType
  <2>3. dies' \in Nat /\ faults' \subseteq FaultKinds
    BY <1>0, <1>6, FaultStep, DieEventType DEF StopOld
  <2> QED BY <1>0, <1>6, <2>1, <2>2, <2>3, WorkerFrame DEF StopOld, rowVars
<1>7. CASE RemoveOld
  <2>1. w' \in WorkerType /\ (w'.dep = None <=> w'.pc \in {"down", "idle"})
    BY <1>7, GotoStep DEF RemoveOld, PCs
  <2>2. ctr' \in CtrType BY <1>0, <1>7, CtrTypes DEF RemoveOld
  <2>3. faults' \subseteq FaultKinds BY <1>0, <1>7, FaultStep DEF RemoveOld
  <2> QED BY <1>0, <1>7, <2>1, <2>2, <2>3, WorkerFrame DEF RemoveOld, rowVars
<1>8. CASE CreateContainer
  <2>1. w' \in WorkerType /\ (w'.dep = None <=> w'.pc \in {"down", "idle"})
    BY <1>8, GotoStep DEF CreateContainer, PCs
  <2>3. w.dep \in Deployments /\ w.image \in Images
    BY <1>0, <1>8 DEF CreateContainer, WorkerType
  <2>2. ctr' \in CtrType
    BY <1>0, <1>8, <2>3, CtrTypes DEF CreateContainer
  <2> QED BY <1>0, <1>8, <2>1, <2>2, WorkerFrame DEF CreateContainer, rowVars
<1>9. CASE StartContainer
  <2>1. w' \in WorkerType /\ (w'.dep = None <=> w'.pc \in {"down", "idle"})
    BY <1>9, GotoStep DEF StartContainer, PCs
  <2>2. ctr' \in CtrType BY <1>0, <1>9 DEF StartContainer, CtrType
  <2> QED BY <1>0, <1>9, <2>1, <2>2, WorkerFrame DEF StartContainer, rowVars
<1>10. CASE ConnectNetwork
  <2>1. w' \in WorkerType /\ (w'.dep = None <=> w'.pc \in {"down", "idle"})
    BY <1>10, GotoStep DEF ConnectNetwork, PCs
  <2>2. ctr' \in CtrType BY <1>0, <1>10 DEF ConnectNetwork, CtrType
  <2> QED BY <1>0, <1>10, <2>1, <2>2, WorkerFrame DEF ConnectNetwork, rowVars
<1>11. CASE RecordSuccess
  <2>1. w' \in WorkerType /\ (w'.dep = None <=> w'.pc \in {"down", "idle"})
    BY <1>11, GotoStep DEF RecordSuccess, PCs
  <2>2. status' \in [Deployments -> RowStatus] /\ image' \in [Deployments -> Images]
    BY <1>0, <1>11 DEF RecordSuccess, RowStatus, WorkerType
  <2>3. faults' \subseteq FaultKinds BY <1>0, <1>11, FaultStep DEF RecordSuccess
  <2> QED BY <1>0, <1>11, <2>1, <2>2, <2>3, WorkerFrame DEF RecordSuccess
<1>12. CASE MarkRunning
  <2>1. w' \in WorkerType /\ (w'.dep = None <=> w'.pc \in {"down", "idle"})
    BY <1>12, GotoStep DEF MarkRunning, PCs
  <2>2. app' \in AppType BY <1>0, <1>12 DEF MarkRunning, AppType, AppStatus
  <2>3. faults' \subseteq FaultKinds BY <1>0, <1>12, FaultStep DEF MarkRunning
  <2> QED BY <1>0, <1>12, <2>1, <2>2, <2>3, WorkerFrame DEF MarkRunning
<1>13. CASE CloseLog
  <2>1. w' \in WorkerType /\ (w'.dep = None <=> w'.pc \in {"down", "idle"})
    BY <1>13, GotoStep DEF CloseLog, PCs
  <2>2. faults' \subseteq FaultKinds BY <1>0, <1>13, FaultStep DEF CloseLog
  <2> QED BY <1>0, <1>13, <2>1, <2>2, WorkerFrame DEF CloseLog, rowVars
<1>14. CASE Throw
  <2>1. w' \in WorkerType /\ (w'.dep = None <=> w'.pc \in {"down", "idle"})
    BY <1>14, GotoStep DEF Throw, PCs
  <2> QED BY <1>0, <1>14, <2>1, WorkerFrame DEF Throw, rowVars
<1>15. CASE FailDeployment
  <2>1. w' \in WorkerType /\ (w'.dep = None <=> w'.pc \in {"down", "idle"})
    BY <1>15, GotoStep DEF FailDeployment, PCs
  <2>2. status' \in [Deployments -> RowStatus]
    BY <1>0, <1>15 DEF FailDeployment, RowStatus
  <2>3. faults' \subseteq FaultKinds BY <1>0, <1>15, FaultStep DEF FailDeployment
  <2> QED BY <1>0, <1>15, <2>1, <2>2, <2>3, WorkerFrame DEF FailDeployment
<1>16. CASE FailApp
  <2>1. w' \in WorkerType /\ (w'.dep = None <=> w'.pc \in {"down", "idle"})
    BY <1>16, GotoStep DEF FailApp, PCs
  <2>2. app' \in AppType
    BY <1>0, <1>16 DEF FailApp, AppType, AppStatus, StatusAfterFailure
  <2>3. faults' \subseteq FaultKinds BY <1>0, <1>16, FaultStep DEF FailApp
  <2> QED BY <1>0, <1>16, <2>1, <2>2, <2>3, WorkerFrame DEF FailApp
<1>17. CASE AckJob
  <2>1. w' \in WorkerType /\ (w'.dep = None <=> w'.pc \in {"down", "idle"})
    BY <1>17 DEF AckJob, Fresh, WorkerType, PCs, Images, AppStatus
  <2> QED BY <1>0, <1>17, <2>1, WorkerFrame DEF AckJob, rowVars
<1>18. CASE WorkerRestart
  <2>1. w' \in WorkerType /\ (w'.dep = None <=> w'.pc \in {"down", "idle"})
    BY <1>18 DEF WorkerRestart, Fresh, WorkerType, PCs, Images, AppStatus
  <2> QED BY <1>18, <2>1 DEF WorkerRestart, TypeOK, WorkerType, AppStatus, rowVars,
             deleteVars, queueVars
<1> QED BY <1>1, <1>2, <1>3, <1>4, <1>5, <1>6, <1>7, <1>8, <1>9, <1>10, <1>11, <1>12,
           <1>13, <1>14, <1>15, <1>16, <1>17, <1>18 DEF WorkerStep

LEMMA TypeNext == TypeOK /\ [Next]_vars => TypeOK'
<1> SUFFICES ASSUME TypeOK, [Next]_vars PROVE TypeOK'
  OBVIOUS
<1>1. CASE ApiStep BY <1>1, TypeApi
<1>2. CASE WorkerStep BY <1>2, TypeWorker
<1>3. CASE WorkerCrash
  <2>1. w' \in WorkerType /\ (w'.dep = None <=> w'.pc \in {"down", "idle"})
    BY <1>3 DEF WorkerCrash, Fresh, WorkerType, PCs, Images, AppStatus
  <2>2. faults' \subseteq FaultKinds BY <1>3, FaultStep DEF WorkerCrash
  <2> QED BY <1>3, <2>1, <2>2, ZenonT(60)
    DEF WorkerCrash, TypeOK, WorkerType, AppStatus, rowVars, deleteVars
<1>4. CASE QueueStep
  <2>1. PICK d \in Deployments : RequeueStalled(d) BY <1>4 DEF QueueStep
  <2>0. queue \in Seq(Deployments) /\ stallCount \in [Deployments -> Nat]
    BY DEF TypeOK
  <2>2. <<d>> \o queue \in Seq(Deployments)
    BY <2>0
  <2>3. queue' \in Seq(Deployments)
    BY <2>0, <2>1, <2>2 DEF RequeueStalled
  <2>4. stallCount' \in [Deployments -> Nat]
    BY <2>0, <2>1 DEF RequeueStalled
  <2> QED BY <2>1, <2>3, <2>4 DEF RequeueStalled, TypeOK, rowVars, deleteVars
<1>5. CASE ProcessCrash
  BY <1>5 DEF ProcessCrash, TypeOK, rowVars, deleteVars, queueVars
<1>6. CASE WatchStep
  <2>1. CASE OnCrash
    <3>1. app' \in AppType
      BY <2>1, TypeFacts DEF OnCrash, AppType, AppStatus
    <3>2. dies' \in Nat
      BY <2>1 DEF OnCrash, TypeOK
    <3> QED BY <2>1, <3>1, <3>2 DEF OnCrash, TypeOK, AppType, AppStatus, deleteVars, queueVars
  <2>2. CASE LoseStream
    <3>1. faults' \subseteq FaultKinds
      BY <2>2, FaultStep DEF LoseStream
    <3>2. watching' = FALSE /\ UNCHANGED <<app, status, source, image, req, deleting, doomed,
                                           queue, stalled, stallCount, w, ctr, dies, crashes>>
      BY <2>2 DEF LoseStream, rowVars, deleteVars, queueVars
    <3>3. watching' \in BOOLEAN
      BY <3>2
    <3>4. /\ app' = app /\ status' = status /\ source' = source /\ image' = image /\ req' = req
          /\ deleting' = deleting /\ doomed' = doomed /\ queue' = queue /\ stalled' = stalled
          /\ stallCount' = stallCount /\ w' = w /\ ctr' = ctr /\ dies' = dies
          /\ crashes' = crashes
      BY <3>2
    <3>5. w' \in WorkerType /\ (w'.dep = None <=> w'.pc \in {"down", "idle"}) /\ ctr' \in CtrType
      BY <3>4, TypeFacts DEF TypeOK
    <3> QED BY <3>1, <3>3, <3>4, <3>5 DEF TypeOK, WorkerType, CtrType, AppStatus
  <2>3. CASE Resubscribe
    BY <2>3 DEF Resubscribe, TypeOK, rowVars, deleteVars, queueVars
  <2> QED BY <1>6, <2>1, <2>2, <2>3 DEF WatchStep
<1>7. CASE UNCHANGED vars
  BY <1>7 DEF vars, TypeOK, rowVars, deleteVars, queueVars
<1>8. CASE TakeJobFails
  <2>1. Tail(queue) \in Seq(Deployments)
    BY <1>8 DEF TypeOK, TakeJobFails
  <2>2. faults' \subseteq FaultKinds
    BY <1>8, FaultStep DEF TakeJobFails
  <2> QED BY <1>8, <2>1, <2>2 DEF TakeJobFails, TypeOK, rowVars, deleteVars
<1> QED BY <1>1, <1>2, <1>3, <1>4, <1>5, <1>6, <1>7, <1>8 DEF Next

(* Type correctness: every variable of the API, the queue, the worker, the  *)
(* Docker daemon and the watcher keeps its type.                            *)
THEOREM TypeCorrect == Spec => []TypeOK
<1> QED BY InitTypeOK, TypeNext, PTL DEF Spec

-----------------------------------------------------------------------------
(***************************************************************************)
(* What an application that reads "running" runs, and what a failure says, *)
(* while the worker process has not died and nobody deletes the            *)
(* application.                                                            *)
(***************************************************************************)
Undisturbed == "worker" \notin faults /\ deleting = "no"

\* The container runs what a successful deployment recorded.
Up == /\ ctr.state = "running" /\ ctr.net /\ ctr.dep \in Deployments
      /\ status[ctr.dep] = "success" /\ image[ctr.dep] = ctr.image

\* A deployment is queued once, and is pending until the worker takes it.
Jobs ==
  /\ app.exists /\ stalled = {} /\ w.pc # "down"
  /\ \A d \in Deployments : /\ req[d] = "unused" => status[d] = "absent"
                            /\ req[d] # "unused" => status[d] # "absent"
                            /\ req[d] = "created" => status[d] = "pending"
  /\ \A i \in DOMAIN queue : status[queue[i]] = "pending" /\ req[queue[i]] = "done"
  /\ \A i, j \in DOMAIN queue : queue[i] = queue[j] => i = j
  /\ w.pc # "idle" => req[w.dep] = "done" /\ \A i \in DOMAIN queue : queue[i] # w.dep

\* What the row and the container of the job in hand are at each await.
Stage ==
  /\ w.pc = "begin" => status[w.dep] = "pending"
  /\ w.pc \in {"mark", "image", "list", "stop", "remove", "create", "start", "connect",
               "success"} => status[w.dep] = "building"
  /\ w.pc \in {"running", "close"} => status[w.dep] = "success"
  /\ w.pc \in {"begin", "mark", "image", "list"} => ~w.stopped
  /\ w.pc \in {"stop", "remove", "create", "start", "connect", "success", "running",
               "close"} => w.stopped
  /\ w.pc = "failed" /\ ~w.stopped => status[w.dep] \in {"pending", "building"}
  /\ w.pc \in {"start", "connect", "success", "running", "close"} =>
       ctr.state # "none" /\ ctr.dep = w.dep /\ ctr.image = w.image
  /\ w.pc \in {"connect", "success", "running", "close"} => ctr.state = "running"
  /\ w.pc \in {"success", "running", "close"} => ctr.net
  /\ w.pc \in {"running", "close"} => image[w.dep] = w.image

\* Until the flag is set, what was running still is; from then on the application
\* reads "running" only once its successor is, or because the database lost a write.
Answer ==
  /\ w.pc \in {"idle", "ack"} /\ app.status = "running" => Up
  /\ w.pc \in {"image", "list"} => app.status # "running"
  /\ ~w.stopped /\ w.pc \notin {"idle", "ack"} /\ "running" \in {app.status, w.status} => Up
  /\ w.stopped /\ w.pc \notin {"close", "ack"} /\ app.status = "running" =>
       "db" \in faults /\ w.pc \in {"failed", "failApp"}

AnswerInv == TypeOK /\ (Undisturbed => Jobs /\ Stage /\ Answer)

\* What disturbs lasts.
LEMMA Disturbed ==
  ASSUME TypeOK, [Next]_vars, Undisturbed'
  PROVE  Undisturbed
<1>1. faults \subseteq faults'
  BY DEF Next, ApiStep, WorkerStep, QueueStep, WatchStep, RequestDeploy, RequestRollback,
     NewRow, Enqueue, EnqueueFails, DeleteApp, DeleteContainers, DeleteVolumes,
     DeletionRefused, DeleteRow, Fault, TakeJob, TakeJobFails,
     BeginDeploy, MarkDeploying, ResolveImage, ListOld, StopOld, RemoveOld, CreateContainer,
     StartContainer, ConnectNetwork, RecordSuccess, MarkRunning, CloseLog, Throw,
     FailDeployment, FailApp, AckJob, WorkerRestart, WorkerCrash, RequeueStalled,
     ProcessCrash, OnCrash, LoseStream, Resubscribe, vars
<1>2. deleting # "no" => deleting' # "no"
  BY DEF Next, ApiStep, WorkerStep, QueueStep, WatchStep, RequestDeploy, RequestRollback,
     NewRow, Enqueue, EnqueueFails, DeleteApp, DeleteContainers, DeleteVolumes,
     DeletionRefused, DeleteRow, TakeJob, TakeJobFails,
     BeginDeploy, MarkDeploying, ResolveImage, ListOld, StopOld, RemoveOld, CreateContainer,
     StartContainer, ConnectNetwork, RecordSuccess, MarkRunning, CloseLog, Throw,
     FailDeployment, FailApp, AckJob, WorkerRestart, WorkerCrash, RequeueStalled,
     ProcessCrash, OnCrash, LoseStream, Resubscribe, vars, deleteVars
<1> QED BY <1>1, <1>2 DEF Undisturbed

\* A step of the worker that changes no row but its own deployment's.
LEMMA JobsFrame ==
  ASSUME TypeOK, Jobs, w.pc # "idle", w'.pc \notin {"idle", "down"}, w'.dep = w.dep,
         app'.exists, UNCHANGED <<req, queue, stalled>>,
         NEW s \in {"building", "success", "failed"},
         status' = status \/ status' = [status EXCEPT ![w.dep] = s]
  PROVE  Jobs'
<1>1. w.dep \in Deployments /\ status \in [Deployments -> RowStatus] /\ queue \in Seq(Deployments)
  BY TypeFacts DEF Jobs, TypeOK
<1>2. \A d \in Deployments : d # w.dep => status'[d] = status[d]
  BY <1>1
<1>3. status'[w.dep] = status[w.dep] \/ status'[w.dep] = s
  BY <1>1
<1>4. \A i \in DOMAIN queue : queue[i] \in Deployments
  BY <1>1
<1> QED BY <1>1, <1>2, <1>3, <1>4 DEF Jobs

\* The steps of the API: rows that no job, no container and no queue knows of yet.
LEMMA AnswerApi ==
  ASSUME AnswerInv, ApiStep, Undisturbed, Undisturbed'
  PROVE  Jobs' /\ Stage' /\ Answer'
<1>0. /\ TypeOK /\ Jobs /\ Stage /\ Answer
      /\ status \in [Deployments -> RowStatus]
      /\ req \in [Deployments -> {"unused", "created", "done"}]
      /\ queue \in Seq(Deployments)
      /\ w.pc \notin {"down", "idle"} => w.dep \in Deployments
  BY TypeFacts DEF AnswerInv, TypeOK
<1>1. ASSUME NEW d \in Deployments, NEW src, NewRow(d, src)
      PROVE  Jobs' /\ Stage' /\ Answer'
  <2>1. /\ req[d] = "unused" /\ status' = [status EXCEPT ![d] = "pending"]
        /\ req' = [req EXCEPT ![d] = "created"]
        /\ UNCHANGED <<app, image, queue, stalled, w, ctr, faults>>
    BY <1>1 DEF NewRow, queueVars
  <2>2. /\ status[d] = "absent"
        /\ \A e \in Deployments : e # d => status'[e] = status[e] /\ req'[e] = req[e]
        /\ status'[d] = "pending" /\ req'[d] = "created"
    BY <1>0, <2>1 DEF Jobs
  <2>3. \A i \in DOMAIN queue : queue[i] \in Deployments /\ queue[i] # d
    BY <1>0, <2>1 DEF Jobs
  <2>4. w.pc # "idle" => w.dep # d /\ w.dep \in Deployments
    BY <1>0, <2>1 DEF Jobs
  <2>5. Jobs'
    BY <1>0, <2>1, <2>2, <2>3, <2>4 DEF Jobs
  <2>6. Stage'
    BY <1>0, <2>1, <2>2, <2>4 DEF Stage
  <2>7. Up => Up'
    BY <2>1, <2>2 DEF Up
  <2>8. Answer'
    BY <1>0, <2>1, <2>7 DEF Answer
  <2> QED BY <2>5, <2>6, <2>8
<1>2. ASSUME NEW d \in Deployments, Enqueue(d)
      PROVE  Jobs' /\ Stage' /\ Answer'
  <2>1. /\ req[d] = "created" /\ status[d] = "pending"
        /\ queue' = Append(queue, d) /\ req' = [req EXCEPT ![d] = "done"]
        /\ UNCHANGED <<app, status, image, stalled, w, ctr, faults>>
    BY <1>0, <1>2 DEF Enqueue, rowVars, Jobs
  <2>2. \A e \in Deployments : req'[e] = IF e = d THEN "done" ELSE req[e]
    BY <1>0, <2>1
  <2>3. \A i \in DOMAIN queue' : \/ i \in DOMAIN queue /\ queue'[i] = queue[i]
                                 \/ i = Len(queue) + 1 /\ queue'[i] = d
    BY <1>0, <2>1
  <2>4. \A i \in DOMAIN queue : queue[i] \in Deployments /\ queue[i] # d
    BY <1>0, <2>1 DEF Jobs
  <2>5. \A i, j \in DOMAIN queue' : queue'[i] = queue'[j] => i = j
    BY <1>0, <2>3, <2>4 DEF Jobs
  <2>6. w.pc # "idle" => w.dep # d /\ w.dep \in Deployments
    BY <1>0, <2>1 DEF Jobs
  <2>7. \A i \in DOMAIN queue' : status'[queue'[i]] = "pending" /\ req'[queue'[i]] = "done"
    BY <1>0, <2>1, <2>2, <2>3, <2>4 DEF Jobs
  <2>8. w'.pc # "idle" => req'[w'.dep] = "done" /\ \A i \in DOMAIN queue' : queue'[i] # w'.dep
    BY <1>0, <2>1, <2>2, <2>3, <2>6 DEF Jobs
  <2>9. Jobs'
    BY <1>0, <2>1, <2>2, <2>5, <2>7, <2>8 DEF Jobs
  <2> QED BY <1>0, <2>1, <2>9 DEF Stage, Answer, Up
<1>3. ASSUME NEW d \in Deployments, EnqueueFails(d)
      PROVE  Jobs' /\ Stage' /\ Answer'
  <2>1. /\ req[d] = "created" /\ req' = [req EXCEPT ![d] = "done"]
        /\ UNCHANGED <<app, status, image, queue, stalled, w, ctr>>
        /\ faults' = faults \cup {"api"}
    BY <1>0, <1>3, FaultStep DEF EnqueueFails, rowVars, queueVars
  <2>2. \A e \in Deployments : req'[e] = IF e = d THEN "done" ELSE req[e]
    BY <1>0, <2>1
  <2>3. \A i \in DOMAIN queue : queue[i] \in Deployments
    BY <1>0
  <2>4. Jobs'
    BY <1>0, <2>1, <2>2, <2>3 DEF Jobs
  <2> QED BY <1>0, <2>1, <2>4 DEF Stage, Answer, Up
<1>4. ~DeleteApp /\ ~DeleteContainers /\ ~DeleteVolumes /\ ~DeletionRefused /\ ~DeleteRow
  BY DEF Undisturbed, DeleteApp, DeleteContainers, DeleteVolumes, DeletionRefused, DeleteRow
<1> QED BY <1>1, <1>2, <1>3, <1>4 DEF ApiStep, RequestDeploy, RequestRollback

\* A worker that takes a job: the row is pending, so the container is not its.
LEMMA AnswerTake ==
  ASSUME AnswerInv, TakeJob, Undisturbed
  PROVE  Jobs' /\ Stage' /\ Answer'
<1>0. /\ TypeOK /\ Jobs /\ Stage /\ Answer /\ queue \in Seq(Deployments) /\ queue # <<>>
      /\ w.pc = "idle"
  BY DEF AnswerInv, TypeOK, TakeJob
<1> DEFINE d == Head(queue)
<1>1. /\ d \in Deployments /\ 1 \in DOMAIN queue /\ d = queue[1]
      /\ \A i \in DOMAIN Tail(queue) : /\ i + 1 \in DOMAIN queue /\ i + 1 # 1
                                       /\ Tail(queue)[i] = queue[i + 1]
      /\ \A i, j \in DOMAIN Tail(queue) : i + 1 = j + 1 => i = j
  BY <1>0
<1>2. status[d] = "pending" /\ req[d] = "done"
  BY <1>0, <1>1 DEF Jobs
<1>3. /\ w'.pc = "begin" /\ w'.dep = d /\ w'.status = app.status /\ w'.stopped = FALSE
      /\ queue' = Tail(queue) /\ UNCHANGED <<app, status, image, req, stalled, ctr, faults>>
  BY <1>2 DEF TakeJob, Fresh, rowVars
<1> HIDE DEF d
<1>4. \A i \in DOMAIN queue' : status'[queue'[i]] = "pending" /\ req'[queue'[i]] = "done"
                               /\ queue'[i] # d
  BY <1>0, <1>1, <1>3 DEF Jobs
<1>5. \A i, j \in DOMAIN queue' : queue'[i] = queue'[j] => i = j
  BY <1>0, <1>1, <1>3 DEF Jobs
<1>6. Jobs'
  BY <1>0, <1>2, <1>3, <1>4, <1>5 DEF Jobs
<1>7. Stage'
  BY <1>2, <1>3 DEF Stage
<1>8. Answer'
  BY <1>0, <1>3 DEF Answer, Up
<1> QED BY <1>6, <1>7, <1>8

\* The awaits before the flag is set: the container is not touched.
LEMMA AnswerBefore ==
  ASSUME AnswerInv, Undisturbed, BeginDeploy \/ MarkDeploying \/ ResolveImage \/ ListOld
  PROVE  Jobs' /\ Stage' /\ Answer'
<1>0. TypeOK /\ Jobs /\ Stage /\ Answer /\ w \in WorkerType
      /\ status \in [Deployments -> RowStatus] /\ app \in AppType
      /\ (w.pc \notin {"down", "idle"} => w.dep \in Deployments)
  BY TypeFacts DEF AnswerInv
<1>1. CASE BeginDeploy
  <2>1. /\ w.pc = "begin" /\ w'.pc = "mark" /\ w'.dep = w.dep /\ w'.image = w.image
        /\ w'.status = w.status /\ w'.stopped = w.stopped
        /\ status' = [status EXCEPT ![w.dep] = "building"]
        /\ UNCHANGED <<app, image, req, queue, stalled, ctr, faults>>
    BY <1>0, <1>1, GotoStep DEF BeginDeploy, PCs, queueVars
  <2>2. Jobs' BY <1>0, <2>1, JobsFrame DEF Jobs
  <2>3. w.dep \in Deployments /\ status'[w.dep] = "building" /\ ~w.stopped
        /\ status[w.dep] = "pending" /\ \A d \in Deployments : d # w.dep => status'[d] = status[d]
    BY <1>0, <2>1 DEF Stage
  <2>4. Stage' BY <2>1, <2>3 DEF Stage
  <2>5. Up => Up' BY <2>1, <2>3 DEF Up
  <2>6. Answer' BY <1>0, <2>1, <2>3, <2>5 DEF Answer
  <2> QED BY <2>2, <2>4, <2>6
<1>2. CASE MarkDeploying
  <2>1. /\ w.pc = "mark" /\ w'.pc = "image" /\ w'.dep = w.dep /\ w'.image = w.image
        /\ w'.status = w.status /\ w'.stopped = w.stopped
        /\ app' = [app EXCEPT !.status = "deploying"]
        /\ UNCHANGED <<status, image, req, queue, stalled, ctr, faults>>
    BY <1>0, <1>2, GotoStep DEF MarkDeploying, PCs, queueVars
  <2>2. app'.exists = app.exists /\ app'.status = "deploying"
    BY <1>0, <2>1 DEF AppType
  <2>3. Jobs' BY <1>0, <2>1, <2>2, JobsFrame DEF Jobs
  <2>4. Stage' BY <1>0, <2>1 DEF Stage
  <2>5. Answer' BY <1>0, <2>1, <2>2 DEF Answer, Up, Stage
  <2> QED BY <2>3, <2>4, <2>5
<1>3. CASE ResolveImage
  <2>1. /\ w.pc = "image" /\ w'.pc = "list" /\ w'.dep = w.dep
        /\ w'.status = w.status /\ w'.stopped = w.stopped
        /\ UNCHANGED <<app, status, image, req, queue, stalled, ctr, faults>>
    BY <1>0, <1>3 DEF ResolveImage, WorkerType, queueVars, rowVars
  <2>2. Jobs' BY <1>0, <2>1, JobsFrame DEF Jobs
  <2>3. Stage' BY <1>0, <2>1 DEF Stage
  <2>4. Answer' BY <1>0, <2>1 DEF Answer, Up, Stage
  <2> QED BY <2>2, <2>3, <2>4
<1>4. CASE ListOld
  <2>1. /\ w.pc = "list" /\ w'.pc \in {"create", "stop", "failed"} /\ w'.dep = w.dep
        /\ w'.stopped = TRUE
        /\ UNCHANGED <<app, status, image, req, queue, stalled, ctr>>
    BY <1>0, <1>4 DEF ListOld, WorkerType, queueVars, rowVars
  <2>2. w'.pc # "failed" => faults' = faults
    BY <1>0, <1>4 DEF ListOld, WorkerType
  <2>3. Jobs' BY <1>0, <2>1, JobsFrame DEF Jobs
  <2>4. Stage' BY <1>0, <2>1 DEF Stage
  <2>5. app.status # "running"
    BY <1>0, <2>1 DEF Answer, Stage
  <2>6. Answer' BY <1>0, <2>1, <2>5 DEF Answer
  <2> QED BY <2>3, <2>4, <2>6
<1> QED BY <1>1, <1>2, <1>3, <1>4

\* The awaits on the container, from the stop of the old one to its network.
LEMMA AnswerContainer ==
  ASSUME AnswerInv, Undisturbed,
         StopOld \/ RemoveOld \/ CreateContainer \/ StartContainer \/ ConnectNetwork
  PROVE  Jobs' /\ Stage' /\ Answer'
<1>0. TypeOK /\ Jobs /\ Stage /\ Answer /\ ctr \in CtrType
  BY TypeFacts DEF AnswerInv
<1>1. /\ w.pc \in {"stop", "remove", "create", "start", "connect"}
      /\ w'.pc \in {"remove", "create", "start", "connect", "success", "failed"}
      /\ w'.dep = w.dep /\ w'.image = w.image /\ w'.stopped = w.stopped
      /\ UNCHANGED <<app, status, image, req, queue, stalled>>
  BY <1>0, GotoStep DEF StopOld, RemoveOld, CreateContainer, StartContainer, ConnectNetwork,
                        PCs, rowVars, queueVars
<1>2. Jobs' BY <1>0, <1>1, JobsFrame DEF Jobs
<1>3. w.stopped /\ app.status # "running"
  BY <1>0, <1>1 DEF Answer, Stage
<1>4. Answer' BY <1>1, <1>3 DEF Answer
<1>5. Stage'
  <2>0. status[w.dep] = "building"
    BY <1>0, <1>1 DEF Stage
  <2>1. CASE w'.pc \in {"remove", "create", "failed"}
    BY <1>1, <1>3, <2>0, <2>1 DEF Stage
  <2>2. CASE CreateContainer /\ w'.pc = "start"
    <3>1. ctr' = CtrOf(w.dep, w.image)
      BY <1>0, <2>2, GotoStep DEF CreateContainer, PCs
    <3>2. ctr'.state = "created" /\ ctr'.dep = w.dep /\ ctr'.image = w.image
      BY <3>1 DEF CtrOf
    <3> QED BY <1>1, <1>3, <2>0, <2>2, <3>2 DEF Stage
  <2>3. CASE StartContainer
    <3>1. w.pc = "start" /\ w'.pc = "connect" /\ ctr' = [ctr EXCEPT !.state = "running"]
      BY <1>0, <2>3, GotoStep DEF StartContainer, PCs
    <3>2. ctr'.state = "running" /\ ctr'.dep = w.dep /\ ctr'.image = w.image
      BY <1>0, <3>1 DEF CtrType, Stage
    <3> QED BY <1>1, <1>3, <2>0, <3>1, <3>2 DEF Stage
  <2>4. CASE ConnectNetwork
    <3>1. w.pc = "connect" /\ w'.pc = "success" /\ ctr' = [ctr EXCEPT !.net = TRUE]
      BY <1>0, <2>4, GotoStep DEF ConnectNetwork, PCs
    <3>2. ctr'.state = "running" /\ ctr'.dep = w.dep /\ ctr'.image = w.image /\ ctr'.net
      BY <1>0, <3>1 DEF CtrType, Stage
    <3> QED BY <1>1, <1>3, <2>0, <3>1, <3>2 DEF Stage
  <2>5. \/ w'.pc \in {"remove", "create", "failed"} \/ (CreateContainer /\ w'.pc = "start")
        \/ StartContainer \/ ConnectNetwork
    BY <1>0, GotoStep DEF StopOld, RemoveOld, CreateContainer, PCs
  <2> QED BY <2>1, <2>2, <2>3, <2>4, <2>5
<1> QED BY <1>2, <1>4, <1>5

\* The rows that say the deployment is live.
LEMMA AnswerRecord ==
  ASSUME AnswerInv, Undisturbed, RecordSuccess \/ MarkRunning \/ CloseLog
  PROVE  Jobs' /\ Stage' /\ Answer'
<1>0. TypeOK /\ Jobs /\ Stage /\ Answer /\ app \in AppType
      /\ status \in [Deployments -> RowStatus] /\ image \in [Deployments -> Images]
  BY TypeFacts DEF AnswerInv
<1>1. CASE RecordSuccess
  <2>1. /\ w.pc = "success" /\ w'.pc \in {"running", "failed"} /\ w'.dep = w.dep
        /\ w'.image = w.image /\ w'.stopped = w.stopped
        /\ UNCHANGED <<app, req, queue, stalled, ctr>>
    BY <1>0, <1>1, GotoStep DEF RecordSuccess, PCs, queueVars
  <2>2. w.dep \in Deployments /\ status[w.dep] = "building" /\ w.stopped
        /\ app.status # "running"
    BY <1>0, <2>1, TypeFacts DEF Stage, Answer
  <2>3. CASE w'.pc = "running"
    <3>1. /\ status' = [status EXCEPT ![w.dep] = "success"]
          /\ image' = [image EXCEPT ![w.dep] = w.image]
      BY <1>0, <1>1, <2>3, GotoStep DEF RecordSuccess, PCs
    <3>2. status'[w.dep] = "success" /\ image'[w.dep] = w.image
      BY <1>0, <2>2, <3>1
    <3>3. Jobs' BY <1>0, <2>1, <3>1, JobsFrame DEF Jobs
    <3>4. Stage' BY <1>0, <2>1, <2>2, <2>3, <3>2 DEF Stage
    <3>5. Answer' BY <2>1, <2>2, <2>3 DEF Answer
    <3> QED BY <3>3, <3>4, <3>5
  <2>4. CASE w'.pc = "failed"
    <3>1. status' = status
      BY <1>0, <1>1, <2>4, GotoStep DEF RecordSuccess, PCs
    <3>2. Jobs' BY <1>0, <2>1, <3>1, JobsFrame DEF Jobs
    <3>3. Stage' BY <2>1, <2>2, <2>4 DEF Stage
    <3>4. Answer' BY <2>1, <2>2, <2>4 DEF Answer
    <3> QED BY <3>2, <3>3, <3>4
  <2> QED BY <2>1, <2>3, <2>4
<1>2. CASE MarkRunning
  <2>1. /\ w.pc = "running" /\ w'.pc \in {"close", "failed"} /\ w'.dep = w.dep
        /\ w'.image = w.image /\ w'.stopped = w.stopped
        /\ UNCHANGED <<status, image, req, queue, stalled, ctr>>
    BY <1>0, <1>2, GotoStep DEF MarkRunning, PCs, queueVars
  <2>2. w.dep \in Deployments /\ status[w.dep] = "success" /\ w.stopped
        /\ app.status # "running" /\ app.exists
    BY <1>0, <2>1, TypeFacts DEF Stage, Answer, Jobs
  <2>3. app'.exists
    BY <1>0, <1>2, <2>2 DEF MarkRunning, AppType
  <2>4. w'.pc = "failed" => app' = app
    BY <1>0, <1>2, GotoStep DEF MarkRunning, PCs
  <2>5. Jobs' BY <1>0, <2>1, <2>3, JobsFrame DEF Jobs
  <2>6. Stage' BY <1>0, <2>1, <2>2 DEF Stage
  <2>7. Answer' BY <2>1, <2>2, <2>4 DEF Answer
  <2> QED BY <2>5, <2>6, <2>7
<1>3. CASE CloseLog
  <2>1. /\ w.pc = "close" /\ w'.pc \in {"ack", "failed"} /\ w'.dep = w.dep
        /\ w'.image = w.image /\ w'.stopped = w.stopped
        /\ UNCHANGED <<app, status, image, req, queue, stalled, ctr>>
    BY <1>0, <1>3, GotoStep DEF CloseLog, PCs, queueVars, rowVars
  <2>2. w'.pc = "failed" => "db" \in faults'
    BY <1>0, <1>3, GotoStep, FaultStep DEF CloseLog, PCs
  <2>3. w.dep \in Deployments /\ w.stopped /\ Up
    BY <1>0, <2>1, TypeFacts DEF Stage, Up
  <2>4. Jobs' BY <1>0, <2>1, JobsFrame DEF Jobs
  <2>5. Stage' BY <1>0, <2>1, <2>3 DEF Stage
  <2>6. Up' BY <2>1, <2>3 DEF Up
  <2>7. Answer' BY <2>1, <2>2, <2>3, <2>6 DEF Answer
  <2> QED BY <2>4, <2>5, <2>7
<1> QED BY <1>1, <1>2, <1>3

\* The failure path.
LEMMA AnswerFail ==
  ASSUME AnswerInv, Undisturbed, Throw \/ FailDeployment \/ FailApp \/ AckJob
  PROVE  Jobs' /\ Stage' /\ Answer'
<1>0. TypeOK /\ Jobs /\ Stage /\ Answer /\ app \in AppType /\ w \in WorkerType
      /\ status \in [Deployments -> RowStatus]
  BY TypeFacts DEF AnswerInv
<1>1. CASE Throw
  <2>1. /\ w.pc \in {"begin", "mark", "image", "create", "start", "connect"}
        /\ w'.pc = "failed" /\ w'.dep = w.dep /\ w'.stopped = w.stopped
        /\ w'.status = w.status
        /\ UNCHANGED <<app, status, image, req, queue, stalled, ctr, faults>>
    BY <1>0, <1>1, GotoStep DEF Throw, PCs, queueVars, rowVars
  <2>2. Jobs' BY <1>0, <2>1, JobsFrame DEF Jobs
  <2>3. Stage' BY <1>0, <2>1 DEF Stage
  <2>4. Answer' BY <1>0, <2>1 DEF Answer, Stage, Up
  <2> QED BY <2>2, <2>3, <2>4
<1>2. CASE FailDeployment
  <2>1. /\ w.pc = "failed" /\ w'.pc \in {"failApp", "ack"} /\ w'.dep = w.dep
        /\ w'.stopped = w.stopped /\ w'.status = w.status
        /\ UNCHANGED <<app, image, req, queue, stalled, ctr>>
    BY <1>0, <1>2, GotoStep DEF FailDeployment, PCs, queueVars
  <2>2. w.dep \in Deployments /\ status[w.dep] # "absent"
    BY <1>0, <2>1, TypeFacts DEF Jobs, TypeOK
  <2>3. CASE w'.pc = "failApp"
    <3>1. status' = [status EXCEPT ![w.dep] = "failed"] /\ faults' = faults
      BY <1>0, <1>2, <2>3, GotoStep DEF FailDeployment, PCs
    <3>2. status'[w.dep] = "failed" /\ \A d \in Deployments : d # w.dep => status'[d] = status[d]
      BY <1>0, <2>2, <3>1
    <3>3. Jobs' BY <1>0, <2>1, <2>3, <3>1, JobsFrame DEF Jobs
    <3>4. Stage' BY <2>1, <2>3, <3>2 DEF Stage
    <3>5. ~w.stopped /\ Up => Up'
      BY <1>0, <2>1, <3>2 DEF Up, Stage
    <3>6. Answer' BY <1>0, <2>1, <2>3, <3>1, <3>5 DEF Answer
    <3> QED BY <3>3, <3>4, <3>6
  <2>4. CASE w'.pc = "ack"
    <3>1. status' = status /\ "db" \notin faults
      BY <1>0, <1>2, <2>2, <2>4, GotoStep, FaultStep DEF FailDeployment, PCs
    <3>2. Jobs' BY <1>0, <2>1, <2>4, <3>1, JobsFrame DEF Jobs
    <3>3. Stage' BY <2>1, <2>4 DEF Stage
    <3>4. app.status = "running" => Up
      BY <1>0, <2>1, <3>1 DEF Answer
    <3>5. Answer' BY <2>1, <2>4, <3>1, <3>4 DEF Answer, Up
    <3> QED BY <3>2, <3>3, <3>5
  <2> QED BY <2>1, <2>3, <2>4
<1>3. CASE FailApp
  <2>1. /\ w.pc = "failApp" /\ w'.pc = "ack" /\ w'.dep = w.dep /\ w'.stopped = w.stopped
        /\ UNCHANGED <<status, image, req, queue, stalled, ctr>>
    BY <1>0, <1>3, GotoStep DEF FailApp, PCs, queueVars
  <2>2. app'.exists
    BY <1>0, <1>3 DEF FailApp, Jobs, AppType
  <2>3. Jobs' BY <1>0, <2>1, <2>2, JobsFrame DEF Jobs
  <2>4. Stage' BY <2>1 DEF Stage
  <2>5. app'.status = "running" => Up
    <3>1. CASE app' = app /\ "db" \notin faults
      BY <1>0, <2>1, <3>1 DEF Answer
    <3>2. CASE app' = [app EXCEPT !.status = StatusAfterFailure]
      BY <1>0, <2>1, <3>2 DEF Answer, AppType, StatusAfterFailure
    <3> QED BY <1>0, <1>3, <3>1, <3>2, FaultStep DEF FailApp, Jobs
  <2>6. Answer' BY <2>1, <2>5 DEF Answer, Up
  <2> QED BY <2>3, <2>4, <2>6
<1>4. CASE AckJob
  <2>1. /\ w.pc = "ack" /\ w'.pc = "idle" /\ w'.dep = None /\ w'.stopped = FALSE
        /\ UNCHANGED <<app, status, image, req, queue, stalled, ctr, faults>>
    BY <1>4 DEF AckJob, Fresh, rowVars, queueVars
  <2>2. Jobs' BY <1>0, <2>1 DEF Jobs
  <2>3. Stage' BY <2>1 DEF Stage
  <2>4. Answer' BY <1>0, <2>1 DEF Answer, Up
  <2> QED BY <2>2, <2>3, <2>4
<1> QED BY <1>1, <1>2, <1>3, <1>4

LEMMA AnswerNext ==
  ASSUME AnswerInv, [Next]_vars
  PROVE  AnswerInv'
<1>0. TypeOK /\ TypeOK' BY TypeNext DEF AnswerInv
<1> SUFFICES ASSUME Undisturbed' PROVE Jobs' /\ Stage' /\ Answer'
  BY <1>0 DEF AnswerInv
<1>1. Undisturbed BY <1>0, Disturbed
<1>2. Jobs /\ Stage /\ Answer BY <1>1 DEF AnswerInv
<1>3. CASE ApiStep BY <1>1, <1>3, AnswerApi
<1>4. CASE WorkerStep
  <2>1. ~WorkerRestart BY <1>2 DEF Jobs, WorkerRestart
  <2> QED BY <1>1, <1>4, <2>1, AnswerTake, AnswerBefore, AnswerContainer, AnswerRecord,
             AnswerFail DEF WorkerStep
<1>5. ~WorkerCrash
  BY <1>0, FaultStep DEF Undisturbed, WorkerCrash
<1>6. ~QueueStep
  BY <1>2 DEF QueueStep, RequeueStalled, Jobs
<1>10. CASE TakeJobFails
  <2>0. Fault("db") BY <1>10 DEF TakeJobFails
  <2>1. /\ UNCHANGED <<app, status, image, req, stalled, w, ctr>> /\ faults \subseteq faults'
        /\ queue # <<>> /\ queue' = Tail(queue)
    BY <1>0, <1>10, <2>0, FaultStep DEF TakeJobFails, rowVars
  <2>2. \A i \in DOMAIN queue' : i + 1 \in DOMAIN queue /\ queue'[i] = queue[i + 1]
    BY <1>0, <2>1 DEF TypeOK
  <2>3. Jobs'
    BY <1>2, <2>1, <2>2 DEF Jobs
  <2> QED BY <1>2, <2>1, <2>3 DEF Stage, Answer, Up
<1>7. CASE ProcessCrash
  <2>1. UNCHANGED <<app, status, image, req, queue, stalled, w, ctr, faults>>
    BY <1>7 DEF ProcessCrash, rowVars, queueVars
  <2> QED BY <1>2, <2>1 DEF Jobs, Stage, Answer, Up
<1>8. CASE WatchStep
  <2>1. /\ UNCHANGED <<status, image, req, queue, stalled, w, ctr>> /\ faults \subseteq faults'
        /\ app' = app \/ app' = [app EXCEPT !.status = "crashed"]
    BY <1>8 DEF WatchStep, OnCrash, LoseStream, Resubscribe, Fault, rowVars, queueVars
  <2>2. app'.exists = app.exists /\ app'.status \in {app.status, "crashed"}
    BY <1>0, <2>1, TypeFacts DEF AppType
  <2>3. Jobs' BY <1>2, <2>1, <2>2 DEF Jobs
  <2>4. Stage' BY <1>2, <2>1 DEF Stage
  <2>5. Answer' BY <1>2, <2>1, <2>2 DEF Answer, Up
  <2> QED BY <2>3, <2>4, <2>5
<1>9. CASE UNCHANGED vars
  <2>1. UNCHANGED <<app, status, image, req, queue, stalled, w, ctr, faults>>
    BY <1>9 DEF vars, rowVars, queueVars
  <2> QED BY <1>2, <2>1 DEF Jobs, Stage, Answer, Up
<1> QED BY <1>3, <1>4, <1>5, <1>6, <1>7, <1>8, <1>9, <1>10 DEF Next

(* The inductive invariant: while the worker lives and nobody deletes the   *)
(* application, the row says "running" only for what the container runs.    *)
THEOREM AnswerInvariant == Spec => []AnswerInv
<1>1. Init => AnswerInv
  <2> SUFFICES ASSUME Init PROVE AnswerInv
    OBVIOUS
  <2>1. w.pc = "idle" /\ w.stopped = FALSE
    BY DEF Init, Fresh
  <2>2. app.exists /\ app.status = "idle"
    BY DEF Init
  <2>3. Jobs
    BY <2>1, <2>2 DEF Init, Jobs
  <2>4. Stage /\ Answer
    BY <2>1, <2>2 DEF Stage, Answer
  <2> QED BY <2>3, <2>4, InitTypeOK DEF AnswerInv
<1>2. AnswerInv /\ [Next]_vars => AnswerInv'
  BY AnswerNext
<1> QED BY <1>1, <1>2, PTL DEF Spec

(* When no job is in hand or waiting, an application that reads "running"   *)
(* has a running container on its network, of a successful deployment and   *)
(* of the image that deployment recorded (runDeploy in index.ts).           *)
THEOREM RunningApplicationIsDeployed == Spec => []RunningIsDeployed
<1>1. AnswerInv => RunningIsDeployed
  BY DEF AnswerInv, Undisturbed, Answer, Up, RunningIsDeployed, AtRest
<1> QED BY <1>1, AnswerInvariant, PTL

(* A deployment that failed leaves "running" only where the container of    *)
(* another deployment runs (the catch block of runDeploy).                  *)
THEOREM FailuresReportWhatRuns == Spec => []FailureReportsWhatRuns
<1>1. AnswerInv => FailureReportsWhatRuns
  BY DEF AnswerInv, Undisturbed, Answer, Up, FailureReportsWhatRuns
<1> QED BY <1>1, AnswerInvariant, PTL

-----------------------------------------------------------------------------
(***************************************************************************)
(* The image a deployment runs: its own, or the one its source recorded,   *)
(* however often a crash of the worker makes a job run again.              *)
(***************************************************************************)
Resolving == {"list", "stop", "remove", "create", "start", "connect", "success", "running",
              "close"}

\* A recorded image is the one the deployment would resolve again; the source of a
\* rollback has recorded one; nothing is known of an id not used yet.
ImageInv ==
  /\ \A d \in Deployments : image[d] # None => image[d] = ImageFor(d)
  /\ \A d \in Deployments : status[d] = "success" => image[d] # None
  /\ \A d \in Deployments : source[d] # None => image[source[d]] # None
  /\ \A d \in Deployments : req[d] = "unused" =>
       image[d] = None /\ (w.pc \notin {"down", "idle"} => w.dep # d) /\ d \notin stalled
       /\ \A i \in DOMAIN queue : queue[i] # d
  /\ w.pc \in Resolving => w.image # None /\ w.image = ImageFor(w.dep)

\* Where neither rows nor the worker's image change and jobs only go away or come from
\* deployments that were asked for.
LEMMA ImageFrame ==
  ASSUME TypeOK, ImageInv, UNCHANGED <<source, image>>,
         \A d \in Deployments : status'[d] = "success" => status[d] = "success",
         \A d \in Deployments : req'[d] = "unused" => req[d] = "unused",
         \A d \in Deployments : req'[d] = "unused" =>
            /\ w'.pc \notin {"down", "idle"} => w'.dep # d
            /\ d \notin stalled'
            /\ \A i \in DOMAIN queue' : queue'[i] # d,
         w'.pc \in Resolving => /\ w.pc \in Resolving /\ w'.dep = w.dep /\ w'.image = w.image
  PROVE  ImageInv'
BY DEF ImageInv, ImageFor

LEMMA ImageInit == Init => ImageInv
BY DEF Init, ImageInv, Fresh, Resolving

LEMMA ImageApi ==
  ASSUME TypeOK, ImageInv, ApiStep
  PROVE  ImageInv'
<1>0. /\ status \in [Deployments -> RowStatus] /\ image \in [Deployments -> Images]
      /\ source \in [Deployments -> Deployments \cup {None}]
      /\ req \in [Deployments -> {"unused", "created", "done"}] /\ queue \in Seq(Deployments)
  BY TypeFacts DEF TypeOK
<1>1. ASSUME NEW d \in Deployments, NEW src \in Deployments \cup {None}, NewRow(d, src),
             src # None => image[src] # None
      PROVE  ImageInv'
  <2>1. /\ req[d] = "unused" /\ status' = [status EXCEPT ![d] = "pending"]
        /\ source' = [source EXCEPT ![d] = src] /\ req' = [req EXCEPT ![d] = "created"]
        /\ UNCHANGED <<image, queue, stalled, w>>
    BY <1>1 DEF NewRow, queueVars
  <2>2. /\ \A e \in Deployments : e # d => /\ status'[e] = status[e] /\ source'[e] = source[e]
                                           /\ req'[e] = req[e]
        /\ status'[d] = "pending" /\ source'[d] = src /\ req'[d] = "created"
    BY <1>0, <2>1
  <2>3. image[d] = None /\ (w.pc \notin {"down", "idle"} => w.dep # d)
    BY <2>1 DEF ImageInv
  <2>4. \A e \in Deployments : e # d => ImageFor(e)' = ImageFor(e)
    BY <2>1, <2>2 DEF ImageFor
  <2>5. w.pc \in Resolving => w.dep \in Deployments /\ w.dep # d
    BY <2>3, TypeFacts DEF Resolving
  <2>6. \A e \in Deployments : image'[e] # None => image'[e] = ImageFor(e)'
    BY <2>1, <2>3, <2>4 DEF ImageInv
  <2>7. w'.pc \in Resolving => w'.image # None /\ w'.image = ImageFor(w.dep)'
    <3> SUFFICES ASSUME w.pc \in Resolving PROVE w'.image # None /\ w'.image = ImageFor(w.dep)'
      BY <2>1
    <3>1. w.dep \in Deployments /\ w.dep # d /\ w' = w
      BY <2>1, <2>5
    <3>2. ImageFor(w.dep)' = ImageFor(w.dep)
      BY <2>1, <2>2, <3>1 DEF ImageFor
    <3> QED BY <3>1, <3>2 DEF ImageInv
  <2>8. \A e \in Deployments : source'[e] # None => image'[source'[e]] # None
    BY <1>1, <2>1, <2>2 DEF ImageInv
  <2> QED BY <2>1, <2>2, <2>6, <2>7, <2>8 DEF ImageInv
<1>2. CASE \E d \in Deployments : RequestDeploy(d)
  BY <1>1, <1>2 DEF RequestDeploy
<1>3. CASE \E d, src \in Deployments : RequestRollback(d, src)
  BY <1>1, <1>3 DEF RequestRollback
<1>4. ASSUME NEW d \in Deployments, Enqueue(d) PROVE ImageInv'
  <2>1. /\ req[d] = "created" /\ queue' = Append(queue, d) /\ req' = [req EXCEPT ![d] = "done"]
        /\ UNCHANGED <<status, source, image, stalled, w>>
    BY <1>4 DEF Enqueue, rowVars
  <2>2. \A e \in Deployments : req'[e] = "unused" => req[e] = "unused" /\ e # d
    BY <1>0, <2>1
  <2>3. \A i \in DOMAIN queue' : queue'[i] = d \/ (i \in DOMAIN queue /\ queue'[i] = queue[i])
    BY <1>0, <2>1
  <2>4. \A e \in Deployments : req'[e] = "unused" => \A i \in DOMAIN queue' : queue'[i] # e
    BY <2>2, <2>3 DEF ImageInv
  <2>5. \A e \in Deployments : req'[e] = "unused" =>
          (w'.pc \notin {"down", "idle"} => w'.dep # e) /\ e \notin stalled'
    BY <2>1, <2>2 DEF ImageInv
  <2> QED BY <2>1, <2>2, <2>4, <2>5, ImageFrame
<1>5. ASSUME NEW d \in Deployments, EnqueueFails(d) PROVE ImageInv'
  <2>1. /\ req' = [req EXCEPT ![d] = "done"]
        /\ UNCHANGED <<status, source, image, queue, stalled, w>>
    BY <1>5 DEF EnqueueFails, rowVars, queueVars
  <2>2. \A e \in Deployments : req'[e] = "unused" => req[e] = "unused"
    BY <1>0, <2>1
  <2> QED BY <2>1, <2>2, ImageFrame DEF ImageInv
<1>6. CASE DeleteApp \/ DeleteContainers \/ DeleteVolumes \/ DeletionRefused
  <2>1. UNCHANGED <<status, source, image, req, queue, stalled, w>>
    BY <1>6 DEF DeleteApp, DeleteContainers, DeleteVolumes, DeletionRefused, rowVars, queueVars
  <2> QED BY <2>1, ImageFrame DEF ImageInv
<1>7. CASE DeleteRow
  <2>1. /\ status' = [d \in Deployments |-> "absent"]
        /\ UNCHANGED <<source, image, req, queue, stalled, w>>
    BY <1>7 DEF DeleteRow, queueVars
  <2> QED BY <2>1, ImageFrame DEF ImageInv
<1> QED BY <1>2, <1>3, <1>4, <1>5, <1>6, <1>7 DEF ApiStep

LEMMA ImageWorker ==
  ASSUME TypeOK, ImageInv, WorkerStep
  PROVE  ImageInv'
<1>0. /\ status \in [Deployments -> RowStatus] /\ image \in [Deployments -> Images]
      /\ w \in WorkerType /\ queue \in Seq(Deployments)
      /\ source \in [Deployments -> Deployments \cup {None}]
      /\ w.pc \notin {"down", "idle"} => w.dep \in Deployments
  BY TypeFacts DEF TypeOK
<1>1. CASE TakeJob
  <2>1. /\ UNCHANGED <<status, source, image, req, stalled>> /\ queue' = Tail(queue)
        /\ queue # <<>> /\ w'.dep = Head(queue) /\ w'.pc \in {"ack", "begin"}
    BY <1>1 DEF TakeJob, Fresh, rowVars
  <2>2. /\ 1 \in DOMAIN queue /\ Head(queue) = queue[1]
        /\ \A i \in DOMAIN Tail(queue) : i + 1 \in DOMAIN queue /\ Tail(queue)[i] = queue[i + 1]
    BY <1>0, <2>1
  <2> QED BY <2>1, <2>2, ImageFrame DEF ImageInv, Resolving
<1>2. CASE BeginDeploy \/ FailDeployment
  <2>1. /\ w.pc \in {"begin", "failed"} /\ w'.pc \in {"mark", "failApp", "ack"} /\ w'.dep = w.dep
        /\ \/ status' = [status EXCEPT ![w.dep] = "building"]
           \/ status' = [status EXCEPT ![w.dep] = "failed"]
           \/ status' = status
        /\ UNCHANGED <<source, image, req, queue, stalled>>
    BY <1>2, GotoStep DEF BeginDeploy, FailDeployment, PCs, queueVars
  <2>2. \A d \in Deployments : status'[d] = "success" => status[d] = "success"
    BY <1>0, <2>1
  <2> QED BY <2>1, <2>2, ImageFrame DEF ImageInv, Resolving
<1>3. CASE MarkDeploying \/ Throw \/ FailApp
  <2>1. /\ w.pc \notin {"down", "idle"} /\ w'.pc \in {"image", "failed", "ack"} /\ w'.dep = w.dep
        /\ UNCHANGED <<status, source, image, req, queue, stalled>>
    BY <1>3, GotoStep DEF MarkDeploying, Throw, FailApp, PCs, queueVars, rowVars
  <2> QED BY <2>1, ImageFrame DEF ImageInv, Resolving
<1>4. CASE ResolveImage
  <2>1. /\ w.pc = "image" /\ w'.pc = "list" /\ w'.dep = w.dep /\ w'.image = ImageFor(w.dep)
        /\ ImageFor(w.dep) # None
        /\ UNCHANGED <<status, source, image, req, queue, stalled>>
    BY <1>0, <1>4 DEF ResolveImage, WorkerType, rowVars, queueVars
  <2>2. w'.image = ImageFor(w.dep)'
    BY <2>1 DEF ImageFor
  <2>3. \A d \in Deployments : ImageFor(d)' = ImageFor(d)
    BY <2>1 DEF ImageFor
  <2> QED BY <2>1, <2>2, <2>3 DEF ImageInv, Resolving
<1>5. CASE ListOld \/ StopOld \/ RemoveOld \/ CreateContainer \/ StartContainer
             \/ ConnectNetwork \/ MarkRunning \/ CloseLog
  <2>1. CASE ListOld
    <3>1. /\ w.pc = "list" /\ w'.pc \notin {"down", "idle"} /\ w'.dep = w.dep /\ w'.image = w.image
          /\ UNCHANGED <<status, source, image, req, queue, stalled>>
      BY <1>0, <2>1 DEF ListOld, WorkerType, rowVars, queueVars
    <3> QED BY <3>1, ImageFrame DEF ImageInv, Resolving
  <2>2. CASE StopOld \/ RemoveOld \/ CreateContainer \/ StartContainer
             \/ ConnectNetwork \/ MarkRunning \/ CloseLog
    <3>1. /\ w.pc \in Resolving /\ w'.pc \notin {"down", "idle"} /\ w'.dep = w.dep
          /\ w'.image = w.image
          /\ UNCHANGED <<status, source, image, req, queue, stalled>>
      BY <2>2, GotoStep DEF StopOld, RemoveOld, CreateContainer, StartContainer,
         ConnectNetwork, MarkRunning, CloseLog, PCs, Resolving, rowVars, queueVars
    <3> QED BY <3>1, ImageFrame DEF ImageInv, Resolving
  <2> QED BY <1>5, <2>1, <2>2
<1>6. CASE RecordSuccess
  <2>1. /\ w.pc = "success" /\ w'.pc \in {"running", "failed"} /\ w'.dep = w.dep
        /\ w'.image = w.image /\ UNCHANGED <<source, req, queue, stalled>>
    BY <1>6, GotoStep DEF RecordSuccess, PCs, queueVars
  <2>2. CASE UNCHANGED <<status, image>>
    BY <2>1, <2>2, ImageFrame DEF ImageInv, Resolving
  <2>3. CASE /\ status' = [status EXCEPT ![w.dep] = "success"]
             /\ image' = [image EXCEPT ![w.dep] = w.image]
    <3>1. w.dep \in Deployments /\ w.image # None /\ w.image = ImageFor(w.dep)
      BY <1>0, <2>1 DEF ImageInv, Resolving
    <3>2. image'[w.dep] = w.image /\ \A d \in Deployments : d # w.dep => image'[d] = image[d]
      BY <1>0, <2>3, <3>1
    <3>3. \A d \in Deployments : image[d] # None => image'[d] = image[d]
      BY <3>1, <3>2 DEF ImageInv
    <3>4. \A d \in Deployments : ImageFor(d)' = ImageFor(d)
      BY <1>0, <2>1, <3>3 DEF ImageFor, ImageInv
    <3>5. \A d \in Deployments : image'[d] # None => image'[d] = ImageFor(d)'
      BY <3>1, <3>2, <3>4 DEF ImageInv
    <3>6. \A d \in Deployments : status'[d] = "success" => image'[d] # None
      BY <1>0, <2>3, <3>1, <3>2 DEF ImageInv
    <3>7. \A d \in Deployments : source'[d] # None => image'[source'[d]] # None
      BY <1>0, <2>1, <3>3 DEF ImageInv
    <3>8. \A d \in Deployments : req'[d] = "unused" => d # w.dep
      BY <2>1 DEF ImageInv
    <3>9. \A d \in Deployments : req'[d] = "unused" =>
            image'[d] = None /\ (w'.pc \notin {"down", "idle"} => w'.dep # d) /\ d \notin stalled'
            /\ \A i \in DOMAIN queue' : queue'[i] # d
      BY <2>1, <3>2, <3>8 DEF ImageInv
    <3>10. w'.pc \in Resolving => w'.image # None /\ w'.image = ImageFor(w.dep)'
      <4>1. ImageFor(w.dep)' = ImageFor(w.dep)
        <5>1. source[w.dep] # None => source[w.dep] \in Deployments /\ image[source[w.dep]] # None
          BY <1>0, <3>1 DEF ImageInv
        <5> QED BY <2>1, <3>3, <5>1 DEF ImageFor
      <4> QED BY <2>1, <3>1, <4>1
    <3> QED BY <3>5, <3>6, <3>7, <3>9, <3>10 DEF ImageInv
  <2> QED BY <1>6, <2>2, <2>3 DEF RecordSuccess
<1>7. CASE AckJob \/ WorkerRestart
  <2>1. w'.pc = "idle" /\ UNCHANGED <<status, source, image, req, queue, stalled>>
    BY <1>7 DEF AckJob, WorkerRestart, Fresh, rowVars, queueVars
  <2> QED BY <2>1, ImageFrame DEF ImageInv, Resolving
<1> QED BY <1>1, <1>2, <1>3, <1>4, <1>5, <1>6, <1>7 DEF WorkerStep

LEMMA ImageNext ==
  ASSUME TypeOK, ImageInv, [Next]_vars
  PROVE  ImageInv'
<1>1. CASE ApiStep BY <1>1, ImageApi
<1>2. CASE WorkerStep BY <1>2, ImageWorker
<1>7. CASE TakeJobFails
  <2>1. /\ UNCHANGED <<status, source, image, req, stalled, w>>
        /\ queue # <<>> /\ queue' = Tail(queue)
    BY <1>7 DEF TakeJobFails, rowVars
  <2>2. \A i \in DOMAIN queue' : i + 1 \in DOMAIN queue /\ queue'[i] = queue[i + 1]
    BY <2>1 DEF TypeOK
  <2>3. \A d \in Deployments : req'[d] = "unused" =>
          \A i \in DOMAIN queue' : queue'[i] # d
    BY <2>1, <2>2 DEF ImageInv
  <2> QED BY <2>1, <2>3, ImageFrame DEF ImageInv
<1>3. CASE WorkerCrash
  <2>1. /\ w'.pc = "down" /\ UNCHANGED <<status, source, image, req, queue>>
        /\ stalled' = stalled \cup {w.dep} /\ w.dep # None
    BY <1>3 DEF WorkerCrash, Fresh, rowVars
  <2>2. w.pc \notin {"down", "idle"}
    BY <2>1 DEF TypeOK
  <2> QED BY <2>1, <2>2, ImageFrame DEF ImageInv, Resolving
<1>4. CASE QueueStep
  <2>1. PICK d \in Deployments : RequeueStalled(d) BY <1>4 DEF QueueStep
  <2>2. /\ d \in stalled /\ stalled' = stalled \ {d}
        /\ queue' = queue \/ queue' = <<d>> \o queue
        /\ UNCHANGED <<status, source, image, req, w>>
    BY <2>1 DEF RequeueStalled, rowVars
  <2>3. \A i \in DOMAIN queue' : queue'[i] = d \/ \E j \in DOMAIN queue : queue'[i] = queue[j]
    <3>1. queue \in Seq(Deployments) BY DEF TypeOK
    <3>2. ASSUME NEW i \in DOMAIN (<<d>> \o queue), i # 1
          PROVE  i - 1 \in DOMAIN queue /\ (<<d>> \o queue)[i] = queue[i - 1]
      BY <3>1, <3>2
    <3>3. (<<d>> \o queue)[1] = d
      BY <3>1
    <3> QED BY <2>2, <3>2, <3>3
  <2>4. \A e \in Deployments : req'[e] = "unused" =>
          (w'.pc \notin {"down", "idle"} => w'.dep # e) /\ e \notin stalled'
          /\ \A i \in DOMAIN queue' : queue'[i] # e
    BY <2>2, <2>3 DEF ImageInv
  <2> QED BY <2>2, <2>4, ImageFrame
<1>5. CASE ProcessCrash \/ WatchStep \/ UNCHANGED vars
  <2>1. UNCHANGED <<status, source, image, req, queue, stalled, w>>
    BY <1>5 DEF ProcessCrash, WatchStep, OnCrash, LoseStream, Resubscribe, vars, rowVars, queueVars
  <2> QED BY <2>1, ImageFrame DEF ImageInv
<1> QED BY <1>1, <1>2, <1>3, <1>4, <1>5, <1>7 DEF Next

LEMMA ImageInvariant == Spec => [](TypeOK /\ ImageInv)
<1>1. Init => TypeOK /\ ImageInv BY InitTypeOK, ImageInit
<1>2. TypeOK /\ ImageInv /\ [Next]_vars => (TypeOK /\ ImageInv)' BY TypeNext, ImageNext
<1> QED BY <1>1, <1>2, PTL DEF Spec

(* A rollback that succeeded runs the very image its source recorded, even  *)
(* when a crash made either job run again (promotion in index.ts).          *)
THEOREM RollbackPromotesImage == Spec => []RollbackKeepsImage
<1>1. TypeOK /\ ImageInv => RollbackKeepsImage
  BY DEF ImageInv, ImageFor, RollbackKeepsImage
<1> QED BY <1>1, ImageInvariant, PTL

(* Unless the application is being deleted, a container is touched only     *)
(* when the job that replaces it has its image, and removed only once it    *)
(* has stopped (docs: "detected before Sohwe replaces the running           *)
(* container").                                                             *)
THEOREM ContainerKeptUntilBuilt == Spec => UntouchedUntilBuilt
<1> DEFINE A == ctr' # ctr /\ deleting' = deleting /\ ctr.state # "none" =>
                  /\ w.image # None
                  /\ ctr.state = "running" => ctr'.state # "none"
<1>1. ASSUME TypeOK, ImageInv, [Next]_vars PROVE A
  <2> SUFFICES ASSUME ctr' # ctr, deleting' = deleting PROVE A
    OBVIOUS
  <2>1. \/ StopOld \/ RemoveOld \/ CreateContainer \/ StartContainer \/ ConnectNetwork
    <3>1. ~DeleteContainers /\ ~DeleteVolumes
      BY DEF DeleteContainers, DeleteVolumes
    <3> QED BY <1>1, <3>1 DEF Next, ApiStep, WorkerStep, QueueStep, WatchStep, RequestDeploy,
       RequestRollback, NewRow, Enqueue, EnqueueFails, DeleteApp, DeletionRefused, DeleteRow,
       TakeJob, TakeJobFails,
       BeginDeploy, MarkDeploying, ResolveImage, ListOld, RecordSuccess, MarkRunning,
       CloseLog, Throw, FailDeployment, FailApp, AckJob, WorkerRestart, WorkerCrash,
       RequeueStalled, ProcessCrash, OnCrash, LoseStream, Resubscribe, vars
  <2>2. w.image # None
    BY <1>1, <2>1 DEF StopOld, RemoveOld, CreateContainer, StartContainer, ConnectNetwork,
       ImageInv, Resolving
  <2>3. ctr.state = "running" => ctr'.state # "none"
    BY <1>1, <2>1, TypeFacts DEF StopOld, RemoveOld, CreateContainer, StartContainer,
       ConnectNetwork, CtrType
  <2> QED BY <2>2, <2>3
<1>2. TypeOK /\ ImageInv /\ [Next]_vars => [A]_vars
  BY <1>1
<1> QED BY <1>2, ImageInvariant, PTL DEF Spec, UntouchedUntilBuilt

-----------------------------------------------------------------------------
(***************************************************************************)
(* The runtime log.  The inductive invariant TailInv, of a state in which no *)
(* deployment has overtaken the startup scan, has five parts.              *)
(***************************************************************************)
Slots == 1..(MaxContainers + 1)
LinesOf(c) == Len(log[c])
CtrStates == {"unmade", "running", "exited", "removed"}
JobType == [pc : {"idle", "stopped", "removed", "started", "attaching", "down"},
            ctr : 0..MaxContainers, since : Nat]
ScanType == [pc : {"idle", "begin", "listed", "attaching", "down"},
             ctr : 0..MaxContainers, since : Nat]
ReaderType == [pc : {"away", "live"}, last : [ctr : 0..MaxContainers, second : Nat]]

TailShape ==
  /\ clock \in Nat
  /\ containers \in [1..MaxContainers -> CtrStates]
  /\ log \in [1..MaxContainers -> Seq(Nat)]
  /\ streams \in [Slots -> R!StreamType] /\ tail \in 0..(MaxContainers + 1)
  /\ job \in JobType /\ scan \in ScanType
  /\ reader \in ReaderType
  /\ lost \subseteq 1..MaxContainers

Alive(c) == containers[c] \in {"running", "exited"}
Held(s) == streams[s].state # "closed"
Publishes(s) == streams[s].state \in {"open", "ending"}

\* k is the newest container: the others are removed, and what runs is it.
Newest(k) ==
  /\ \A c \in 1..MaxContainers : containers[c] # "unmade" <=> c <= k
  /\ \A c \in 1..MaxContainers : Alive(c) => c = k
  /\ \A c \in 1..MaxContainers : containers[c] = "exited" => c \in lost
  /\ reader.last.ctr <= k

\* A container has one stream, and what publishes is the one registered.
OneStream ==
  /\ \A s \in Slots : ~Held(s) => streams[s] = R!Closed
  /\ \A s \in Slots : Held(s) => streams[s].ctr # 0 /\ containers[streams[s].ctr] # "unmade"
  /\ \A s, r \in Slots : Held(s) /\ Held(r) /\ streams[s].ctr = streams[r].ctr => s = r
  /\ \A s \in Slots : Publishes(s) => s = tail
  /\ tail # 0 => Publishes(tail)

\* How far the deployment and the startup scan are, and what is registered meanwhile.
TailProgress(k) ==
  /\ tail # 0 => job.pc = "idle" /\ scan.pc = "idle"
  /\ scan.pc # "idle" => job.pc \in {"idle", "down"} /\ \A s \in Slots : ~Held(s)
  /\ job.pc = "down" <=> scan.pc = "down"
  /\ scan.pc \in {"listed", "attaching"} => scan.ctr = k /\ k # 0
  /\ job.pc = "removed" => \A c \in 1..MaxContainers : ~Alive(c)
  /\ job.pc \in {"stopped", "removed"} => k # MaxContainers
  /\ job.pc \in {"started", "attaching"} =>
       /\ job.ctr = k /\ k # 0 /\ containers[k] # "removed"
       /\ \A s \in Slots : Held(s) => streams[s].ctr # k
       /\ reader.last.ctr < k
  /\ job.pc = "idle" /\ scan.pc = "idle" =>
       \A c \in 1..MaxContainers : containers[c] = "running" /\ c \notin lost =>
         tail # 0 /\ streams[tail].ctr = c /\ streams[tail].state = "open"

\* Lines have the times of their printing, and what comes next from the stream in use is
\* no older than what the viewer has seen.
TailOrder ==
  /\ \A c \in 1..MaxContainers : \A i \in 1..LinesOf(c) :
       log[c][i] <= clock /\ \A j \in 1..i : log[c][j] <= log[c][i]
  /\ reader.last.second <= R!Second(clock)
  /\ \A s \in Slots : Publishes(s) =>
       /\ streams[s].next # 0 /\ streams[s].upto <= LinesOf(streams[s].ctr)
       /\ reader.last.ctr <= streams[s].ctr
       /\ reader.last.ctr = streams[s].ctr =>
            \A i \in 1..LinesOf(streams[s].ctr) :
              streams[s].next <= i
                => reader.last.second <= R!Second(log[streams[s].ctr][i])
  /\ scan.pc = "attaching" /\ reader.last.ctr = scan.ctr
       => reader.last.second <= scan.since

TailOk(k) == TailShape /\ OneStream /\ TailOrder /\ Newest(k) /\ TailProgress(k)

-----------------------------------------------------------------------------
\* The second of a time is a number, and grows with the time.
LEMMA SecondFacts ==
  ASSUME NEW t \in Nat, NEW u \in Nat
  PROVE  R!Second(t) \in Nat /\ (t <= u => R!Second(t) <= R!Second(u))
<1> PICK p \in Nat : p = PerSecond /\ p > 0  BY LogsAssumption
<1>1. t \div p \in Nat /\ u \div p \in Nat  OBVIOUS
<1>2. ASSUME t <= u PROVE t \div p <= u \div p  BY <1>2
<1> QED BY <1>1, <1>2 DEF R!Second

\* What a stream from second `since` on does not skip was printed in that second or later.
LEMMA NotSkipped ==
  ASSUME TailShape, TailOrder, NEW c \in 1..MaxContainers, NEW since \in Nat
  PROVE  /\ R!Skipped(c, since) \in Nat
         /\ \A i \in 1..LinesOf(c) : i > R!Skipped(c, since) => R!Second(log[c][i]) >= since
<1> DEFINE S == {i \in 1..LinesOf(c) : R!Second(log[c][i]) < since}
<1>1. LinesOf(c) \in Nat /\ \A i \in 1..LinesOf(c) : log[c][i] \in Nat
  BY DEF TailShape, LinesOf
<1>2. IsFiniteSet(S) /\ Cardinality(S) \in Nat
  <2>1. S \in SUBSET (1..LinesOf(c))  OBVIOUS
  <2>2. IsFiniteSet(1..LinesOf(c))  BY <1>1, FS_Interval
  <2> HIDE DEF S
  <2> QED BY <2>1, <2>2, FS_Subset, FS_CardinalityType
<1>3. R!Skipped(c, since) = Cardinality(S)  BY DEF R!Skipped, R!Cardinality, Cardinality, LinesOf
<1>4. ASSUME NEW i \in 1..LinesOf(c), i > Cardinality(S), R!Second(log[c][i]) < since
      PROVE  FALSE
  <2>1. \A j \in 1..i : log[c][j] \in Nat /\ log[c][j] <= log[c][i]
    BY <1>1, <1>4 DEF TailOrder
  <2>2. \A j \in 1..i : R!Second(log[c][j]) \in Nat /\ R!Second(log[c][j]) < since
    BY <1>1, <1>4, <2>1, SecondFacts
  <2>3. 1..i \subseteq S  BY <1>1, <1>4, <2>2
  <2>4. Cardinality(1..i) <= Cardinality(S)  BY <1>2, <2>3, FS_Subset
  <2>5. Cardinality(1..i) = i  BY <1>4, FS_Interval
  <2> QED BY <1>1, <1>2, <1>4, <2>4, <2>5
<1>5. ASSUME NEW i \in 1..LinesOf(c), i > Cardinality(S) PROVE R!Second(log[c][i]) >= since
  BY <1>1, <1>4, <1>5, SecondFacts
<1> HIDE DEF S
<1> QED BY <1>2, <1>3, <1>5

\* With one stream per container there is a number for another.
LEMMA FreeSlot ==
  ASSUME TailShape, OneStream
  PROVE  \E s \in Slots : streams[s] = R!Closed
<1> SUFFICES ASSUME \A s \in Slots : streams[s] # R!Closed PROVE FALSE
  OBVIOUS
<1>1. \A s \in Slots : Held(s) /\ streams[s].ctr \in 1..MaxContainers
  BY LogsAssumption DEF OneStream, TailShape, R!StreamType
<1> DEFINE of == [s \in Slots |-> streams[s].ctr]
<1>2. of \in [Slots -> 1..MaxContainers]  BY <1>1
<1>3. /\ IsFiniteSet(Slots) /\ IsFiniteSet(1..MaxContainers)
      /\ Cardinality(Slots) = MaxContainers + 1 /\ Cardinality(1..MaxContainers) = MaxContainers
  BY LogsAssumption, FS_Interval DEF Slots
<1>4. \E x, y \in Slots : x # y /\ of[x] = of[y]
  <2> HIDE DEF of
  <2> QED BY <1>2, <1>3, LogsAssumption, FS_PigeonHole
<1> QED BY <1>1, <1>4 DEF OneStream




\* What is registered: a stream of a container that had none, from a second on.
LEMMA Registered ==
  ASSUME TailShape, OneStream, TailOrder, NEW c \in 1..MaxContainers, NEW since \in Nat,
         R!Register(c, since)
  PROVE  \E s \in Slots : \E st \in R!StreamType :
           /\ streams[s] = R!Closed /\ streams' = [streams EXCEPT ![s] = st] /\ tail' = s
           /\ st.ctr = c /\ st.next # 0
           /\ st.state = IF containers[c] = "running" THEN "open" ELSE "ending"
           /\ st.upto <= LinesOf(c)
           /\ \A i \in 1..LinesOf(c) : st.next <= i => since <= R!Second(log[c][i])
<1> DEFINE s == CHOOSE r \in Slots : streams[r] = R!Closed
           st == [ctr |-> c, next |-> R!Skipped(c, since) + 1,
                  upto |-> IF containers[c] = "running" THEN 0 ELSE LinesOf(c),
                  state |-> IF containers[c] = "running" THEN "open" ELSE "ending"]
<1>1. s \in Slots /\ streams[s] = R!Closed  BY FreeSlot
<1>2. R!Skipped(c, since) \in Nat /\ LinesOf(c) \in Nat
      /\ \A i \in 1..LinesOf(c) : i > R!Skipped(c, since) => R!Second(log[c][i]) >= since
  <2>1. LinesOf(c) \in Nat  BY DEF TailShape, LinesOf
  <2> QED BY <2>1, NotSkipped
<1>3. st \in R!StreamType  BY <1>2, LogsAssumption DEF R!StreamType
<1>4. streams' = [streams EXCEPT ![s] = st] /\ tail' = s
  BY DEF R!Register, LinesOf, Slots, R!MaxStreams, R!Closed
<1>5. \A i \in 1..LinesOf(c) : log[c][i] \in Nat  BY DEF TailShape, LinesOf
<1>6. \A i \in 1..LinesOf(c) : st.next <= i => since <= R!Second(log[c][i])
  BY <1>2, <1>5, SecondFacts
<1>7. st.ctr = c /\ st.next # 0 /\ st.upto <= LinesOf(c)
      /\ st.state = IF containers[c] = "running" THEN "open" ELSE "ending"
  BY <1>2
<1> HIDE DEF s, st
<1> QED BY <1>1, <1>3, <1>4, <1>6, <1>7

\* Streams that have ended have the rest of their lines to come.
LEMMA EndedStreams ==
  ASSUME TailShape, OneStream, NEW T, streams' = R!Ended(T)
  PROVE  /\ streams' \in [Slots -> R!StreamType]
         /\ \A s \in Slots :
              IF streams[s].ctr \in T /\ streams[s].state = "open"
                THEN /\ streams'[s].ctr = streams[s].ctr /\ streams'[s].state = "ending"
                     /\ streams'[s].next = streams[s].next
                     /\ streams'[s].upto = LinesOf(streams[s].ctr)
                ELSE streams'[s] = streams[s]
<1>1. DOMAIN streams = Slots  BY DEF TailShape
<1>2. ASSUME NEW s \in Slots, streams[s].state = "open"
      PROVE  LinesOf(streams[s].ctr) \in Nat
  BY <1>2, LogsAssumption DEF TailShape, OneStream, Held, LinesOf, R!StreamType
<1>3. ASSUME NEW s \in Slots
      PROVE  /\ streams'[s] \in R!StreamType
             /\ IF streams[s].ctr \in T /\ streams[s].state = "open"
                  THEN /\ streams'[s].ctr = streams[s].ctr /\ streams'[s].state = "ending"
                       /\ streams'[s].next = streams[s].next
                       /\ streams'[s].upto = LinesOf(streams[s].ctr)
                  ELSE streams'[s] = streams[s]
  <2>1. PICK st \in R!StreamType : st = streams[s]  BY DEF TailShape
  <2>2. CASE st.ctr \in T /\ st.state = "open"
    <3>1. streams'[s] = [st EXCEPT !.state = "ending", !.upto = LinesOf(st.ctr)]
      BY <1>1, <2>1, <2>2 DEF R!Ended, LinesOf
    <3> QED BY <1>2, <2>1, <2>2, <3>1 DEF R!StreamType
  <2>3. CASE ~(st.ctr \in T /\ st.state = "open")
    BY <1>1, <2>1, <2>3 DEF R!Ended
  <2> QED BY <2>2, <2>3
<1>4. streams' \in [Slots -> R!StreamType]
  <2>1. DOMAIN streams' = Slots  BY <1>1 DEF R!Ended
  <2> QED BY <1>1, <1>3, <2>1 DEF R!Ended
<1> QED BY <1>3, <1>4

\* The stream of an unused number.
LEMMA ClosedType == R!Closed \in R!StreamType /\ R!Closed.state = "closed"
BY LogsAssumption DEF R!Closed, R!StreamType

\* Stopping the tail destroys the stream that was registered and no other.
LEMMA StoppedTail ==
  ASSUME TailShape, R!StopTail
  PROVE  /\ streams' \in [Slots -> R!StreamType] /\ tail' = 0
         /\ \A s \in Slots :
              IF s = tail
                THEN streams'[s].ctr = streams[s].ctr /\ streams'[s].state = "closing"
                ELSE streams'[s] = streams[s]
<1>1. CASE tail = 0  BY <1>1 DEF R!StopTail, TailShape, Slots
<1>2. CASE tail # 0
  <2>1. tail \in Slots /\ streams[tail] \in R!StreamType  BY <1>2 DEF TailShape, Slots
  <2>2. PICK z \in R!StreamType : z = R!Closed  BY ClosedType
  <2>3. PICK st : st = [z EXCEPT !.ctr = streams[tail].ctr, !.state = "closing"]  OBVIOUS
  <2>4. st \in R!StreamType /\ st.ctr = streams[tail].ctr /\ st.state = "closing"
    BY <2>1, <2>2, <2>3 DEF R!StreamType
  <2>5. streams' = [streams EXCEPT ![tail] = st]  BY <1>2, <2>2, <2>3 DEF R!StopTail
  <2> QED BY <2>1, <2>4, <2>5 DEF TailShape, R!StopTail
<1> QED BY <1>1, <1>2

\* Streams that publish or not, as before, and of the same containers, are one each as before.
LEMMA SameStreams ==
  ASSUME TailShape, OneStream, tail' = tail,
         \A s \in Slots : (streams'[s].state = "closed" <=> streams[s].state = "closed"),
         \A s \in Slots : (streams'[s].state \in {"open", "ending"} <=> Publishes(s)),
         \A s \in Slots : Held(s) => streams'[s].ctr = streams[s].ctr,
         \A s \in Slots : ~Held(s) => streams'[s] = streams[s],
         \A c \in 1..MaxContainers : containers[c] # "unmade" => containers'[c] # "unmade"
  PROVE  OneStream'
<1>1. \A s \in Slots : ~Held(s)' => streams'[s] = R!Closed
  BY DEF OneStream, Held
<1>2. ASSUME NEW s \in Slots, Held(s)'
      PROVE  streams'[s].ctr # 0 /\ containers'[streams'[s].ctr] # "unmade"
  <2>1. Held(s) /\ streams'[s].ctr = streams[s].ctr  BY <1>2 DEF Held
  <2>2. streams[s].ctr \in 1..MaxContainers /\ containers[streams[s].ctr] # "unmade"
    BY <2>1 DEF OneStream, TailShape, R!StreamType
  <2> QED BY <2>1, <2>2
<1>3. \A s, r \in Slots :
        Held(s)' /\ Held(r)' /\ streams'[s].ctr = streams'[r].ctr => s = r
  BY DEF OneStream, Held
<1>4. \A s \in Slots : Publishes(s)' => s = tail'
  BY DEF OneStream, Publishes
<1>5. tail' # 0 => streams'[tail'].state \in {"open", "ending"}
  BY DEF OneStream, TailShape, Slots
<1> QED BY <1>1, <1>2, <1>3, <1>4, <1>5 DEF OneStream, Held, Publishes

\* Time passes.
LEMMA TickStep ==
  ASSUME NEW k \in 0..MaxContainers, TailOk(k), R!Tick
  PROVE  \E m \in 0..MaxContainers : TailOk(m)'
<1>0. TailShape /\ OneStream /\ TailOrder /\ Newest(k) /\ TailProgress(k)
  BY DEF TailOk
<1>6. R!Second(clock) <= R!Second(clock + 1) /\ R!Second(clock) \in Nat
      /\ R!Second(clock + 1) \in Nat
  BY <1>0, SecondFacts DEF TailShape
<1>7. clock' = clock + 1  BY DEF R!Tick
<1>1. TailShape'
  BY <1>0, <1>6, <1>7 DEF
    TailShape, OneStream, TailOrder, Newest, TailProgress, Held, Publishes, Alive, LinesOf,
    R!Tick, R!tailVars
<1>2. OneStream'
  BY <1>0, <1>6, <1>7 DEF
    TailShape, OneStream, TailOrder, Newest, TailProgress, Held, Publishes, Alive, LinesOf,
    R!Tick, R!tailVars
<1>3. TailOrder'
  <2>1. reader.last.second \in Nat  BY <1>0 DEF TailShape, ReaderType
  <2>2. reader'.last.second <= R!Second(clock')
    BY <1>0, <1>6, <1>7, <2>1 DEF TailOrder, R!Tick
  <2>3. \A c \in 1..MaxContainers : \A i \in 1..LinesOf(c) :
          log[c][i] <= clock + 1 /\ \A j \in 1..i : log[c][j] <= log[c][i]
    BY <1>0 DEF TailOrder, TailShape, LinesOf
  <2> QED BY <1>0, <1>7, <2>2, <2>3
      DEF TailOrder, R!Tick, R!tailVars, Publishes, LinesOf
<1>4. Newest(k)'
  BY <1>0, <1>6, <1>7 DEF
    TailShape, OneStream, TailOrder, Newest, TailProgress, Held, Publishes, Alive, LinesOf,
    R!Tick, R!tailVars
<1>5. TailProgress(k)'
  BY <1>0, <1>6, <1>7 DEF
    TailShape, OneStream, TailOrder, Newest, TailProgress, Held, Publishes, Alive, LinesOf,
    R!Tick, R!tailVars
<1> QED BY <1>1, <1>2, <1>3, <1>4, <1>5 DEF TailOk

\* The running container prints a line.
LEMMA PrintStep ==
  ASSUME NEW k \in 0..MaxContainers, TailOk(k), NEW c \in 1..MaxContainers,
         R!PrintLine(c)
  PROVE  \E m \in 0..MaxContainers : TailOk(m)'
<1>0. TailShape /\ OneStream /\ TailOrder /\ Newest(k) /\ TailProgress(k)
  BY DEF TailOk
<1>6. PICK g \in Seq(Nat), t \in Nat : g = log[c] /\ t = clock  BY <1>0 DEF TailShape
<1>7. log' = [log EXCEPT ![c] = Append(g, t)] /\ containers[c] = "running"
      /\ UNCHANGED <<clock, containers, R!tailVars, reader, lost, raced>>
  BY <1>6 DEF R!PrintLine, R!Running
<1>8. /\ Len(Append(g, t)) = Len(g) + 1 /\ Len(g) \in Nat /\ Append(g, t) \in Seq(Nat)
      /\ Append(g, t)[Len(g) + 1] = t /\ \A i \in 1..Len(g) : Append(g, t)[i] = g[i]
  BY <1>6
<1>9. log' \in [1..MaxContainers -> Seq(Nat)]  BY <1>0, <1>7, <1>8 DEF TailShape
<1>10. \A b \in 1..MaxContainers : log'[b] = IF b = c THEN Append(g, t) ELSE log[b]
  BY <1>0, <1>7 DEF TailShape
<1>1. TailShape'
  BY <1>0, <1>7, <1>9 DEF TailShape, R!tailVars
<1>2. OneStream'
  BY <1>0, <1>7 DEF OneStream, Held, Publishes, R!tailVars
<1>3. TailOrder'
  <2>1. ASSUME NEW b \in 1..MaxContainers, NEW i \in 1..Len(log'[b])
        PROVE  log'[b][i] <= clock' /\ \A j \in 1..i : log'[b][j] <= log'[b][i]
    <3>1. \A e \in 1..Len(g) : g[e] \in Nat /\ g[e] <= t /\ \A j \in 1..e : g[j] <= g[e]
      BY <1>0, <1>6 DEF TailOrder, LinesOf
    <3>2. clock' = t  BY <1>6, <1>7
    <3>3. CASE b # c  BY <1>0, <1>10, <2>1, <3>2, <3>3, <1>6 DEF TailOrder, LinesOf
    <3>4. CASE b = c
      <4>1. log'[b] = Append(g, t)  BY <1>10, <3>4
      <4>2. i \in 1..Len(g) + 1  BY <1>8, <2>1, <4>1
      <4>3. CASE i = Len(g) + 1
        BY <1>6, <1>8, <3>1, <3>2, <4>1, <4>3
      <4>4. CASE i # Len(g) + 1
        <5>1. i \in 1..Len(g) /\ \A j \in 1..i : j \in 1..Len(g)  BY <1>8, <4>2, <4>4
        <5> QED BY <1>8, <3>1, <3>2, <4>1, <5>1
      <4> QED BY <4>3, <4>4
    <3> QED BY <3>3, <3>4
  <2>2. reader.last.second <= R!Second(t)  BY <1>0, <1>6 DEF TailOrder
  <2>3. ASSUME NEW s \in Slots, Publishes(s)
        PROVE  LET b == streams[s].ctr IN
                 /\ streams[s].upto <= Len(log'[b])
                 /\ reader.last.ctr = b =>
                      \A i \in 1..Len(log'[b]) :
                        streams[s].next <= i => reader.last.second <= R!Second(log'[b][i])
    <3>1. PICK b \in 1..MaxContainers : b = streams[s].ctr
      BY <1>0, <2>3 DEF OneStream, Held, Publishes, TailShape, R!StreamType
    <3>2. streams[s].upto \in Nat /\ streams[s].next \in Nat /\ streams[s].upto <= Len(log[b])
      BY <1>0, <2>3, <3>1 DEF TailShape, R!StreamType, TailOrder, LinesOf
    <3>3. reader.last.ctr = b =>
            \A i \in 1..Len(log[b]) :
              streams[s].next <= i => reader.last.second <= R!Second(log[b][i])
      BY <1>0, <2>3, <3>1 DEF TailOrder, LinesOf
    <3>4. CASE b # c  BY <1>10, <3>1, <3>2, <3>3, <3>4
    <3>5. CASE b = c
      <4>1. log'[b] = Append(g, t) /\ log[b] = g  BY <1>6, <1>10, <3>5
      <4>2. streams[s].upto <= Len(log'[b])  BY <1>8, <3>2, <4>1
      <4>3. ASSUME NEW i \in 1..Len(log'[b]), streams[s].next <= i, reader.last.ctr = b
            PROVE  reader.last.second <= R!Second(log'[b][i])
        <5>1. i \in 1..Len(g) \/ i = Len(g) + 1  BY <1>8, <4>1, <4>3
        <5> QED BY <1>8, <2>2, <3>3, <4>1, <4>3, <5>1
      <4> QED BY <3>1, <4>2, <4>3
    <3> QED BY <3>4, <3>5
  <2> HIDE DEF R!Second
  <2> QED BY <1>0, <1>6, <1>7, <2>1, <2>2, <2>3
      DEF TailOrder, R!tailVars, Publishes, LinesOf
<1>4. Newest(k)'
  BY <1>0, <1>7 DEF Newest, Alive, R!tailVars
<1>5. TailProgress(k)'
  BY <1>0, <1>7 DEF TailProgress, Alive, Held, Publishes, R!tailVars
<1> QED BY <1>1, <1>2, <1>3, <1>4, <1>5 DEF TailOk

\* The process of a container exits.
LEMMA ExitStep ==
  ASSUME NEW k \in 0..MaxContainers, TailOk(k), NEW c \in 1..MaxContainers,
         R!ProcessExits(c)
  PROVE  \E m \in 0..MaxContainers : TailOk(m)'
<1>0. TailShape /\ OneStream /\ TailOrder /\ Newest(k) /\ TailProgress(k)
  BY DEF TailOk
<1>6. /\ containers[c] = "running" /\ containers' = [containers EXCEPT ![c] = "exited"]
      /\ lost' = lost \cup {c} /\ UNCHANGED <<clock, log, tail, job, scan, reader>>
      /\ streams' = R!Ended({c})
  BY DEF R!ProcessExits, R!Running
<1>7. /\ streams' \in [Slots -> R!StreamType]
      /\ \A s \in Slots :
              IF streams[s].ctr \in {c} /\ streams[s].state = "open"
                THEN /\ streams'[s].ctr = streams[s].ctr /\ streams'[s].state = "ending"
                     /\ streams'[s].next = streams[s].next
                     /\ streams'[s].upto = LinesOf(streams[s].ctr)
                ELSE streams'[s] = streams[s]
  BY <1>0, <1>6, EndedStreams
<1>8. \A b \in 1..MaxContainers : containers'[b] = IF b = c THEN "exited" ELSE containers[b]
  BY <1>0, <1>6 DEF TailShape
<1>1. TailShape'
  <2>1. containers' \in [1..MaxContainers -> CtrStates]
    BY <1>0, <1>6 DEF TailShape, CtrStates
  <2> QED BY <1>0, <1>6, <1>7, <2>1 DEF TailShape
<1>2. OneStream'
  <2>1. /\ \A s \in Slots : (streams'[s].state = "closed" <=> streams[s].state = "closed")
        /\ \A s \in Slots : (streams'[s].state \in {"open", "ending"} <=> Publishes(s))
        /\ \A s \in Slots : Held(s) => streams'[s].ctr = streams[s].ctr
        /\ \A s \in Slots : ~Held(s) => streams'[s] = streams[s]
    BY <1>7 DEF Held, Publishes
  <2>2. /\ tail' = tail
        /\ \A b \in 1..MaxContainers : containers[b] # "unmade" => containers'[b] # "unmade"
    BY <1>6, <1>8
  <2> QED BY <1>0, <2>1, <2>2, SameStreams
<1>3. TailOrder'
  <2>1. ASSUME NEW s \in Slots, Publishes(s)'
        PROVE  /\ Publishes(s) /\ streams'[s].ctr = streams[s].ctr
               /\ streams'[s].next = streams[s].next
               /\ streams'[s].upto = streams[s].upto \/ streams'[s].upto = LinesOf(streams[s].ctr)
    BY <1>7, <2>1 DEF Publishes
  <2>2. ASSUME NEW s \in Slots, Publishes(s)
        PROVE  LinesOf(streams[s].ctr) \in Nat
    BY <1>0, <2>2 DEF OneStream, Held, Publishes, TailShape, R!StreamType, LinesOf
  <2>3. \A s \in Slots : Publishes(s)' =>
          /\ streams'[s].next # 0 /\ streams'[s].upto <= LinesOf(streams'[s].ctr)
          /\ reader.last.ctr <= streams'[s].ctr
          /\ reader.last.ctr = streams'[s].ctr =>
               \A i \in 1..LinesOf(streams'[s].ctr) :
                 streams'[s].next <= i
                   => reader.last.second <= R!Second(log[streams'[s].ctr][i])
    BY <1>0, <2>1, <2>2 DEF TailOrder, Publishes
  <2> QED BY <1>0, <1>6, <2>3 DEF TailOrder, LinesOf
<1>4. Newest(k)'
  BY <1>0, <1>6, <1>8 DEF Newest, Alive, TailShape, ReaderType
<1>5. TailProgress(k)'
  BY <1>0, <1>6, <1>7, <1>8 DEF TailProgress, Newest, Alive, Held, TailShape
<1> QED BY <1>1, <1>2, <1>3, <1>4, <1>5 DEF TailOk

\* A restart of the process changes nothing that a stream depends on.
LEMMA RestartStep ==
  ASSUME NEW k \in 0..MaxContainers, TailOk(k), NEW c \in 1..MaxContainers,
         R!ProcessRestarts(c)
  PROVE  \E m \in 0..MaxContainers : TailOk(m)'
<1>0. TailShape /\ OneStream /\ TailOrder /\ Newest(k) /\ TailProgress(k)
  BY DEF TailOk
<1>1. /\ containers[c] = "exited" /\ containers' = [containers EXCEPT ![c] = "running"]
      /\ UNCHANGED <<clock, log, streams, tail, job, scan, reader, lost>>
  BY DEF R!ProcessRestarts, R!tailVars
<1>2. \A b \in 1..MaxContainers : containers'[b] = IF b = c THEN "running" ELSE containers[b]
  BY <1>0, <1>1 DEF TailShape
<1>3. TailShape'  BY <1>0, <1>1 DEF TailShape, CtrStates
<1>4. OneStream'
  <2>1. \A b \in 1..MaxContainers : containers[b] # "unmade" => containers'[b] # "unmade"
    BY <1>2
  <2>2. /\ \A s \in Slots : (streams'[s].state = "closed" <=> streams[s].state = "closed")
        /\ \A s \in Slots : (streams'[s].state \in {"open", "ending"} <=> Publishes(s))
        /\ \A s \in Slots : Held(s) => streams'[s].ctr = streams[s].ctr
        /\ \A s \in Slots : ~Held(s) => streams'[s] = streams[s]
        /\ tail' = tail
    BY <1>1 DEF Publishes
  <2> QED BY <1>0, <2>1, <2>2, SameStreams
<1>5. TailOrder'  BY <1>0, <1>1 DEF TailOrder, Publishes, LinesOf
<1>6. Newest(k)'  BY <1>0, <1>1, <1>2 DEF Newest, Alive
<1>7. TailProgress(k)'
  BY <1>0, <1>1, <1>2 DEF TailProgress, Newest, Alive, Held
<1> QED BY <1>3, <1>4, <1>5, <1>6, <1>7 DEF TailOk

\* A line that is published is no older than what the viewer has seen.
LEMMA DeliverStep ==
  ASSUME NEW k \in 0..MaxContainers, TailOk(k), NEW s \in Slots, R!Deliver(s)
  PROVE  /\ \E m \in 0..MaxContainers : TailOk(m)'
         /\ reader.last.ctr < reader'.last.ctr
            \/ (/\ reader.last.ctr = reader'.last.ctr
                /\ reader.last.second <= reader'.last.second)
<1>0. TailShape /\ OneStream /\ TailOrder /\ Newest(k) /\ TailProgress(k)
  BY DEF TailOk
<1>1. PICK st \in R!StreamType : st = streams[s]  BY <1>0 DEF TailShape
<1>2. /\ \/ st.state = "open" /\ st.next <= LinesOf(st.ctr)
         \/ st.state = "ending" /\ st.next <= st.upto
      /\ reader' = IF reader.pc = "live"
                      THEN [reader EXCEPT !.last =
                              [ctr |-> st.ctr, second |-> R!Second(log[st.ctr][st.next])]]
                      ELSE reader
      /\ streams' = [streams EXCEPT ![s].next = @ + 1]
      /\ UNCHANGED <<clock, containers, log, tail, job, scan, lost>>
  BY <1>1 DEF R!Deliver, LinesOf
<1>3. st.ctr \in 1..MaxContainers /\ containers[st.ctr] # "unmade" /\ st.next \in Nat
  BY <1>0, <1>1, <1>2 DEF OneStream, Held, R!StreamType
<1>4. PICK c \in 1..MaxContainers, i \in Nat : c = st.ctr /\ i = st.next  BY <1>3
<1>5. i \in 1..LinesOf(c) /\ reader.last.ctr <= c
      /\ (reader.last.ctr = c =>
            \A j \in 1..LinesOf(c) : i <= j => reader.last.second <= R!Second(log[c][j]))
  <2>1. LinesOf(c) \in Nat /\ st.upto \in Nat  BY <1>0 DEF TailShape, LinesOf, R!StreamType
  <2>2. /\ i # 0 /\ st.upto <= LinesOf(c) /\ reader.last.ctr <= c
        /\ reader.last.ctr = c =>
             \A j \in 1..LinesOf(c) : i <= j => reader.last.second <= R!Second(log[c][j])
    BY <1>0, <1>1, <1>2, <1>4 DEF TailOrder, Publishes
  <2> QED BY <1>2, <1>4, <2>1, <2>2
<1>6. log[c][i] \in Nat /\ log[c][i] <= clock /\ LinesOf(c) \in Nat
      /\ \A j \in 1..LinesOf(c) : i <= j => log[c][j] \in Nat /\ log[c][i] <= log[c][j]
  BY <1>0, <1>5 DEF TailShape, TailOrder, LinesOf
<1>7. /\ R!Second(log[c][i]) \in Nat /\ R!Second(log[c][i]) <= R!Second(clock)
      /\ \A j \in 1..LinesOf(c) : i <= j => R!Second(log[c][i]) <= R!Second(log[c][j])
  <2>1. clock \in Nat  BY <1>0 DEF TailShape
  <2> QED BY <1>6, <2>1, SecondFacts
<1>8. PICK z \in Nat : z = R!Second(log[c][i])  BY <1>7
<1>9. /\ reader' \in ReaderType /\ reader'.pc = reader.pc
      /\ (reader' = reader \/ (reader'.last.ctr = c /\ reader'.last.second = z))
  <2>1. PICK v \in ReaderType : v = reader  BY <1>0 DEF TailShape
  <2>2. PICK y : y = [ctr |-> c, second |-> z]  OBVIOUS
  <2>3. y \in [ctr : 0..MaxContainers, second : Nat] /\ y.ctr = c /\ y.second = z  BY <2>2
  <2>4. reader' = v \/ reader' = [v EXCEPT !.last = y]  BY <1>2, <1>4, <1>8, <2>1, <2>2
  <2> QED BY <2>1, <2>3, <2>4 DEF ReaderType
<1>10. /\ streams' \in [Slots -> R!StreamType]
       /\ \A r \in Slots : r # s => streams'[r] = streams[r]
       /\ streams'[s].ctr = c /\ streams'[s].next = i + 1 /\ streams'[s].upto = st.upto
       /\ streams'[s].state = st.state
  <2>1. PICK y : y = [st EXCEPT !.next = i + 1]  OBVIOUS
  <2>2. y \in R!StreamType /\ y.ctr = c /\ y.next = i + 1 /\ y.upto = st.upto /\ y.state = st.state
    BY <1>4, <2>1 DEF R!StreamType
  <2>3. streams' = [streams EXCEPT ![s] = y]  BY <1>0, <1>1, <1>2, <1>4, <2>1 DEF TailShape
  <2> QED BY <1>0, <2>2, <2>3 DEF TailShape
<1>11. TailShape'  BY <1>0, <1>2, <1>9, <1>10 DEF TailShape
<1>12. OneStream'
  <2>1. /\ \A r \in Slots : (streams'[r].state = "closed" <=> streams[r].state = "closed")
        /\ \A r \in Slots : (streams'[r].state \in {"open", "ending"} <=> Publishes(r))
        /\ \A r \in Slots : Held(r) => streams'[r].ctr = streams[r].ctr
        /\ \A r \in Slots : ~Held(r) => streams'[r] = streams[r]
    BY <1>1, <1>2, <1>4, <1>10 DEF Held, Publishes
  <2>2. tail' = tail /\ containers' = containers  BY <1>2
  <2> QED BY <1>0, <2>1, <2>2, SameStreams
<1>13. reader.last.ctr \in Nat /\ reader.last.second \in Nat /\ s = tail
  BY <1>0, <1>1, <1>2 DEF TailShape, ReaderType, OneStream, Publishes
<1>14. TailOrder'
  <2>1. reader'.last.second <= R!Second(clock)  BY <1>0, <1>7, <1>8, <1>9 DEF TailOrder
  <2>2. \A r \in Slots : streams'[r].state \in {"open", "ending"} => r = s
    BY <1>0, <1>10, <1>13 DEF OneStream, Publishes
  <2>3. st.upto <= LinesOf(c)
    BY <1>0, <1>1, <1>2, <1>4 DEF TailOrder, Publishes
  <2>4. /\ i + 1 # 0 /\ reader'.last.ctr <= c
        /\ reader'.last.ctr = c =>
             \A j \in 1..LinesOf(c) : i + 1 <= j => reader'.last.second <= R!Second(log[c][j])
    BY <1>5, <1>6, <1>7, <1>8, <1>9, <1>13
  <2>5. scan.pc # "attaching"  BY <1>0, <1>1, <1>2 DEF TailProgress, Held
  <2>6. \A r \in Slots : Publishes(r)' =>
          /\ streams'[r].next # 0 /\ streams'[r].upto <= LinesOf(streams'[r].ctr)
          /\ reader'.last.ctr <= streams'[r].ctr
          /\ reader'.last.ctr = streams'[r].ctr =>
               \A j \in 1..LinesOf(streams'[r].ctr) :
                 streams'[r].next <= j
                   => reader'.last.second <= R!Second(log[streams'[r].ctr][j])
    BY <1>10, <2>2, <2>3, <2>4 DEF Publishes
  <2> QED BY <1>0, <1>2, <2>1, <2>5, <2>6 DEF TailOrder, LinesOf
<1>15. c <= k  BY <1>0, <1>3, <1>4 DEF Newest
<1>16. Newest(k)'  BY <1>0, <1>2, <1>9, <1>15 DEF Newest, Alive
<1>17. TailProgress(k)'
  <2>1. tail # 0  BY <1>13 DEF Slots
  <2>2. job.pc = "idle" /\ scan.pc = "idle"  BY <1>0, <2>1 DEF TailProgress
  <2>3. streams'[tail].ctr = streams[tail].ctr /\ streams'[tail].state = streams[tail].state
    BY <1>1, <1>4, <1>10, <1>13
  <2> QED BY <1>0, <1>2, <2>1, <2>2, <2>3 DEF TailProgress, Alive, Held
<1> QED BY <1>5, <1>7, <1>8, <1>9, <1>11, <1>12, <1>13, <1>14, <1>16, <1>17 DEF TailOk

\* A stream of its own ended: its container is followed by no other, and no registration
\* but its own goes away.
LEMMA CloseStep ==
  ASSUME NEW k \in 0..MaxContainers, TailOk(k), NEW s \in Slots, Held(s), R!Unregister(s),
         streams' = [streams EXCEPT ![s] = R!Closed],
         streams[s].state = "open" => streams[s].ctr \in lost',
         lost \subseteq lost', lost' \subseteq 1..MaxContainers,
         UNCHANGED <<clock, containers, log, job, scan, reader>>
  PROVE  \E m \in 0..MaxContainers : TailOk(m)'
<1>0. TailShape /\ OneStream /\ TailOrder /\ Newest(k) /\ TailProgress(k)
  BY DEF TailOk
<1>1. /\ streams' \in [Slots -> R!StreamType] /\ streams'[s] = R!Closed
      /\ streams'[s].state = "closed" /\ \A r \in Slots : r # s => streams'[r] = streams[r]
  BY <1>0, ClosedType DEF TailShape
<1>2. tail' = IF tail = s THEN 0 ELSE tail
  <2>1. CASE tail = 0  BY <2>1 DEF R!Unregister, Slots
  <2>2. CASE tail # 0
    <3>1. tail \in Slots /\ Held(tail)
      BY <1>0, <2>2 DEF TailShape, Slots, OneStream, Held, Publishes
    <3>2. streams[tail].ctr = streams[s].ctr <=> tail = s  BY <1>0, <3>1 DEF OneStream
    <3> QED BY <2>2, <3>2 DEF R!Unregister
  <2> QED BY <2>1, <2>2
<1>3. TailShape'
  <2>1. tail' \in 0..(MaxContainers + 1)  BY <1>0, <1>2, LogsAssumption DEF TailShape
  <2> QED BY <1>0, <1>1, <2>1 DEF TailShape
<1>4. OneStream'
  <2>1. \A r \in Slots : ~Held(r)' => streams'[r] = R!Closed
    BY <1>0, <1>1 DEF OneStream, Held
  <2>2. \A r \in Slots :
          Held(r)' => r # s /\ Held(r) /\ streams'[r] = streams[r]
    BY <1>1 DEF Held
  <2>3. \A r \in Slots : Held(r)' => streams'[r].ctr # 0 /\ containers[streams'[r].ctr] # "unmade"
    BY <1>0, <2>2 DEF OneStream
  <2>4. \A q, r \in Slots :
          Held(q)' /\ Held(r)' /\ streams'[q].ctr = streams'[r].ctr => q = r
    BY <1>0, <2>2 DEF OneStream
  <2>5. \A r \in Slots : streams'[r].state \in {"open", "ending"} => r = tail'
    BY <1>0, <1>1, <1>2 DEF OneStream, Publishes
  <2>6. tail' # 0 => streams'[tail'].state \in {"open", "ending"}
    BY <1>0, <1>1, <1>2 DEF OneStream, Publishes, TailShape, Slots
  <2> QED BY <2>1, <2>3, <2>4, <2>5, <2>6 DEF OneStream, Held, Publishes
<1>5. TailOrder'
  <2>1. \A r \in Slots : streams'[r].state \in {"open", "ending"} =>
          streams'[r] = streams[r] /\ Publishes(r)
    BY <1>1 DEF Publishes
  <2> QED BY <1>0, <2>1 DEF TailOrder, Publishes, LinesOf
<1>6. Newest(k)'  BY <1>0 DEF Newest, Alive
<1>7. TailProgress(k)'
  <2>1. ASSUME job.pc = "idle", scan.pc = "idle", NEW c \in 1..MaxContainers,
               containers[c] = "running", c \notin lost'
        PROVE  tail' # 0 /\ streams'[tail'].ctr = c /\ streams'[tail'].state = "open"
    <3>1. tail # 0 /\ streams[tail].ctr = c /\ streams[tail].state = "open"
      BY <1>0, <2>1 DEF TailProgress
    <3>2. tail # s  BY <2>1, <3>1
    <3> QED BY <1>0, <1>1, <1>2, <3>1, <3>2 DEF TailShape, Slots
  <2>2. \A r \in Slots : streams'[r].state # "closed" => Held(r) /\ streams'[r] = streams[r]
    BY <1>1 DEF Held
  <2> QED BY <1>0, <1>2, <2>1, <2>2 DEF TailProgress, Alive, Held
<1> QED BY <1>3, <1>4, <1>5, <1>6, <1>7 DEF TailOk

\* A stream ends with its container.
LEMMA EndsStep ==
  ASSUME NEW k \in 0..MaxContainers, TailOk(k), NEW s \in Slots, R!StreamEnds(s)
  PROVE  \E m \in 0..MaxContainers : TailOk(m)'
<1>0. TailShape /\ OneStream /\ TailOrder /\ Newest(k) /\ TailProgress(k)
  BY DEF TailOk
<1>1. /\ Held(s) /\ R!Unregister(s) /\ streams' = [streams EXCEPT ![s] = R!Closed]
      /\ UNCHANGED <<clock, containers, log, job, scan, reader, lost>>
  BY DEF R!StreamEnds, Held
<1>2. streams[s].state # "open"  BY DEF R!StreamEnds
<1>3. lost \subseteq lost' /\ lost' \subseteq 1..MaxContainers  BY <1>0, <1>1 DEF TailShape
<1> QED BY <1>1, <1>2, <1>3, CloseStep

\* A stream breaks.
LEMMA BreaksStep ==
  ASSUME NEW k \in 0..MaxContainers, TailOk(k), NEW s \in Slots, R!StreamBreaks(s)
  PROVE  \E m \in 0..MaxContainers : TailOk(m)'
<1>0. TailShape /\ OneStream
  BY DEF TailOk
<1>1. /\ Held(s) /\ R!Unregister(s) /\ streams' = [streams EXCEPT ![s] = R!Closed]
      /\ lost' = lost \cup {streams[s].ctr}
      /\ UNCHANGED <<clock, containers, log, job, scan, reader>>
  BY DEF R!StreamBreaks, Held
<1>2. streams[s].ctr \in 1..MaxContainers
  BY <1>0, <1>1 DEF OneStream, TailShape, R!StreamType
<1>3. lost \subseteq lost' /\ lost' \subseteq 1..MaxContainers /\ streams[s].ctr \in lost'
  BY <1>0, <1>1, <1>2 DEF TailShape
<1> QED BY <1>1, <1>3, CloseStep

\* What stopping the tail leaves is as it should be whatever the job goes on to.
LEMMA StoppedStreams ==
  ASSUME NEW k \in 0..MaxContainers, TailOk(k), R!StopTail, containers' = containers
  PROVE  OneStream' /\ \A s \in Slots : ~Publishes(s)'
<1>0. TailShape /\ OneStream  BY DEF TailOk
<1>1. /\ streams' \in [Slots -> R!StreamType] /\ tail' = 0
      /\ \A s \in Slots :
              IF s = tail
                THEN streams'[s].ctr = streams[s].ctr /\ streams'[s].state = "closing"
                ELSE streams'[s] = streams[s]
  BY <1>0, StoppedTail
<1>2. \A s \in Slots : streams'[s].state \notin {"open", "ending"}
  BY <1>0, <1>1 DEF OneStream, Publishes
<1>3. \A s \in Slots : streams'[s].state # "closed" => Held(s) /\ streams'[s].ctr = streams[s].ctr
  BY <1>0, <1>1 DEF OneStream, Held, Publishes, Slots
<1>4. \A s \in Slots : streams'[s].state = "closed" => streams'[s] = R!Closed
  BY <1>0, <1>1 DEF OneStream, Held
<1>5. \A s \in Slots :
        streams'[s].state # "closed" =>
          streams'[s].ctr # 0 /\ containers'[streams'[s].ctr] # "unmade"
  BY <1>0, <1>3 DEF OneStream
<1>6. \A s, r \in Slots :
        streams'[s].state # "closed" /\ streams'[r].state # "closed"
          /\ streams'[s].ctr = streams'[r].ctr => s = r
  BY <1>0, <1>3 DEF OneStream
<1> QED BY <1>1, <1>2, <1>4, <1>5, <1>6 DEF OneStream, Held, Publishes

\* A deployment stops the old container, and its tail.
LEMMA StopStep ==
  ASSUME NEW k \in 0..MaxContainers, TailOk(k), R!StopOld, ~raced'
  PROVE  \E m \in 0..MaxContainers : TailOk(m)'
<1>0. TailShape /\ OneStream /\ TailOrder /\ Newest(k) /\ TailProgress(k)
  BY DEF TailOk
<1>1. /\ job.pc = "idle" /\ R!StopTail /\ scan.pc = "idle"
      /\ job' = [job EXCEPT !.pc = "stopped"]
      /\ UNCHANGED <<clock, containers, log, scan, reader, lost>>
  BY DEF R!StopOld
<1>2. \E c \in 1..MaxContainers : containers[c] = "unmade"
  BY DEF R!StopOld, R!Made, R!Containers
<1>3. k # MaxContainers  BY <1>0, <1>2 DEF Newest
<1>4. job' \in JobType /\ job'.pc = "stopped"  BY <1>0, <1>1 DEF TailShape, JobType
<1>5. OneStream' /\ \A s \in Slots : ~Publishes(s)'  BY <1>1, StoppedStreams
<1>6. streams' \in [Slots -> R!StreamType] /\ tail' = 0  BY <1>0, <1>1, StoppedTail
<1>7. TailShape'  BY <1>0, <1>1, <1>4, <1>6, LogsAssumption DEF TailShape
<1>8. TailOrder'  BY <1>0, <1>1, <1>5 DEF TailOrder, LinesOf
<1>9. Newest(k)'  BY <1>0, <1>1 DEF Newest, Alive
<1>10. TailProgress(k)'  BY <1>0, <1>1, <1>3, <1>4, <1>6 DEF TailProgress, Alive, Held
<1> QED BY <1>5, <1>7, <1>8, <1>9, <1>10 DEF TailOk

\* The deployment asks for the stream of the container it has started.
LEMMA JobAttachesStep ==
  ASSUME NEW k \in 0..MaxContainers, TailOk(k), R!JobAttaches
  PROVE  \E m \in 0..MaxContainers : TailOk(m)'
<1>0. TailShape /\ OneStream /\ TailOrder /\ Newest(k) /\ TailProgress(k)
  BY DEF TailOk
<1>1. PICK n0 \in Nat : n0 = IF R!Second(clock) = 0 THEN 0 ELSE R!Second(clock) - 1
  BY <1>0, SecondFacts DEF TailShape
<1>2. /\ job.pc = "started" /\ R!StopTail
      /\ job' = [job EXCEPT !.pc = "attaching", !.since = n0]
      /\ UNCHANGED <<clock, containers, log, scan, reader, lost>>
  BY <1>1 DEF R!JobAttaches
<1>3. job' \in JobType /\ job'.pc = "attaching" /\ job'.ctr = job.ctr
  BY <1>0, <1>2 DEF TailShape, JobType
<1>4. tail = 0  BY <1>0, <1>2 DEF TailProgress
<1>5. streams' = streams /\ tail' = 0  BY <1>2, <1>4 DEF R!StopTail
<1>6. TailShape'  BY <1>0, <1>2, <1>3, <1>4, <1>5 DEF TailShape
<1>7. OneStream'  BY <1>0, <1>2, <1>4, <1>5 DEF OneStream, Held, Publishes
<1>8. TailOrder'  BY <1>0, <1>2, <1>5 DEF TailOrder, LinesOf, Publishes
<1>9. Newest(k)'  BY <1>0, <1>2 DEF Newest, Alive
<1>10. TailProgress(k)'  BY <1>0, <1>2, <1>3, <1>5 DEF TailProgress, Alive, Held
<1> QED BY <1>6, <1>7, <1>8, <1>9, <1>10 DEF TailOk

\* The startup scan asks for the stream of the container it has found.
LEMMA ScanAttachesStep ==
  ASSUME NEW k \in 0..MaxContainers, TailOk(k), R!ScanAttaches
  PROVE  \E m \in 0..MaxContainers : TailOk(m)'
<1>0. TailShape /\ OneStream /\ TailOrder /\ Newest(k) /\ TailProgress(k)
  BY DEF TailOk
<1>1. PICK n0 \in Nat : n0 = R!Second(clock)
  BY <1>0, SecondFacts DEF TailShape
<1>2. /\ scan.pc = "listed" /\ R!StopTail
      /\ scan' = [scan EXCEPT !.pc = "attaching", !.since = n0]
      /\ UNCHANGED <<clock, containers, log, job, reader, lost>>
  BY <1>1 DEF R!ScanAttaches, R!SinceNow
<1>3. scan' \in ScanType /\ scan'.pc = "attaching" /\ scan'.ctr = scan.ctr /\ scan'.since = n0
  BY <1>0, <1>2 DEF TailShape, ScanType
<1>4. tail = 0  BY <1>0, <1>2 DEF TailProgress
<1>5. streams' = streams /\ tail' = 0  BY <1>2, <1>4 DEF R!StopTail
<1>6. TailShape'  BY <1>0, <1>2, <1>3, <1>4, <1>5 DEF TailShape
<1>7. OneStream'  BY <1>0, <1>2, <1>4, <1>5 DEF OneStream, Held, Publishes
<1>8. TailOrder'  BY <1>0, <1>1, <1>2, <1>3, <1>5 DEF TailOrder, LinesOf, Publishes
<1>9. Newest(k)'  BY <1>0, <1>2 DEF Newest, Alive
<1>10. TailProgress(k)'  BY <1>0, <1>2, <1>3, <1>5 DEF TailProgress, Alive, Held
<1> QED BY <1>6, <1>7, <1>8, <1>9, <1>10 DEF TailOk

\* A deployment removes the old containers.
LEMMA RemoveStep ==
  ASSUME NEW k \in 0..MaxContainers, TailOk(k), R!RemoveOld
  PROVE  \E m \in 0..MaxContainers : TailOk(m)'
<1>0. TailShape /\ OneStream /\ TailOrder /\ Newest(k) /\ TailProgress(k)
  BY DEF TailOk
<1>1. /\ job.pc = "stopped" /\ job' = [job EXCEPT !.pc = "removed"]
      /\ streams' = R!Ended(R!Made)
      /\ UNCHANGED <<clock, log, tail, scan, reader, lost>>
  BY DEF R!RemoveOld
<1>2. /\ containers' \in [1..MaxContainers -> CtrStates]
      /\ \A c \in 1..MaxContainers :
           containers'[c] = IF containers[c] # "unmade" THEN "removed" ELSE containers[c]
  BY <1>0 DEF R!RemoveOld, R!Made, R!Containers, TailShape, CtrStates
<1>3. tail = 0 /\ scan.pc = "idle" /\ k # MaxContainers  BY <1>0, <1>1 DEF TailProgress
<1>4. \A s \in Slots : streams[s].state # "open"
  BY <1>0, <1>3 DEF OneStream, Publishes, Slots
<1>5. streams' = streams
  BY <1>0, <1>1, <1>4 DEF R!Ended, TailShape
<1>6. job' \in JobType /\ job'.pc = "removed"  BY <1>0, <1>1 DEF TailShape, JobType
<1>7. TailShape'  BY <1>0, <1>1, <1>2, <1>5, <1>6 DEF TailShape
<1>8. OneStream'
  <2>1. \A c \in 1..MaxContainers : containers[c] # "unmade" => containers'[c] # "unmade"
    BY <1>2
  <2>2. /\ \A s \in Slots : (streams'[s].state = "closed" <=> streams[s].state = "closed")
        /\ \A s \in Slots : (streams'[s].state \in {"open", "ending"} <=> Publishes(s))
        /\ \A s \in Slots : Held(s) => streams'[s].ctr = streams[s].ctr
        /\ \A s \in Slots : ~Held(s) => streams'[s] = streams[s]
        /\ tail' = tail
    BY <1>1, <1>5 DEF Publishes
  <2> QED BY <1>0, <2>1, <2>2, SameStreams
<1>9. TailOrder'  BY <1>0, <1>1, <1>5 DEF TailOrder, LinesOf, Publishes
<1>10. Newest(k)'
  BY <1>0, <1>1, <1>2 DEF Newest, Alive
<1>11. TailProgress(k)'
  BY <1>0, <1>1, <1>2, <1>3, <1>5, <1>6 DEF TailProgress, Alive, Held
<1> QED BY <1>7, <1>8, <1>9, <1>10, <1>11 DEF TailOk

\* Nothing under way.
LEMMA IdleType == R!Idle \in JobType /\ R!Idle \in ScanType /\ R!Idle.pc = "idle"
BY LogsAssumption DEF R!Idle, JobType, ScanType

\* The new container is the newest, and no stream or line is of it yet.
LEMMA StartNewStep ==
  ASSUME NEW k \in 0..MaxContainers, TailOk(k), R!StartNew
  PROVE  \E m \in 0..MaxContainers : TailOk(m)'
<1>0. TailShape /\ OneStream /\ TailOrder /\ Newest(k) /\ TailProgress(k)
  BY DEF TailOk
<1>1. job.pc = "removed" /\ k # MaxContainers /\ tail = 0 /\ scan.pc = "idle"
      /\ \A c \in 1..MaxContainers : ~Alive(c)
  BY <1>0 DEF R!StartNew, TailProgress
<1>2. Cardinality(R!Made) = k
  <2>1. R!Made = 1..k  BY <1>0, LogsAssumption DEF R!Made, R!Containers, Newest
  <2> QED BY <2>1, FS_Interval
<1>3. PICK c \in 1..MaxContainers : c = k + 1  BY <1>1, LogsAssumption
<1>4. UNCHANGED <<clock, log, streams, tail, scan, reader, lost>>
  BY DEF R!StartNew
<1>5. PICK b \in {"running", "removed"} :
        /\ containers' = [containers EXCEPT ![c] = b]
        /\ job' = IF b = "running" THEN [job EXCEPT !.pc = "started", !.ctr = c] ELSE R!Idle
  BY <1>2, <1>3 DEF R!StartNew, R!Cardinality, Cardinality
<1>6. /\ job' \in JobType
      /\ b = "running" => job'.pc = "started" /\ job'.ctr = c
      /\ b = "removed" => job'.pc = "idle"
  <2>1. PICK j \in JobType : j = job  BY <1>0 DEF TailShape
  <2>2. CASE b = "running"
    <3>1. job' = [j EXCEPT !.pc = "started", !.ctr = c]  BY <1>5, <2>1, <2>2
    <3>2. PICK a \in 0..MaxContainers : a = c  BY LogsAssumption
    <3>3. job' = [j EXCEPT !.pc = "started", !.ctr = a]  BY <3>1, <3>2
    <3>4. job' \in JobType /\ job'.pc = "started" /\ job'.ctr = a  BY <2>1, <3>3 DEF JobType
    <3> QED BY <2>2, <3>2, <3>4
  <2>3. CASE b = "removed"  BY <1>5, <2>3, IdleType
  <2> QED BY <2>2, <2>3
<1>7. containers' \in [1..MaxContainers -> CtrStates]
      /\ \A a \in 1..MaxContainers : containers'[a] = IF a = c THEN b ELSE containers[a]
  BY <1>0, <1>5 DEF TailShape, CtrStates
<1>8. TailShape'  BY <1>0, <1>4, <1>6, <1>7 DEF TailShape
<1>9. OneStream'
  <2>1. \A a \in 1..MaxContainers : containers[a] # "unmade" => containers'[a] # "unmade"
    BY <1>7
  <2>2. /\ \A s \in Slots : (streams'[s].state = "closed" <=> streams[s].state = "closed")
        /\ \A s \in Slots : (streams'[s].state \in {"open", "ending"} <=> Publishes(s))
        /\ \A s \in Slots : Held(s) => streams'[s].ctr = streams[s].ctr
        /\ \A s \in Slots : ~Held(s) => streams'[s] = streams[s]
        /\ tail' = tail
    BY <1>4 DEF Publishes
  <2> QED BY <1>0, <2>1, <2>2, SameStreams
<1>10. TailOrder'  BY <1>0, <1>4 DEF TailOrder, LinesOf, Publishes
<1>11. Newest(c)'
  <2>1. \A a \in 1..MaxContainers : containers'[a] # "unmade" <=> a <= c
    BY <1>0, <1>3, <1>7 DEF Newest
  <2>2. \A a \in 1..MaxContainers : containers'[a] \in {"running", "exited"} => a = c
    BY <1>1, <1>7 DEF Alive
  <2>3. \A a \in 1..MaxContainers : containers'[a] # "exited"
    BY <1>1, <1>7 DEF Alive
  <2>4. reader.last.ctr <= c  BY <1>0, <1>3 DEF Newest, TailShape, ReaderType
  <2> QED BY <1>4, <2>1, <2>2, <2>3, <2>4 DEF Newest, Alive
<1>12. TailProgress(c)'
  <2>1. \A s \in Slots : Held(s) => streams[s].ctr # c
    BY <1>0, <1>3 DEF OneStream, Newest, TailShape, R!StreamType
  <2>2. reader.last.ctr < c  BY <1>0, <1>3 DEF Newest, TailShape, ReaderType
  <2>3. CASE b = "running"
    BY <1>0, <1>1, <1>3, <1>4, <1>6, <1>7, <2>1, <2>2, <2>3 DEF TailProgress, Held
  <2>4. CASE b = "removed"
    <3>1. \A a \in 1..MaxContainers : containers'[a] # "running"
      BY <1>1, <1>7, <2>4 DEF Alive
    <3> QED BY <1>0, <1>1, <1>4, <1>6, <2>4, <3>1 DEF TailProgress
  <2> QED BY <2>3, <2>4
<1> QED BY <1>8, <1>9, <1>10, <1>11, <1>12 DEF TailOk

\* A stream is registered of the newest container, of which there was none: what it
\* publishes comes after what the viewer has seen.
LEMMA RegisterStep ==
  ASSUME NEW k \in 0..MaxContainers, TailOk(k), NEW since \in Nat, k # 0,
         R!Register(k, since), tail = 0, containers[k] # "removed",
         \A s \in Slots : Held(s) => streams[s].ctr # k,
         reader.last.ctr = k => reader.last.second <= since,
         job' \in JobType, scan' \in ScanType, job'.pc = "idle", scan'.pc = "idle",
         lost' = IF containers[k] = "running" THEN lost \ {k} ELSE lost,
         UNCHANGED <<clock, containers, log, reader>>
  PROVE  \E m \in 0..MaxContainers : TailOk(m)'
<1>0. TailShape /\ OneStream /\ TailOrder /\ Newest(k) /\ TailProgress(k)
  BY DEF TailOk
<1>1. PICK s \in Slots, st \in R!StreamType :
           /\ streams[s] = R!Closed /\ streams' = [streams EXCEPT ![s] = st] /\ tail' = s
           /\ st.ctr = k /\ st.next # 0
           /\ st.state = IF containers[k] = "running" THEN "open" ELSE "ending"
           /\ st.upto <= LinesOf(k)
           /\ \A i \in 1..LinesOf(k) : st.next <= i => since <= R!Second(log[k][i])
  <2>1. k \in 1..MaxContainers  BY LogsAssumption
  <2> QED BY <1>0, <2>1, Registered
<1>2. /\ streams' \in [Slots -> R!StreamType] /\ streams'[s] = st
      /\ \A r \in Slots : r # s => streams'[r] = streams[r]
  BY <1>0, <1>1 DEF TailShape
<1>3. k \in 1..MaxContainers /\ containers[k] # "unmade"  BY <1>0, LogsAssumption DEF Newest
<1>4. \A r \in Slots : streams[r].state \notin {"open", "ending"}
  BY <1>0 DEF OneStream, Publishes, Slots
<1>5. TailShape'
  <2>1. tail' \in 0..(MaxContainers + 1)  BY <1>1, LogsAssumption DEF Slots
  <2>2. lost' \subseteq 1..MaxContainers  BY <1>0 DEF TailShape
  <2> QED BY <1>0, <1>2, <2>1, <2>2 DEF TailShape
<1>6. st.state \in {"open", "ending"} /\ (st.state = "open" <=> containers[k] = "running")
  BY <1>1
<1>7. OneStream'
  <2>1. \A r \in Slots : streams'[r].state = "closed" => streams'[r] = R!Closed
    BY <1>0, <1>2, <1>6 DEF OneStream, Held
  <2>2. \A r \in Slots :
          streams'[r].state # "closed"
            => streams'[r].ctr # 0 /\ containers[streams'[r].ctr] # "unmade"
    BY <1>0, <1>1, <1>2, <1>3 DEF OneStream, Held
  <2>3. \A q, r \in Slots :
          streams'[q].state # "closed" /\ streams'[r].state # "closed"
            /\ streams'[q].ctr = streams'[r].ctr => q = r
    BY <1>0, <1>1, <1>2 DEF OneStream, Held
  <2>4. \A r \in Slots : streams'[r].state \in {"open", "ending"} => r = tail'
    BY <1>1, <1>2, <1>4
  <2>5. streams'[tail'].state \in {"open", "ending"}  BY <1>1, <1>2, <1>6
  <2> QED BY <2>1, <2>2, <2>3, <2>4, <2>5 DEF OneStream, Held, Publishes
<1>8. TailOrder'
  <2>1. \A i \in 1..LinesOf(k) : log[k][i] \in Nat  BY <1>0, <1>3 DEF TailShape, LinesOf
  <2>2. \A i \in 1..LinesOf(k) : R!Second(log[k][i]) \in Nat  BY <2>1, SecondFacts
  <2>3. reader.last.ctr <= k /\ reader.last.second \in Nat
    BY <1>0 DEF Newest, TailShape, ReaderType
  <2>4. reader.last.ctr = k =>
          \A i \in 1..LinesOf(k) : st.next <= i => reader.last.second <= R!Second(log[k][i])
    BY <1>1, <2>2, <2>3
  <2>5. \A r \in Slots : Publishes(r)' =>
          /\ streams'[r].next # 0 /\ streams'[r].upto <= LinesOf(streams'[r].ctr)
          /\ reader.last.ctr <= streams'[r].ctr
          /\ reader.last.ctr = streams'[r].ctr =>
               \A i \in 1..LinesOf(streams'[r].ctr) :
                 streams'[r].next <= i
                   => reader.last.second <= R!Second(log[streams'[r].ctr][i])
    BY <1>1, <1>2, <1>4, <2>3, <2>4 DEF Publishes
  <2> QED BY <1>0, <2>5 DEF TailOrder, LinesOf
<1>9. Newest(k)'
  BY <1>0 DEF Newest, Alive
<1>10. TailProgress(k)'
  <2>1. ASSUME NEW c \in 1..MaxContainers, containers[c] = "running"
        PROVE  tail' # 0 /\ streams'[tail'].ctr = c /\ streams'[tail'].state = "open"
    <3>1. c = k  BY <1>0, <2>1 DEF Newest, Alive
    <3> QED BY <1>1, <1>2, <2>1, <3>1 DEF Slots
  <2> QED BY <1>0, <2>1 DEF TailProgress
<1> QED BY <1>5, <1>7, <1>8, <1>9, <1>10 DEF TailOk

\* The deployment gets its stream.
LEMMA JobAttachedStep ==
  ASSUME NEW k \in 0..MaxContainers, TailOk(k), R!JobAttached
  PROVE  \E m \in 0..MaxContainers : TailOk(m)'
<1>0. TailShape /\ OneStream /\ TailOrder /\ Newest(k) /\ TailProgress(k)
  BY DEF TailOk
<1>1. job.pc = "attaching" /\ R!Register(job.ctr, job.since) /\ job' = R!Idle
      /\ lost' = (IF job.ctr \in R!Running THEN lost \ {job.ctr} ELSE lost)
      /\ UNCHANGED <<clock, containers, log, scan, reader>>
  BY DEF R!JobAttached
<1>2. /\ job.ctr = k /\ k # 0 /\ containers[k] # "removed" /\ tail = 0 /\ scan.pc = "idle"
      /\ \A s \in Slots : Held(s) => streams[s].ctr # k
      /\ reader.last.ctr < k
  BY <1>0, <1>1 DEF TailProgress
<1>3. reader.last.ctr # k /\ k \in 1..MaxContainers
  BY <1>0, <1>2, LogsAssumption DEF TailShape, ReaderType
<1>4. lost' = IF containers[k] = "running" THEN lost \ {k} ELSE lost
  BY <1>1, <1>2, <1>3 DEF R!Running, R!Containers
<1>5. job.since \in Nat /\ R!Register(k, job.since)
  BY <1>0, <1>1, <1>2 DEF TailShape, JobType
<1>6. job' \in JobType /\ scan' \in ScanType /\ job'.pc = "idle" /\ scan'.pc = "idle"
  BY <1>0, <1>1, <1>2, IdleType DEF TailShape
<1> QED BY <1>1, <1>2, <1>3, <1>4, <1>5, <1>6, RegisterStep

\* The startup scan gets its stream.
LEMMA ScanAttachedStep ==
  ASSUME NEW k \in 0..MaxContainers, TailOk(k), R!ScanAttached
  PROVE  \E m \in 0..MaxContainers : TailOk(m)'
<1>0. TailShape /\ OneStream /\ TailOrder /\ Newest(k) /\ TailProgress(k)
  BY DEF TailOk
<1>1. scan.pc = "attaching" /\ R!Register(scan.ctr, scan.since) /\ scan' = R!Idle
      /\ containers[scan.ctr] # "removed"
      /\ lost' = (IF scan.ctr \in R!Running THEN lost \ {scan.ctr} ELSE lost)
      /\ UNCHANGED <<clock, containers, log, job, reader>>
  BY DEF R!ScanAttached
<1>2. /\ scan.ctr = k /\ k # 0 /\ tail = 0 /\ job.pc = "idle"
      /\ \A s \in Slots : Held(s) => streams[s].ctr # k
      /\ reader.last.ctr = k => reader.last.second <= scan.since
  BY <1>0, <1>1 DEF TailProgress, TailOrder
<1>3. k \in 1..MaxContainers  BY <1>2, LogsAssumption
<1>4. lost' = IF containers[k] = "running" THEN lost \ {k} ELSE lost
  BY <1>1, <1>2, <1>3 DEF R!Running, R!Containers
<1>5. scan.since \in Nat /\ R!Register(k, scan.since) /\ containers[k] # "removed"
  BY <1>0, <1>1, <1>2 DEF TailShape, ScanType
<1>6. job' \in JobType /\ scan' \in ScanType /\ job'.pc = "idle" /\ scan'.pc = "idle"
  BY <1>0, <1>1, <1>2, IdleType DEF TailShape
<1> QED BY <1>1, <1>2, <1>3, <1>4, <1>5, <1>6, RegisterStep

\* The process's own steps with nothing registered, and no line for the viewer.
LEMMA QuietStep ==
  ASSUME NEW k \in 0..MaxContainers, TailOk(k), TailProgress(k)',
         job' \in JobType, scan' \in ScanType, lost' \subseteq 1..MaxContainers,
         lost \subseteq lost',
         scan'.pc = "attaching" => scan' = scan,
         UNCHANGED <<clock, containers, log, streams, tail, reader>>
  PROVE  \E m \in 0..MaxContainers : TailOk(m)'
<1>0. TailShape /\ OneStream /\ TailOrder /\ Newest(k)
  BY DEF TailOk
<1>1. TailShape'  BY <1>0 DEF TailShape
<1>2. OneStream'  BY <1>0 DEF OneStream, Held, Publishes
<1>3. TailOrder'  BY <1>0 DEF TailOrder, Publishes, LinesOf
<1>4. Newest(k)'  BY <1>0 DEF Newest, Alive
<1> QED BY <1>1, <1>2, <1>3, <1>4 DEF TailOk

\* The deployment gets no stream.
LEMMA JobFailsStep ==
  ASSUME NEW k \in 0..MaxContainers, TailOk(k), R!JobAttachFails
  PROVE  \E m \in 0..MaxContainers : TailOk(m)'
<1>0. TailShape /\ Newest(k) /\ TailProgress(k)
  BY DEF TailOk
<1>1. job.pc = "attaching" /\ job' = R!Idle /\ lost' = lost \cup {job.ctr}
      /\ UNCHANGED <<clock, containers, log, streams, tail, scan, reader>>
  BY DEF R!JobAttachFails
<1>2. job.ctr = k /\ k \in 1..MaxContainers /\ scan.pc = "idle" /\ tail = 0
  BY <1>0, <1>1, LogsAssumption DEF TailProgress
<1>3. job' \in JobType /\ job'.pc = "idle" /\ scan' \in ScanType
  BY <1>0, <1>1, IdleType DEF TailShape
<1>4. lost' \subseteq 1..MaxContainers /\ lost \subseteq lost' /\ k \in lost'
  BY <1>0, <1>1, <1>2 DEF TailShape
<1>5. \A c \in 1..MaxContainers : containers[c] = "running" => c \in lost'
  BY <1>0, <1>4 DEF Newest, Alive
<1>6. TailProgress(k)'  BY <1>0, <1>1, <1>2, <1>3, <1>5 DEF TailProgress
<1> QED BY <1>1, <1>2, <1>3, <1>4, <1>6, QuietStep

\* The startup scan gets no stream.
LEMMA ScanFailsStep ==
  ASSUME NEW k \in 0..MaxContainers, TailOk(k), R!ScanAttachFails
  PROVE  \E m \in 0..MaxContainers : TailOk(m)'
<1>0. TailShape /\ Newest(k) /\ TailProgress(k)
  BY DEF TailOk
<1>1. scan.pc = "attaching" /\ scan' = R!Idle /\ lost' = lost \cup {scan.ctr}
      /\ UNCHANGED <<clock, containers, log, streams, tail, job, reader>>
  BY DEF R!ScanAttachFails
<1>2. scan.ctr = k /\ k \in 1..MaxContainers /\ job.pc = "idle" /\ tail = 0
  BY <1>0, <1>1, LogsAssumption DEF TailProgress
<1>3. job' \in JobType /\ scan'.pc = "idle" /\ scan' \in ScanType
  BY <1>0, <1>1, IdleType DEF TailShape
<1>4. lost' \subseteq 1..MaxContainers /\ lost \subseteq lost' /\ k \in lost'
  BY <1>0, <1>1, <1>2 DEF TailShape
<1>5. \A c \in 1..MaxContainers : containers[c] = "running" => c \in lost'
  BY <1>0, <1>4 DEF Newest, Alive
<1>6. TailProgress(k)'  BY <1>0, <1>1, <1>2, <1>3, <1>5 DEF TailProgress
<1> QED BY <1>1, <1>3, <1>4, <1>6, QuietStep

\* The startup scan lists the running containers.
LEMMA ScanListsStep ==
  ASSUME NEW k \in 0..MaxContainers, TailOk(k), R!ScanLists, ~raced'
  PROVE  \E m \in 0..MaxContainers : TailOk(m)'
<1>0. TailShape /\ Newest(k) /\ TailProgress(k)
  BY DEF TailOk
<1>1. scan.pc = "begin" /\ job.pc = "idle"
      /\ UNCHANGED <<clock, containers, log, streams, tail, job, reader, lost>>
  BY DEF R!ScanLists
<1>2. tail = 0 /\ \A s \in Slots : ~Held(s)  BY <1>0, <1>1 DEF TailProgress
<1>3. CASE R!Running = {} /\ scan' = R!Idle
  <2>1. job' \in JobType /\ scan' \in ScanType /\ scan'.pc = "idle"
    BY <1>0, <1>1, <1>3, IdleType DEF TailShape
  <2>2. \A c \in 1..MaxContainers : containers[c] # "running"
    BY <1>3 DEF R!Running, R!Containers
  <2>3. TailProgress(k)'  BY <1>0, <1>1, <1>2, <2>1, <2>2 DEF TailProgress
  <2> QED BY <1>0, <1>1, <2>1, <2>3, QuietStep DEF TailShape
<1>4. CASE \E c \in R!Running : scan' = [scan EXCEPT !.pc = "listed", !.ctr = c]
  <2>1. PICK c \in 1..MaxContainers :
          containers[c] = "running" /\ scan' = [scan EXCEPT !.pc = "listed", !.ctr = c]
    BY <1>4 DEF R!Running, R!Containers
  <2>2. c = k  BY <1>0, <2>1 DEF Newest, Alive
  <2>3. job' \in JobType /\ scan' \in ScanType /\ scan'.pc = "listed" /\ scan'.ctr = k
    BY <1>0, <1>1, <2>1, <2>2 DEF TailShape, ScanType
  <2>4. k # 0  BY <2>1, <2>2
  <2>5. TailProgress(k)'  BY <1>0, <1>1, <1>2, <2>3, <2>4 DEF TailProgress, Held
  <2> QED BY <1>0, <1>1, <2>3, <2>5, QuietStep DEF TailShape
<1> QED BY <1>3, <1>4 DEF R!ScanLists

\* The worker stops: all its streams are closed.
LEMMA StopsStep ==
  ASSUME NEW k \in 0..MaxContainers, TailOk(k), R!WorkerStops
  PROVE  \E m \in 0..MaxContainers : TailOk(m)'
<1>0. TailShape /\ OneStream /\ TailOrder /\ Newest(k) /\ TailProgress(k)
  BY DEF TailOk
<1>1. PICK z \in JobType : z \in ScanType /\ z = R!Idle  BY IdleType
<1>2. /\ streams' = [s \in Slots |-> R!Closed] /\ tail' = 0
      /\ job' = [z EXCEPT !.pc = "down"] /\ scan' = [z EXCEPT !.pc = "down"]
      /\ UNCHANGED <<clock, containers, log, reader, lost>>
  BY <1>1 DEF R!WorkerStops, R!MaxStreams, Slots
<1>3. /\ job' \in JobType /\ job'.pc = "down" /\ scan' \in ScanType /\ scan'.pc = "down"
  BY <1>1, <1>2 DEF JobType, ScanType
<1>4. /\ streams' \in [Slots -> R!StreamType]
      /\ \A s \in Slots : streams'[s] = R!Closed /\ streams'[s].state = "closed"
  BY <1>2, ClosedType
<1>5. TailShape'  BY <1>0, <1>2, <1>3, <1>4, LogsAssumption DEF TailShape
<1>6. OneStream'  BY <1>2, <1>4 DEF OneStream, Held, Publishes
<1>7. TailOrder'  BY <1>0, <1>2, <1>3, <1>4 DEF TailOrder, Publishes, LinesOf
<1>8. Newest(k)'  BY <1>0, <1>2 DEF Newest, Alive
<1>9. TailProgress(k)'  BY <1>2, <1>3, <1>4 DEF TailProgress, Held
<1> QED BY <1>5, <1>6, <1>7, <1>8, <1>9 DEF TailOk

\* The worker starts.
LEMMA StartsStep ==
  ASSUME NEW k \in 0..MaxContainers, TailOk(k), R!WorkerStarts
  PROVE  \E m \in 0..MaxContainers : TailOk(m)'
<1>0. TailShape /\ TailProgress(k)
  BY DEF TailOk
<1>1. PICK z \in JobType : z \in ScanType /\ z = R!Idle /\ z.pc = "idle"  BY IdleType
<1>2. /\ job.pc = "down" /\ job' = z /\ scan' = [z EXCEPT !.pc = "begin"]
      /\ UNCHANGED <<clock, containers, log, streams, tail, reader, lost>>
  BY <1>1 DEF R!WorkerStarts, R!Up
<1>3. /\ job' \in JobType /\ job'.pc = "idle" /\ scan' \in ScanType /\ scan'.pc = "begin"
  BY <1>1, <1>2 DEF JobType, ScanType
<1>4. tail = 0 /\ \A s \in Slots : ~Held(s)  BY <1>0, <1>2 DEF TailProgress
<1>5. TailProgress(k)'  BY <1>2, <1>3, <1>4 DEF TailProgress, Held
<1> QED BY <1>0, <1>2, <1>3, <1>5, QuietStep DEF TailShape

\* A viewer who comes has seen nothing, and one who goes will have seen nothing.
LEMMA ReaderStep ==
  ASSUME NEW k \in 0..MaxContainers, TailOk(k), R!Subscribe \/ R!Hangup
  PROVE  \E m \in 0..MaxContainers : TailOk(m)'
<1>0. TailShape /\ OneStream /\ TailOrder /\ Newest(k) /\ TailProgress(k)
  BY DEF TailOk
<1>1. UNCHANGED <<clock, containers, log, streams, tail, job, scan, lost>>
  BY DEF R!Subscribe, R!Hangup, R!tailVars
<1>2. R!Second(clock) \in Nat /\ \A c \in 1..MaxContainers : \A i \in 1..LinesOf(c) :
                                  R!Second(log[c][i]) \in Nat
  <2>1. clock \in Nat /\ \A c \in 1..MaxContainers : \A i \in 1..LinesOf(c) : log[c][i] \in Nat
    BY <1>0 DEF TailShape, LinesOf
  <2> QED BY <2>1, SecondFacts
<1>3. /\ reader' \in ReaderType
      /\ reader'.last = reader.last \/ (reader'.last.ctr = 0 /\ reader'.last.second = 0)
  <2>1. CASE R!Subscribe
    BY <1>0, <2>1 DEF R!Subscribe, TailShape, ReaderType
  <2>2. CASE R!Hangup
    BY <1>0, <2>2, LogsAssumption DEF R!Hangup, R!NoLine, ReaderType
  <2> QED BY <2>1, <2>2
<1>4. CASE reader'.last = reader.last
  <2>1. TailShape'  BY <1>0, <1>1, <1>3 DEF TailShape
  <2>2. OneStream'  BY <1>0, <1>1 DEF OneStream, Held, Publishes
  <2>3. TailOrder'  BY <1>0, <1>1, <1>4 DEF TailOrder, Publishes, LinesOf
  <2>4. Newest(k)'  BY <1>0, <1>1, <1>4 DEF Newest, Alive
  <2>5. TailProgress(k)'  BY <1>0, <1>1, <1>4 DEF TailProgress, Alive, Held
  <2> QED BY <2>1, <2>2, <2>3, <2>4, <2>5 DEF TailOk
<1>5. CASE reader'.last.ctr = 0 /\ reader'.last.second = 0
  <2>1. TailShape'  BY <1>0, <1>1, <1>3 DEF TailShape
  <2>2. OneStream'  BY <1>0, <1>1 DEF OneStream, Held, Publishes
  <2>3. TailOrder'
    <3>1. \A s \in Slots : Publishes(s) => streams[s].ctr \in 1..MaxContainers
      BY <1>0 DEF OneStream, Held, Publishes, TailShape, R!StreamType
    <3>2. scan.since \in Nat  BY <1>0 DEF TailShape, ScanType
    <3> QED BY <1>0, <1>1, <1>2, <1>5, <3>1, <3>2 DEF TailOrder, Publishes, LinesOf
  <2>4. Newest(k)'  BY <1>0, <1>1, <1>5 DEF Newest, Alive
  <2>5. TailProgress(k)'  BY <1>0, <1>1, <1>5, LogsAssumption DEF TailProgress, Alive, Held
  <2> QED BY <2>1, <2>2, <2>3, <2>4, <2>5 DEF TailOk
<1> QED BY <1>3, <1>4, <1>5

-----------------------------------------------------------------------------
\* Nothing has run at first.
LEMMA TailStart == R!Init => \E k \in 0..MaxContainers : TailOk(k)
<1> SUFFICES ASSUME R!Init PROVE TailOk(0)
  BY LogsAssumption
<1>1. PICK z \in JobType : z \in ScanType /\ z = R!Idle /\ z.pc = "idle"  BY IdleType
<1>2. /\ clock = 0 /\ containers = [c \in 1..MaxContainers |-> "unmade"]
      /\ log = [c \in 1..MaxContainers |-> <<>>]
      /\ streams = [s \in Slots |-> R!Closed] /\ tail = 0
      /\ job = z /\ scan = [z EXCEPT !.pc = "begin"]
      /\ reader = [pc |-> "away", last |-> R!NoLine] /\ lost = {}
  BY <1>1 DEF R!Init, R!Containers, R!MaxStreams, Slots
<1>3. /\ job \in JobType /\ job.pc = "idle" /\ scan \in ScanType /\ scan.pc = "begin"
  BY <1>1, <1>2 DEF JobType, ScanType
<1>4. reader \in ReaderType /\ reader.last.ctr = 0 /\ reader.last.second = 0
  BY <1>2, LogsAssumption DEF ReaderType, R!NoLine
<1>5. /\ streams \in [Slots -> R!StreamType]
      /\ \A s \in Slots : streams[s] = R!Closed /\ streams[s].state = "closed"
  BY <1>2, ClosedType
<1>6. /\ containers \in [1..MaxContainers -> CtrStates] /\ log \in [1..MaxContainers -> Seq(Nat)]
      /\ \A c \in 1..MaxContainers : containers[c] = "unmade" /\ Len(log[c]) = 0
  BY <1>2 DEF CtrStates
<1>7. TailShape  BY <1>2, <1>3, <1>4, <1>5, <1>6, LogsAssumption DEF TailShape
<1>8. OneStream  BY <1>2, <1>5 DEF OneStream, Held, Publishes
<1>9. TailOrder
  <2>1. R!Second(clock) \in Nat  BY <1>2, SecondFacts
  <2> QED BY <1>3, <1>4, <1>5, <1>6, <2>1 DEF TailOrder, Publishes, LinesOf
<1>10. Newest(0)  BY <1>4, <1>6 DEF Newest, Alive
<1>11. TailProgress(0)  BY <1>2, <1>3, <1>5 DEF TailProgress, Held
<1> QED BY <1>7, <1>8, <1>9, <1>10, <1>11 DEF TailOk

\* Every step that does not let a deployment overtake the startup scan keeps the invariant.
LEMMA TailStep ==
  ASSUME NEW k \in 0..MaxContainers, TailOk(k), R!Next, ~raced'
  PROVE  \E m \in 0..MaxContainers : TailOk(m)'
<1>1. DOMAIN streams = Slots /\ R!Containers = 1..MaxContainers
  BY DEF TailOk, TailShape, R!Containers
<1>2. CASE R!Tick  BY <1>2, TickStep
<1>3. ASSUME NEW c \in 1..MaxContainers,
             R!PrintLine(c) \/ R!ProcessExits(c) \/ R!ProcessRestarts(c)
      PROVE  \E m \in 0..MaxContainers : TailOk(m)'
  BY <1>3, PrintStep, ExitStep, RestartStep
<1>4. ASSUME NEW s \in Slots, R!Deliver(s) \/ R!StreamEnds(s) \/ R!StreamBreaks(s)
      PROVE  \E m \in 0..MaxContainers : TailOk(m)'
  BY <1>4, DeliverStep, EndsStep, BreaksStep
<1>5. CASE R!StopOld \/ R!RemoveOld \/ R!StartNew
  BY <1>5, StopStep, RemoveStep, StartNewStep
<1>6. CASE R!JobAttaches \/ R!JobAttached \/ R!JobAttachFails
  BY <1>6, JobAttachesStep, JobAttachedStep, JobFailsStep
<1>7. CASE R!ScanLists \/ R!ScanAttaches \/ R!ScanAttached \/ R!ScanAttachFails
  BY <1>7, ScanListsStep, ScanAttachesStep, ScanAttachedStep, ScanFailsStep
<1>8. CASE R!WorkerStops \/ R!WorkerStarts
  BY <1>8, StopsStep, StartsStep
<1>9. CASE R!Subscribe \/ R!Hangup  BY <1>9, ReaderStep
<1> QED BY <1>1, <1>2, <1>3, <1>4, <1>5, <1>6, <1>7, <1>8, <1>9 DEF R!Next

\* What a live viewer has seen last never goes back.
LEMMA ViewStep ==
  ASSUME NEW k \in 0..MaxContainers, TailOk(k), R!Next, reader'.pc = "live"
  PROVE  \/ reader.last.ctr < reader'.last.ctr
         \/ /\ reader.last.ctr = reader'.last.ctr
            /\ reader.last.second <= reader'.last.second
<1>1. TailShape  BY DEF TailOk
<1>2. reader.last.second <= reader.last.second  BY <1>1 DEF TailShape, ReaderType
<1>3. DOMAIN streams = Slots  BY <1>1 DEF TailShape
<1>4. ASSUME NEW s \in Slots, R!Deliver(s)
      PROVE  reader.last.ctr < reader'.last.ctr
             \/ (/\ reader.last.ctr = reader'.last.ctr
                 /\ reader.last.second <= reader'.last.second)
  BY <1>4, DeliverStep
<1>5. CASE R!Subscribe
  <2>1. reader'.last = reader.last  BY <1>1, <1>5 DEF R!Subscribe, TailShape, ReaderType
  <2> QED BY <1>2, <2>1
<1>6. CASE R!Hangup
  <2>1. reader'.pc = "away"  BY <1>6 DEF R!Hangup
  <2> QED BY <2>1
<1>7. CASE UNCHANGED reader  BY <1>2, <1>7
<1>8. UNCHANGED reader \/ R!Subscribe \/ R!Hangup \/ \E s \in Slots : R!Deliver(s)
  BY <1>3 DEF R!Next, R!Tick, R!PrintLine, R!ProcessExits, R!ProcessRestarts, R!StreamEnds,
    R!StreamBreaks, R!StopOld, R!RemoveOld, R!StartNew, R!JobAttaches, R!JobAttached,
    R!JobAttachFails, R!ScanLists, R!ScanAttaches, R!ScanAttached, R!ScanAttachFails,
    R!WorkerStops, R!WorkerStarts
<1> QED BY <1>4, <1>5, <1>6, <1>7, <1>8

TailInv == part = "tail" /\ ~raced => \E k \in 0..MaxContainers : TailOk(k)

\* A race of a deployment with the startup scan is not forgotten.
LEMMA RacedStays == ASSUME R!Next PROVE raced => raced'
BY DEF R!Next, R!Tick, R!PrintLine, R!ProcessExits, R!ProcessRestarts, R!Deliver,
    R!StreamEnds, R!StreamBreaks, R!StopOld, R!RemoveOld, R!StartNew, R!JobAttaches,
    R!JobAttached, R!JobAttachFails, R!ScanLists, R!ScanAttaches, R!ScanAttached,
    R!ScanAttachFails, R!WorkerStops, R!WorkerStarts, R!Subscribe, R!Hangup

\* No step of either kind, nor a stutter, breaks the invariant.
LEMMA TailInductive == TailInv /\ [DeploymentNext]_<<part, vars, logVars, tailVars>> => TailInv'
<1> SUFFICES ASSUME TailInv, [DeploymentNext]_<<part, vars, logVars, tailVars>>,
                    part' = "tail", ~raced'
             PROVE  \E k \in 0..MaxContainers : TailOk(k)'
  BY DEF TailInv
<1>1. CASE part = "tail" /\ R!Next /\ UNCHANGED <<part, vars, logVars>>
  <2>1. PICK k \in 0..MaxContainers : TailOk(k)  BY <1>1, RacedStays DEF TailInv
  <2> QED BY <1>1, <2>1, TailStep
<1>2. CASE UNCHANGED <<part, tailVars>>
  <2>1. PICK k \in 0..MaxContainers : TailOk(k)  BY <1>2 DEF TailInv, tailVars
  <2>2. TailOk(k)'
    BY <1>2, <2>1 DEF tailVars, TailOk, TailShape, OneStream, TailOrder, Newest, TailProgress,
      Held, Publishes, Alive, LinesOf
  <2> QED BY <2>2
<1> QED BY <1>1, <1>2 DEF DeploymentNext

\* The invariant of the runtime log holds in every state.
THEOREM TailInvariant == DeploymentSpec => []TailInv
<1>1. DeploymentInit => TailInv  BY TailStart DEF DeploymentInit, TailInv
<1> QED BY <1>1, TailInductive, PTL DEF DeploymentSpec

\* At rest the running container is followed, and nothing else publishes
\* (runtime-logs.ts), for any number of deployments and restarts of the worker, any
\* lines and any times, unless a deployment overtakes the startup scan.
THEOREM RunningContainerFollowed == DeploymentSpec => []FollowedOnce
<1>1. TailInv => FollowedOnce
  <2> SUFFICES ASSUME TailInv, part = "tail", ~raced PROVE R!FollowedOnce
    BY DEF FollowedOnce, R!FollowedOnce, R!LiveIsTailed, R!OneFollowStream
  <2>1. PICK k \in 0..MaxContainers : TailOk(k)  BY DEF TailInv
  <2>2. R!LiveIsTailed
    BY <2>1 DEF TailOk, TailProgress, R!LiveIsTailed, R!Running, R!Containers
  <2>3. R!OneFollowStream
    <3>1. DOMAIN streams = Slots /\ \A s \in Slots : Publishes(s) => s = tail
      BY <2>1 DEF TailOk, TailShape, OneStream
    <3> DEFINE T == {s \in DOMAIN streams : streams[s].state \in {"open", "ending"}}
    <3>2. T \subseteq {tail}  BY <3>1 DEF Publishes
    <3>3. IsFiniteSet({tail}) /\ Cardinality({tail}) = 1  BY FS_Singleton
    <3>4. Cardinality(T) <= 1
      <4> HIDE DEF T
      <4> QED BY <3>2, <3>3, FS_Subset
    <3> QED BY <3>4 DEF R!OneFollowStream, R!Cardinality, Cardinality
  <2> QED BY <2>2, <2>3 DEF R!FollowedOnce
<1> QED BY <1>1, TailInvariant, PTL

\* The live lines a viewer gets never go back to a replaced container or to an earlier
\* second (runtime-logs.ts), whatever breaks and is attached again meanwhile.
THEOREM ViewerNeverGoesBack == DeploymentSpec => LiveInOrder
<1>1. TailInv /\ [DeploymentNext]_<<part, vars, logVars, tailVars>> =>
        [reader'.pc = "live" /\ ~raced =>
           \/ reader.last.ctr < reader'.last.ctr
           \/ /\ reader.last.ctr = reader'.last.ctr
              /\ reader.last.second <= reader'.last.second]_R!vars
  <2> SUFFICES ASSUME TailInv, [DeploymentNext]_<<part, vars, logVars, tailVars>>,
                      ~UNCHANGED R!vars, reader'.pc = "live", ~raced
               PROVE  \/ reader.last.ctr < reader'.last.ctr
                      \/ /\ reader.last.ctr = reader'.last.ctr
                         /\ reader.last.second <= reader'.last.second
    OBVIOUS
  <2>1. part = "tail" /\ R!Next  BY DEF DeploymentNext, tailVars, R!vars, R!tailVars
  <2>2. PICK k \in 0..MaxContainers : TailOk(k)  BY <2>1 DEF TailInv
  <2> QED BY <2>1, <2>2, ViewStep
<1> QED BY <1>1, TailInvariant, PTL DEF DeploymentSpec, LiveInOrder, R!LiveInOrder

-----------------------------------------------------------------------------
(***************************************************************************)
(* The build log.                                                          *)
(*                                                                         *)
(* Runs of lines: what the sink and the database hold of an attempt.       *)
(***************************************************************************)
Text == (Nat \X Nat) \cup {Notice}
WriteType == [op : {"append", "replace"}, text : Seq(Text), awaited : BOOLEAN]
SinkType == [pending : Seq(Text), head : Seq(Text), unwritten : Seq(Text),
             headFull : BOOLEAN, tail : Seq(Text), tailDirty : BOOLEAN, timer : BOOLEAN,
             limited : BOOLEAN]

\* Nothing is added.
LEMMA NothingJoined ==
  ASSUME NEW s \in Seq(Text)
  PROVE  <<>> \o s = s /\ s \o <<>> = s
<1>1. <<>> \in Seq(Text)  OBVIOUS
<1>2. PICK t : t = <<>> \o s  OBVIOUS
<1>3. t \in Seq(Text) /\ Len(t) = Len(s) /\ \A i \in 1..Len(s) : t[i] = s[i]
  BY <1>1, <1>2
<1>4. PICK u : u = s \o <<>>  OBVIOUS
<1>5. u \in Seq(Text) /\ Len(u) = Len(s) /\ \A i \in 1..Len(s) : u[i] = s[i]
  BY <1>1, <1>4
<1>6. t = s  BY <1>3
<1>7. u = s  BY <1>5
<1> QED BY <1>2, <1>4, <1>6, <1>7

\* m lines of attempt a from line f on.
Run(s, a, f, m) ==
  s \in Seq(Text) /\ Len(s) = m /\ \A i \in 1..m : s[i] = <<a, f + i - 1>>

-----------------------------------------------------------------------------
\* There is one run of given lines.
LEMMA RunUnique ==
  ASSUME NEW a, NEW f, NEW m, NEW s, NEW t, Run(s, a, f, m), Run(t, a, f, m)
  PROVE  s = t
<1>1. s \in Seq(Text) /\ t \in Seq(Text) /\ Len(s) = Len(t) /\ \A i \in 1..Len(s) : s[i] = t[i]
  BY DEF Run
<1> QED BY <1>1

\* What the length of a run says of it.
LEMMA RunLength ==
  ASSUME NEW a, NEW f, NEW m, NEW s, Run(s, a, f, m)
  PROVE  m \in Nat /\ s \in Seq(Text) /\ (s = <<>> <=> m = 0)
BY DEF Run

\* No lines are a run of length 0.
LEMMA NoRun ==
  ASSUME NEW a, NEW f
  PROVE  Run(<<>>, a, f, 0)
BY DEF Run

\* A run, and the line after it.
LEMMA RunAppend ==
  ASSUME NEW a \in Nat, NEW f \in Nat, NEW m \in Nat, NEW s, Run(s, a, f, m)
  PROVE  Run(Append(s, <<a, f + m>>), a, f, m + 1)
<1>1. s \in Seq(Text) /\ Len(s) = m  BY DEF Run
<1>2. PICK e \in Text : e = <<a, f + m>>
  <2>1. <<a, f + m>> \in Nat \X Nat  OBVIOUS
  <2> QED BY <2>1 DEF Text
<1>3. /\ Append(s, e) \in Seq(Text) /\ Len(Append(s, e)) = m + 1
      /\ \A i \in 1..m : Append(s, e)[i] = s[i]
      /\ Append(s, e)[m + 1] = e
  BY <1>1
<1>4. ASSUME NEW i \in 1..m + 1 PROVE Append(s, e)[i] = <<a, f + i - 1>>
  <2>1. CASE i = m + 1  BY <1>2, <1>3, <2>1
  <2>2. CASE i # m + 1
    <3>1. i \in 1..m  BY <2>2
    <3> QED BY <1>3, <3>1 DEF Run
  <2> QED BY <2>1, <2>2
<1> QED BY <1>2, <1>3, <1>4 DEF Run

\* Two runs, one after the other.
LEMMA RunConcat ==
  ASSUME NEW a \in Nat, NEW f \in Nat, NEW m \in Nat, NEW p \in Nat, NEW s, NEW t,
         Run(s, a, f, m), Run(t, a, f + m, p)
  PROVE  Run(s \o t, a, f, m + p)
<1>1. s \in Seq(Text) /\ Len(s) = m /\ t \in Seq(Text) /\ Len(t) = p  BY DEF Run
<1>2. s \o t \in Seq(Text) /\ Len(s \o t) = m + p  BY <1>1
<1>3. ASSUME NEW i \in 1..m + p PROVE (s \o t)[i] = <<a, f + i - 1>>
  <2>1. CASE i <= m
    <3>1. (s \o t)[i] = s[i] /\ i \in 1..m  BY <1>1, <2>1
    <3> QED BY <3>1 DEF Run
  <2>2. CASE i > m
    <3>1. (s \o t)[i] = t[i - m] /\ i - m \in 1..p  BY <1>1, <2>2
    <3>2. t[i - m] = <<a, f + m + (i - m) - 1>>  BY <3>1 DEF Run
    <3>3. f + m + (i - m) - 1 = f + i - 1  OBVIOUS
    <3> QED BY <3>1, <3>2, <3>3
  <2>3. i <= m \/ i > m  BY <1>3
  <2> QED BY <2>1, <2>2, <2>3
<1> QED BY <1>2, <1>3 DEF Run

\* A part of a run.
LEMMA RunPart ==
  ASSUME NEW a \in Nat, NEW f \in Nat, NEW m \in Nat, NEW s, Run(s, a, f, m),
         NEW x \in Nat \ {0}, NEW y \in Nat, x <= y + 1, y <= m
  PROVE  Run(SubSeq(s, x, y), a, f + x - 1, y + 1 - x)
<1>1. s \in Seq(Text) /\ Len(s) = m  BY DEF Run
<1>2. SubSeq(s, x, y) \in Seq(Text) /\ Len(SubSeq(s, x, y)) = y + 1 - x
  BY <1>1
<1>3. ASSUME NEW i \in 1..y + 1 - x
      PROVE  SubSeq(s, x, y)[i] = <<a, (f + x - 1) + i - 1>>
  <2>1. SubSeq(s, x, y)[i] = s[x + i - 1] /\ x + i - 1 \in 1..m  BY <1>1
  <2>2. s[x + i - 1] = <<a, f + (x + i - 1) - 1>>  BY <2>1 DEF Run
  <2>3. f + (x + i - 1) - 1 = (f + x - 1) + i - 1  OBVIOUS
  <2> QED BY <2>1, <2>2, <2>3
<1> QED BY <1>2, <1>3 DEF Run

\* Lines() are a run.
LEMMA RunOfLines ==
  ASSUME NEW a \in Nat, NEW f \in Nat \ {0}, NEW l \in Nat, f <= l + 1
  PROVE  Run(B!Lines(a, f, l), a, f, l + 1 - f)
<1>1. l - f + 1 = l + 1 - f /\ l + 1 - f \in Nat  OBVIOUS
<1>2. B!Lines(a, f, l) = [i \in 1..(l + 1 - f) |-> <<a, f + i - 1>>]
  BY <1>1 DEF B!Lines, B!Line
<1>3. ASSUME NEW i \in 1..(l + 1 - f) PROVE <<a, f + i - 1>> \in Text
  <2>1. <<a, f + i - 1>> \in Nat \X Nat  OBVIOUS
  <2> QED BY <2>1 DEF Text
<1>4. B!Lines(a, f, l) \in Seq(Text)
  <2>1. B!Lines(a, f, l) \in [1..(l + 1 - f) -> Text]  BY <1>2, <1>3
  <2> QED BY <1>1, <2>1
<1>5. Len(B!Lines(a, f, l)) = l + 1 - f  BY <1>1, <1>2
<1> QED BY <1>1, <1>2, <1>4, <1>5 DEF Run

\* The newest c lines of a run, or all of it.
LEMMA RunLast ==
  ASSUME NEW a \in Nat, NEW f \in Nat, NEW m \in Nat, NEW c \in Nat, NEW s, Run(s, a, f, m)
  PROVE  IF m <= c THEN B!LastOf(s, c) = s
                   ELSE Run(B!LastOf(s, c), a, f + m - c, c)
<1>1. s \in Seq(Text) /\ Len(s) = m  BY DEF Run
<1>2. CASE m <= c  BY <1>1, <1>2 DEF B!LastOf
<1>3. CASE ~(m <= c)
  <2>1. B!LastOf(s, c) = SubSeq(s, m - c + 1, m)  BY <1>1, <1>3 DEF B!LastOf
  <2>2. PICK x \in Nat \ {0} : x = m - c + 1  BY <1>3
  <2>3. Run(SubSeq(s, x, m), a, f + x - 1, m + 1 - x)  BY <2>2, RunPart
  <2>4. f + x - 1 = f + m - c /\ m + 1 - x = c  BY <2>2
  <2> QED BY <1>3, <2>1, <2>2, <2>3, <2>4
<1> QED BY <1>2, <1>3

\* The first c lines of a run and the others.
LEMMA RunFirst ==
  ASSUME NEW a \in Nat, NEW f \in Nat, NEW m \in Nat, NEW c \in Nat, NEW s, Run(s, a, f, m)
  PROVE  \E x \in 0..m : LET g == B!FirstOf(s, c) IN
           /\ x = IF m <= c THEN m ELSE c
           /\ Run(g, a, f, x)
           /\ Run(SubSeq(s, Len(g) + 1, Len(s)), a, f + x, m - x)
<1>1. s \in Seq(Text) /\ Len(s) = m  BY DEF Run
<1>2. PICK x \in 0..m : x = IF m <= c THEN m ELSE c  OBVIOUS
<1>3. Run(B!FirstOf(s, c), a, f, x)
  <2>1. CASE m <= c  BY <1>1, <1>2, <2>1 DEF B!FirstOf
  <2>2. CASE ~(m <= c)
    <3>1. B!FirstOf(s, c) = SubSeq(s, 1, c)  BY <1>1, <2>2 DEF B!FirstOf
    <3>2. Run(SubSeq(s, 1, c), a, f + 1 - 1, c + 1 - 1)  BY <2>2, RunPart
    <3>3. f + 1 - 1 = f /\ c + 1 - 1 = x  BY <1>2, <2>2
    <3> QED BY <3>1, <3>2, <3>3
  <2> QED BY <2>1, <2>2
<1>4. Len(B!FirstOf(s, c)) = x  BY <1>3 DEF Run
<1>5. Run(SubSeq(s, x + 1, m), a, f + (x + 1) - 1, m + 1 - (x + 1))
  BY <1>2, RunPart
<1>6. f + (x + 1) - 1 = f + x /\ m + 1 - (x + 1) = m - x  OBVIOUS
<1> QED BY <1>1, <1>2, <1>3, <1>4, <1>5, <1>6

\* How many of j lines are kept in the head, and of those beyond it.
HeadLen(j) == IF j <= HeadCap THEN j ELSE HeadCap
TailLen(j) == IF j - HeadCap <= TailCap THEN j - HeadCap ELSE TailCap

\* What is kept of a log within the limit.
LEMMA KeptHead ==
  ASSUME NEW a \in Nat, NEW k \in Nat, k <= HeadCap, NEW s, Run(s, a, 1, k)
  PROVE  s = B!Kept(a, k)
<1>1. Run(B!Lines(a, 1, k), a, 1, k)
  <2>1. Run(B!Lines(a, 1, k), a, 1, k + 1 - 1)  BY RunOfLines
  <2> QED BY <2>1
<1> QED BY <1>1, RunUnique DEF B!Kept

\* What is kept of a log beyond it.
LEMMA KeptBoth ==
  ASSUME NEW a \in Nat, NEW k \in Nat, k > HeadCap, NEW s, NEW t,
         Run(s, a, 1, HeadCap), Run(t, a, k + 1 - TailLen(k), TailLen(k))
  PROVE  s \o <<Notice>> \o t = B!Kept(a, k)
<1> PICK h \in Nat, c \in Nat : h = HeadCap /\ c = TailCap  BY LogsAssumption
<1>1. s = B!Lines(a, 1, h)
  <2>1. Run(B!Lines(a, 1, h), a, 1, h + 1 - 1)  BY RunOfLines
  <2>2. h + 1 - 1 = h  OBVIOUS
  <2> QED BY <2>1, <2>2, RunUnique
<1>2. Run(B!Lines(a, h + 1, k), a, h + 1, k - h)
  <2>1. Run(B!Lines(a, h + 1, k), a, h + 1, k + 1 - (h + 1))  BY RunOfLines
  <2>2. k + 1 - (h + 1) = k - h  OBVIOUS
  <2> QED BY <2>1, <2>2
<1>3. t = B!LastOf(B!Lines(a, h + 1, k), c)
  <2>1. PICK m \in Nat : m = k - h  OBVIOUS
  <2>2. CASE m <= c
    <3>1. TailLen(k) = m /\ k + 1 - m = h + 1  BY <2>1, <2>2 DEF TailLen
    <3>2. B!LastOf(B!Lines(a, h + 1, k), c) = B!Lines(a, h + 1, k)
      BY <1>2, <2>1, <2>2, RunLast
    <3> QED BY <1>2, <2>1, <3>1, <3>2, RunUnique
  <2>3. CASE ~(m <= c)
    <3>1. TailLen(k) = c /\ k + 1 - c = h + 1 + m - c  BY <2>1, <2>3 DEF TailLen
    <3>2. Run(B!LastOf(B!Lines(a, h + 1, k), c), a, h + 1 + m - c, c)
      BY <1>2, <2>1, <2>3, RunLast
    <3> QED BY <3>1, <3>2, RunUnique
  <2> QED BY <2>2, <2>3
<1> QED BY <1>1, <1>3 DEF B!Kept

-----------------------------------------------------------------------------
\* What the database makes of a write, and what it holds after each of those under way.
Applied(x, e) == IF x.op = "append" THEN e \o x.text ELSE x.text

Chain(v, e, q) ==
  /\ q \in Seq(WriteType) /\ v \in [0..Len(q) -> Seq(Text)] /\ v[0] = e
  /\ \A i \in 1..Len(q) : v[i] = Applied(q[i], v[i - 1])

\* It holds a snapshot of the log each time: what is kept of some of its k lines.
Snapshots(v, q, a, k) == \A i \in 0..Len(q) : \E j \in 0..k : v[i] = B!Kept(a, j)

AfterFirst(q) == [j \in 1..(Len(q) - 1) |-> IF j < 1 THEN q[j] ELSE q[j + 1]]

\* A write leaves a text.
LEMMA AppliedType ==
  ASSUME NEW x \in WriteType, NEW e \in Seq(Text)
  PROVE  Applied(x, e) \in Seq(Text)
<1>1. x.text \in Seq(Text)  BY DEF WriteType
<1>2. e \o x.text \in Seq(Text)  BY <1>1
<1> QED BY <1>1, <1>2 DEF Applied

\* The first write is done: what the others make of it is what they would have made.
LEMMA ChainShift ==
  ASSUME NEW v, NEW e, NEW q, NEW p, NEW a, NEW k, Chain(v, e, q), Snapshots(v, q, a, k),
         q # <<>>, p = AfterFirst(q)
  PROVE  \E u : /\ Chain(u, Applied(q[1], e), p) /\ Snapshots(u, p, a, k)
                /\ u[Len(p)] = v[Len(q)]
<1>1. PICK m \in Nat : m = Len(q) - 1 /\ Len(q) = m + 1 /\ q \in Seq(WriteType)
  <2>1. q \in Seq(WriteType)  BY DEF Chain
  <2>2. Len(q) \in Nat /\ Len(q) # 0  BY <2>1
  <2> QED BY <2>1, <2>2
<1>2. \A j \in 1..m : q[j + 1] \in WriteType  BY <1>1
<1>3. p = [j \in 1..m |-> q[j + 1]]  BY <1>1 DEF AfterFirst
<1>4. p \in Seq(WriteType) /\ Len(p) = m /\ \A j \in 1..m : p[j] = q[j + 1]
  <2>1. p \in [1..m -> WriteType]  BY <1>2, <1>3
  <2>2. p \in Seq(WriteType)  BY <2>1
  <2>3. Len(p) = m  BY <2>1
  <2> QED BY <1>3, <2>2, <2>3
<1>5. /\ v \in [0..(m + 1) -> Seq(Text)] /\ v[0] = e
      /\ \A i \in 1..(m + 1) : v[i] = Applied(q[i], v[i - 1])
  BY <1>1 DEF Chain
<1>6. PICK u : u = [i \in 0..m |-> v[i + 1]]  OBVIOUS
<1>7. u \in [0..m -> Seq(Text)] /\ \A i \in 0..m : u[i] = v[i + 1]  BY <1>5, <1>6
<1>8. u[0] = Applied(q[1], e)
  <2>1. u[0] = v[1]  BY <1>7
  <2>2. v[1] = Applied(q[1], v[1 - 1])  BY <1>5
  <2> QED BY <1>5, <2>1, <2>2
<1>9. ASSUME NEW i \in 1..m PROVE u[i] = Applied(p[i], u[i - 1])
  <2>1. u[i] = v[i + 1] /\ u[i - 1] = v[i - 1 + 1] /\ i - 1 + 1 = i /\ p[i] = q[i + 1]
    BY <1>4, <1>7
  <2>2. v[i + 1] = Applied(q[i + 1], v[i + 1 - 1]) /\ i + 1 - 1 = i  BY <1>5
  <2> QED BY <2>1, <2>2
<1>10. Chain(u, Applied(q[1], e), p)  BY <1>4, <1>7, <1>8, <1>9 DEF Chain
<1>11. Snapshots(u, p, a, k)
  <2> SUFFICES ASSUME NEW i \in 0..m PROVE \E j \in 0..k : u[i] = B!Kept(a, j)
    BY <1>4 DEF Snapshots
  <2>1. u[i] = v[i + 1] /\ i + 1 \in 0..Len(q)  BY <1>1, <1>7
  <2> QED BY <2>1 DEF Snapshots
<1>12. u[Len(p)] = v[Len(q)]  BY <1>1, <1>4, <1>7
<1> QED BY <1>10, <1>11, <1>12

\* Another write is issued.
LEMMA ChainExtend ==
  ASSUME NEW v, NEW e, NEW q, NEW a, NEW k \in Nat, Chain(v, e, q), Snapshots(v, q, a, k),
         NEW x \in WriteType, Applied(x, v[Len(q)]) = B!Kept(a, k)
  PROVE  \E u : /\ Chain(u, e, Append(q, x)) /\ Snapshots(u, Append(q, x), a, k)
                /\ u[Len(Append(q, x))] = B!Kept(a, k)
<1>1. PICK m \in Nat : m = Len(q) /\ q \in Seq(WriteType)
  BY DEF Chain
<1>2. PICK p : p = Append(q, x)  OBVIOUS
<1>3. /\ p \in Seq(WriteType) /\ Len(p) = m + 1 /\ p[m + 1] = x
      /\ \A i \in 1..m : p[i] = q[i]
  BY <1>1, <1>2
<1>4. /\ v \in [0..m -> Seq(Text)] /\ v[0] = e
      /\ \A i \in 1..m : v[i] = Applied(q[i], v[i - 1])
  BY <1>1 DEF Chain
<1>5. PICK y \in Seq(Text) : y = Applied(x, v[m])  BY <1>4, AppliedType
<1>6. PICK u : u = [i \in 0..(m + 1) |-> IF i = m + 1 THEN y ELSE v[i]]  OBVIOUS
<1>7. u \in [0..(m + 1) -> Seq(Text)] /\ u[m + 1] = y /\ \A i \in 0..m : u[i] = v[i]
  BY <1>4, <1>5, <1>6
<1>8. ASSUME NEW i \in 1..(m + 1) PROVE u[i] = Applied(p[i], u[i - 1])
  <2>1. CASE i = m + 1
    <3>1. i - 1 = m /\ u[m] = v[m]  BY <1>7, <2>1
    <3> QED BY <1>3, <1>5, <1>7, <2>1, <3>1
  <2>2. CASE i # m + 1
    <3>1. i \in 1..m /\ i - 1 \in 0..m /\ i \in 0..m  BY <2>2
    <3> QED BY <1>3, <1>4, <1>7, <3>1
  <2> QED BY <2>1, <2>2
<1>9. Chain(u, e, p)  BY <1>3, <1>4, <1>7, <1>8 DEF Chain
<1>10. u[m + 1] = B!Kept(a, k)  BY <1>1, <1>5, <1>7
<1>11. Snapshots(u, p, a, k)
  <2> SUFFICES ASSUME NEW i \in 0..(m + 1) PROVE \E j \in 0..k : u[i] = B!Kept(a, j)
    BY <1>3 DEF Snapshots
  <2>1. CASE i = m + 1  BY <1>10, <2>1
  <2>2. CASE i # m + 1
    <3>1. i \in 0..m  BY <2>2
    <3> QED BY <1>1, <1>7, <3>1 DEF Snapshots
  <2> QED BY <2>1, <2>2
<1> QED BY <1>2, <1>3, <1>9, <1>10, <1>11

\* A snapshot stays one when more is logged.
LEMMA MoreSnapshots ==
  ASSUME NEW v, NEW q, NEW a, NEW k \in Nat, Snapshots(v, q, a, k)
  PROVE  Snapshots(v, q, a, k + 1)
<1>1. \A j \in 0..k : j \in 0..(k + 1)  OBVIOUS
<1> QED BY <1>1 DEF Snapshots

-----------------------------------------------------------------------------
\* The sink has absorbed j of the k lines of attempt a.
SinkOk(a, k, j, s) ==
  /\ s \in SinkType
  /\ Run(s.pending, a, j + 1, k - j)
  /\ Run(s.head, a, 1, HeadLen(j))
  /\ (s.headFull <=> j > HeadCap)
  /\ j <= HeadCap => s.tail = <<>> /\ ~s.tailDirty
  /\ j > HeadCap => Run(s.tail, a, j + 1 - TailLen(j), TailLen(j))

\* e is what the database will hold: all of the j lines but those not yet written, or,
\* when nothing is left to write, what is kept of them.
Written(a, j, s, e) ==
  /\ e \in Seq(Text)
  /\ j <= HeadCap =>
       \E x \in 0..j : Run(e, a, 1, x) /\ Run(s.unwritten, a, x + 1, j - x)
  /\ j > HeadCap /\ ~s.tailDirty /\ s.unwritten = <<>> => e = B!Kept(a, j)

\* A sink that has got nothing.
LEMMA NewSinkType ==
  /\ B!NewSink \in SinkType /\ B!NewSink.pending = <<>> /\ B!NewSink.head = <<>>
  /\ B!NewSink.unwritten = <<>> /\ B!NewSink.tail = <<>>
  /\ ~B!NewSink.headFull /\ ~B!NewSink.tailDirty /\ B!NewSink.timer = FALSE
  /\ B!NewSink.limited = FALSE
BY DEF B!NewSink, SinkType

\* The log has been cleared, nothing has been logged.
LEMMA SinkStarts ==
  ASSUME NEW a \in Nat
  PROVE  /\ SinkOk(a, 0, 0, B!NewSink) /\ Written(a, 0, B!NewSink, <<>>)
         /\ B!Kept(a, 0) = <<>>
<1> PICK z \in SinkType : z = B!NewSink  BY NewSinkType
<1>1. /\ z.pending = <<>> /\ z.head = <<>> /\ z.unwritten = <<>> /\ z.tail = <<>>
      /\ ~z.headFull /\ ~z.tailDirty
  BY NewSinkType
<1>2. 0 <= HeadCap /\ ~(0 > HeadCap)  BY LogsAssumption
<1>3. Run(<<>>, a, 0 + 1, 0 - 0) /\ Run(<<>>, a, 1, 0)
  <2>1. 0 - 0 = 0  OBVIOUS
  <2> QED BY <2>1, NoRun
<1>4. <<>> = B!Kept(a, 0)  BY <1>2, <1>3, KeptHead
<1>5. SinkOk(a, 0, 0, z)
  <2>1. HeadLen(0) = 0  BY <1>2 DEF HeadLen
  <2> QED BY <1>1, <1>2, <1>3, <2>1 DEF SinkOk
<1>6. Written(a, 0, z, <<>>)  BY <1>1, <1>2, <1>3 DEF Written
<1> QED BY <1>4, <1>5, <1>6

\* A line is logged.
LEMMA SinkLogs ==
  ASSUME NEW a \in Nat, NEW k \in Nat, NEW j \in 0..k, NEW s, NEW e, NEW r,
         SinkOk(a, k, j, s), Written(a, j, s, e),
         r = [s EXCEPT !.pending = Append(@, <<a, k + 1>>), !.timer = TRUE]
  PROVE  SinkOk(a, k + 1, j, r) /\ Written(a, j, r, e)
<1>1. s \in SinkType /\ Run(s.pending, a, j + 1, k - j)  BY DEF SinkOk
<1>2. PICK p : p = Append(s.pending, <<a, k + 1>>)  OBVIOUS
<1>3. Run(p, a, j + 1, k + 1 - j)
  <2>1. PICK m \in Nat : m = k - j  OBVIOUS
  <2>2. j + 1 + m = k + 1 /\ m + 1 = k + 1 - j  BY <2>1
  <2>3. Run(Append(s.pending, <<a, j + 1 + m>>), a, j + 1, m + 1)  BY <1>1, <2>1, RunAppend
  <2> QED BY <1>2, <2>2, <2>3
<1>4. p \in Seq(Text)  BY <1>3 DEF Run
<1>5. /\ r \in SinkType /\ r.pending = p /\ r.head = s.head /\ r.unwritten = s.unwritten
      /\ r.tail = s.tail /\ (r.headFull <=> s.headFull) /\ (r.tailDirty <=> s.tailDirty)
  <2>1. r = [s EXCEPT !.pending = p, !.timer = TRUE]  BY <1>2
  <2>2. r \in SinkType  BY <1>1, <1>4, <2>1 DEF SinkType
  <2>3. r.pending = p  BY <1>1, <2>1 DEF SinkType
  <2>4. r.head = s.head /\ r.unwritten = s.unwritten /\ r.tail = s.tail
    BY <1>1, <2>1 DEF SinkType
  <2>5. (r.headFull <=> s.headFull)  BY <1>1, <2>1 DEF SinkType
  <2>6. (r.tailDirty <=> s.tailDirty)  BY <1>1, <2>1 DEF SinkType
  <2> QED BY <2>2, <2>3, <2>4, <2>5, <2>6
<1>6. /\ Run(s.head, a, 1, HeadLen(j))
      /\ (s.headFull <=> j > HeadCap)
      /\ (j <= HeadCap => s.tail = <<>> /\ ~s.tailDirty)
      /\ (j > HeadCap => Run(s.tail, a, j + 1 - TailLen(j), TailLen(j)))
  BY DEF SinkOk
<1>7. SinkOk(a, k + 1, j, r)
  <2>1. Run(r.pending, a, j + 1, k + 1 - j)  BY <1>3, <1>5
  <2>2. Run(r.head, a, 1, HeadLen(j))  BY <1>5, <1>6
  <2>3. (r.headFull <=> j > HeadCap)  BY <1>5, <1>6
  <2>4. j <= HeadCap => r.tail = <<>> /\ ~r.tailDirty  BY <1>5, <1>6
  <2>5. j > HeadCap => Run(r.tail, a, j + 1 - TailLen(j), TailLen(j))  BY <1>5, <1>6
  <2> QED BY <1>5, <2>1, <2>2, <2>3, <2>4, <2>5 DEF SinkOk
<1>8. Written(a, j, r, e)  BY <1>5 DEF Written
<1> QED BY <1>7, <1>8

\* The type of a sink whose head is found full, or not.
LEMMA HeadFills ==
  ASSUME NEW q \in SinkType, NEW f \in BOOLEAN
  PROVE  [q EXCEPT !.headFull = f] \in SinkType
BY DEF SinkType

\* What is absorbed: the head takes what it has room for, the tail the newest rest.
LEMMA Absorbed ==
  ASSUME NEW s \in SinkType, NEW g, NEW h, g = B!FirstOf(s.pending, B!Room(s)),
         g \in Seq(Text), h = SubSeq(s.pending, Len(g) + 1, Len(s.pending)),
         h \in Seq(Text), B!LastOf(s.tail \o h, TailCap) \in Seq(Text)
  PROVE  LET r == B!Absorb(s) IN
           /\ r \in SinkType /\ r.pending = <<>> /\ r.head = s.head \o g
           /\ r.unwritten = s.unwritten \o g /\ (r.headFull <=> s.headFull \/ h # <<>>)
           /\ r.tail = B!LastOf(s.tail \o h, TailCap)
           /\ (r.tailDirty <=> s.tailDirty \/ h # <<>>)
<1> PICK l \in Seq(Text) : l = B!LastOf(s.tail \o h, TailCap)  OBVIOUS
<1> PICK hd \in Seq(Text), u \in Seq(Text) : hd = s.head \o g /\ u = s.unwritten \o g
  <2>1. s.head \in Seq(Text) /\ s.unwritten \in Seq(Text)  BY DEF SinkType
  <2>2. s.head \o g \in Seq(Text) /\ s.unwritten \o g \in Seq(Text)  BY <2>1
  <2> QED BY <2>2
<1> PICK f \in BOOLEAN : f <=> (s.headFull \/ h # <<>>)  OBVIOUS
<1> PICK d \in BOOLEAN : d <=> (s.tailDirty \/ h # <<>>)  OBVIOUS
<1>1. s.headFull \in BOOLEAN /\ s.tailDirty \in BOOLEAN  BY DEF SinkType
<1>2. f = (s.headFull \/ h # <<>>)  BY <1>1
<1>3. d = (s.tailDirty \/ h # <<>>)  BY <1>1
<1> PICK r : r = B!Absorb(s)  OBVIOUS
<1>4. r = [s EXCEPT !.pending = <<>>, !.head = hd, !.unwritten = u, !.headFull = f,
                    !.tail = l, !.tailDirty = d]
  BY <1>2, <1>3 DEF B!Absorb
<1>5. r \in SinkType
  <2> <<>> \in Seq(Text)  OBVIOUS
  <2>5. PICK o \in SinkType : o = [s EXCEPT !.pending = <<>>, !.head = hd]  BY DEF SinkType
  <2>1. PICK q \in SinkType : q = [o EXCEPT !.unwritten = u, !.tail = l]
    BY <2>5 DEF SinkType
  <2>6. [q EXCEPT !.headFull = f] \in SinkType  BY <2>1, HeadFills
  <2>2. PICK p \in SinkType : p = [q EXCEPT !.headFull = f]  BY <2>6
  <2>3. [p EXCEPT !.tailDirty = d] \in SinkType  BY <2>2, ZenonT(60) DEF SinkType
  <2>4. r = [p EXCEPT !.tailDirty = d]  BY <1>4, <2>1, <2>2, <2>5 DEF SinkType
  <2> QED BY <2>3, <2>4
<1>6. r.pending = <<>> /\ r.head = hd /\ r.unwritten = u /\ r.tail = l
  BY <1>4 DEF SinkType
<1>7. (r.headFull <=> f)  BY <1>4 DEF SinkType
<1>8. (r.tailDirty <=> d)  BY <1>4 DEF SinkType
<1> QED BY <1>5, <1>6, <1>7, <1>8

\* Everything logged has been absorbed, and what the database will hold is as before.
LEMMA SinkAbsorbs ==
  ASSUME NEW a \in Nat, NEW k \in Nat, NEW j \in 0..k, NEW s, NEW e,
         SinkOk(a, k, j, s), Written(a, j, s, e)
  PROVE  SinkOk(a, k, k, B!Absorb(s)) /\ Written(a, k, B!Absorb(s), e)
<1> PICK H \in Nat, T \in Nat : H = HeadCap /\ T = TailCap  BY LogsAssumption
<1> PICK m \in Nat : m = k - j  OBVIOUS
<1>1. /\ s \in SinkType /\ Run(s.pending, a, j + 1, m)
      /\ Run(s.head, a, 1, HeadLen(j))
      /\ (s.headFull <=> j > H)
      /\ (j <= H => s.tail = <<>> /\ ~s.tailDirty)
      /\ (j > H => Run(s.tail, a, j + 1 - TailLen(j), TailLen(j)))
  BY DEF SinkOk
<1>2. PICK c \in Nat : c = B!Room(s) /\ c = IF j <= H THEN H - j ELSE 0
  <2>1. CASE j <= H
    <3>1. Len(s.head) = j /\ ~s.headFull  BY <1>1, <2>1 DEF Run, HeadLen
    <3>2. B!Room(s) = H - j  BY <3>1 DEF B!Room
    <3> QED BY <2>1, <3>2
  <2>2. CASE ~(j <= H)
    <3>1. B!Room(s) = 0  BY <1>1, <2>2 DEF B!Room
    <3> QED BY <2>2, <3>1
  <2> QED BY <2>1, <2>2
<1>3. PICK x \in 0..m : LET g == B!FirstOf(s.pending, c) IN
        /\ x = IF m <= c THEN m ELSE c
        /\ Run(g, a, j + 1, x)
        /\ Run(SubSeq(s.pending, Len(g) + 1, Len(s.pending)), a, j + 1 + x, m - x)
  <2> PICK f \in Nat : f = j + 1  OBVIOUS
  <2>1. PICK p : p = s.pending  OBVIOUS
  <2>2. Run(p, a, f, m)  BY <1>1, <2>1
  <2>3. \E x \in 0..m : LET g == B!FirstOf(p, c) IN
          /\ x = IF m <= c THEN m ELSE c
          /\ Run(g, a, f, x)
          /\ Run(SubSeq(p, Len(g) + 1, Len(p)), a, f + x, m - x)
    BY <1>2, <2>2, RunFirst, ZenonT(60)
  <2> QED BY <2>1, <2>3
<1>4. PICK g, h : g = B!FirstOf(s.pending, c) /\ h = SubSeq(s.pending, Len(g) + 1, Len(s.pending))
  OBVIOUS
<1>5. /\ Run(g, a, j + 1, x) /\ Run(h, a, j + 1 + x, m - x)
      /\ g \in Seq(Text) /\ h \in Seq(Text) /\ (h = <<>> <=> m - x = 0)
      /\ (g = <<>> <=> x = 0)
  <2>1. Run(g, a, j + 1, x) /\ Run(h, a, j + 1 + x, m - x)  BY <1>3, <1>4
  <2>2. g \in Seq(Text) /\ (g = <<>> <=> x = 0)  BY <2>1, RunLength
  <2>3. h \in Seq(Text) /\ (h = <<>> <=> m - x = 0)  BY <2>1, RunLength
  <2> QED BY <2>1, <2>2, <2>3
<1>6. s.head \in Seq(Text) /\ s.unwritten \in Seq(Text) /\ s.tail \in Seq(Text)
  BY <1>1 DEF SinkType
<1>7. /\ B!LastOf(s.tail \o h, TailCap) \in Seq(Text)
      /\ k <= H => B!LastOf(s.tail \o h, TailCap) = <<>>
      /\ k > H => Run(B!LastOf(s.tail \o h, TailCap), a, k + 1 - TailLen(k), TailLen(k))
  <2>1. CASE j <= H
    <3>1. s.tail \o h = h  BY <1>1, <1>5, <2>1, NothingJoined
    <3>2. PICK p \in Nat : p = m - x  OBVIOUS
    <3>3. IF p <= T THEN B!LastOf(h, T) = h ELSE Run(B!LastOf(h, T), a, j + 1 + x + p - T, T)
      BY <1>5, <3>2, RunLast
    <3>4. CASE k <= H
      <4>1. p = 0 /\ p <= T  BY <1>2, <1>3, <2>1, <3>2, <3>4
      <4>2. h = <<>>  BY <1>5, <3>2, <4>1
      <4>3. B!LastOf(h, T) = h  BY <3>3, <4>1
      <4>4. h \in Seq(Text) /\ ~(k > H)  BY <1>5, <3>4
      <4> QED BY <3>1, <4>2, <4>3, <4>4
    <3>5. CASE k > H
      <4>1. j + x = H /\ p = k - H  BY <1>2, <1>3, <2>1, <3>2, <3>5
      <4>2. CASE p <= T
        <5>1. TailLen(k) = p /\ k + 1 - p = j + 1 + x  BY <4>1, <4>2 DEF TailLen
        <5> QED BY <1>5, <3>1, <3>2, <3>3, <3>5, <4>2, <5>1
      <4>3. CASE ~(p <= T)
        <5>1. TailLen(k) = T /\ k + 1 - T = j + 1 + x + p - T  BY <4>1, <4>3 DEF TailLen
        <5>2. Run(B!LastOf(h, T), a, k + 1 - T, T)  BY <3>3, <4>3, <5>1
        <5>3. B!LastOf(h, T) \in Seq(Text)  BY <5>2 DEF Run
        <5> QED BY <3>1, <3>5, <5>1, <5>2, <5>3
      <4> QED BY <4>2, <4>3
    <3> QED BY <3>4, <3>5
  <2>2. CASE j > H
    <3>1. x = 0 /\ k > H  BY <1>2, <1>3, <2>2
    <3>2. PICK t \in Nat : t = TailLen(j) /\ t <= j - H /\ t <= T
      BY <2>2 DEF TailLen
    <3>3. PICK f \in Nat : f = j + 1 - t  BY <3>2, <2>2
    <3>4. Run(s.tail, a, f, t) /\ Run(h, a, f + t, m)
      <4>1. f + t = j + 1 /\ j + 1 + x = j + 1 /\ m - x = m  BY <3>1, <3>3
      <4> QED BY <1>1, <1>5, <2>2, <3>2, <3>3, <4>1
    <3>5. PICK l : l = s.tail \o h  OBVIOUS
    <3>6. Run(l, a, f, t + m)  BY <3>4, <3>5, RunConcat
    <3>7. IF t + m <= T THEN B!LastOf(l, T) = l ELSE Run(B!LastOf(l, T), a, f + (t + m) - T, T)
      BY <3>6, RunLast
    <3>8. CASE t + m <= T
      <4>1. TailLen(k) = t + m /\ k + 1 - (t + m) = f
        BY <2>2, <3>2, <3>3, <3>8 DEF TailLen
      <4>2. Run(B!LastOf(l, T), a, k + 1 - TailLen(k), TailLen(k))
        BY <3>6, <3>7, <3>8, <4>1
      <4> QED BY <3>1, <3>5, <4>2 DEF Run
    <3>9. CASE ~(t + m <= T)
      <4>1. TailLen(k) = T /\ k + 1 - T = f + (t + m) - T
        BY <2>2, <3>2, <3>3, <3>9 DEF TailLen
      <4>2. Run(B!LastOf(l, T), a, k + 1 - TailLen(k), TailLen(k))
        BY <3>7, <3>9, <4>1
      <4> QED BY <3>1, <3>5, <4>2 DEF Run
    <3> QED BY <3>8, <3>9
  <2> QED BY <2>1, <2>2
<1>8. PICK r : r = B!Absorb(s)  OBVIOUS
<1>9. /\ r \in SinkType /\ r.pending = <<>> /\ r.head = s.head \o g
      /\ r.unwritten = s.unwritten \o g /\ (r.headFull <=> s.headFull \/ h # <<>>)
      /\ r.tail = B!LastOf(s.tail \o h, TailCap)
      /\ (r.tailDirty <=> s.tailDirty \/ h # <<>>)
  BY <1>1, <1>2, <1>4, <1>5, <1>7, <1>8, Absorbed, ZenonT(60)
<1>10. SinkOk(a, k, k, r)
  <2>1. Run(r.pending, a, k + 1, k - k)
    <3>1. k - k = 0  OBVIOUS
    <3> QED BY <1>9, <3>1, NoRun
  <2>2. Run(r.head, a, 1, HeadLen(k))
    <3>1. CASE j <= H
      <4>1. HeadLen(j) = j /\ 1 + j = j + 1  BY <3>1 DEF HeadLen
      <4> Run(s.head, a, 1, j) /\ Run(g, a, 1 + j, x)  BY <1>1, <1>5, <4>1
      <4>2. Run(s.head \o g, a, 1, j + x)  BY RunConcat
      <4>3. j + x = HeadLen(k)  BY <1>2, <1>3, <3>1 DEF HeadLen
      <4> QED BY <1>9, <4>2, <4>3
    <3>2. CASE j > H
      <4>1. x = 0 /\ HeadLen(j) = HeadLen(k)  BY <1>2, <1>3, <3>2 DEF HeadLen
      <4>2. s.head \o g = s.head  BY <1>5, <1>6, <4>1, NothingJoined
      <4> QED BY <1>1, <1>9, <3>2, <4>1, <4>2
    <3> QED BY <3>1, <3>2
  <2>3. (h # <<>> \/ j > H) <=> k > H
    <3>1. CASE j <= H
      <4>1. m - x = 0 <=> k <= H  BY <1>2, <1>3, <3>1
      <4> QED BY <1>5, <3>1, <4>1
    <3>2. CASE j > H  BY <3>2
    <3> QED BY <3>1, <3>2
  <2>4. (r.headFull <=> k > H)  BY <1>1, <1>9, <2>3
  <2>5. k <= H => ~r.tailDirty
    <3>1. k <= H => h = <<>> /\ j <= H  BY <2>3
    <3> QED BY <1>1, <1>9, <3>1
  <2> QED BY <1>7, <1>9, <2>1, <2>2, <2>4, <2>5 DEF SinkOk
<1>11. Written(a, k, r, e)
  <2>1. e \in Seq(Text)  BY DEF Written
  <2>2. ASSUME k <= H PROVE \E y \in 0..k : Run(e, a, 1, y) /\ Run(r.unwritten, a, y + 1, k - y)
    <3>1. j <= H  BY <2>2
    <3>2. PICK y \in 0..j : Run(e, a, 1, y) /\ Run(s.unwritten, a, y + 1, j - y)
      BY <3>1 DEF Written
    <3>3. PICK p \in Nat : p = j - y  OBVIOUS
    <3>4. x = m  BY <1>2, <1>3, <2>2, <3>1
    <3>5. y + 1 + p = j + 1 /\ p + x = k - y  BY <3>3, <3>4
    <3>6. Run(s.unwritten \o g, a, y + 1, p + x)  BY <1>5, <3>2, <3>3, <3>5, RunConcat
    <3> QED BY <1>9, <3>2, <3>5, <3>6
  <2>3. ASSUME k > H, ~r.tailDirty, r.unwritten = <<>> PROVE e = B!Kept(a, k)
    <3>1. h = <<>> /\ ~s.tailDirty  BY <1>9, <2>3
    <3>2. j > H
      <4>1. m - x = 0  BY <1>5, <3>1
      <4> QED BY <1>2, <1>3, <2>3, <4>1
    <3>3. x = 0 /\ m = 0 /\ j = k  BY <1>2, <1>3, <1>5, <3>1, <3>2
    <3>4. s.unwritten = <<>>
      <4>1. g = <<>>  BY <1>5, <3>3
      <4>2. s.unwritten \o g = s.unwritten  BY <1>6, <4>1, NothingJoined
      <4> QED BY <1>9, <2>3, <4>2
    <3> QED BY <3>1, <3>2, <3>3, <3>4 DEF Written
  <2> QED BY <2>1, <2>2, <2>3 DEF Written
<1> QED BY <1>8, <1>10, <1>11

\* A sink that differs in what is written only.
LEMMA SinkSame ==
  ASSUME NEW a, NEW k, NEW j, NEW s, NEW r \in SinkType, SinkOk(a, k, j, s),
         r.pending = s.pending, r.head = s.head, (r.headFull <=> s.headFull),
         r.tail = s.tail, r.tailDirty => s.tailDirty
  PROVE  SinkOk(a, k, j, r)
<1>1. /\ Run(r.pending, a, j + 1, k - j) /\ Run(r.head, a, 1, HeadLen(j))
      /\ (r.headFull <=> j > HeadCap)
  BY DEF SinkOk
<1>2. j <= HeadCap => r.tail = <<>> /\ ~r.tailDirty  BY DEF SinkOk
<1>3. j > HeadCap => Run(r.tail, a, j + 1 - TailLen(j), TailLen(j))  BY DEF SinkOk
<1> QED BY <1>1, <1>2, <1>3 DEF SinkOk

\* Nothing is due: after the last flush that means that all is written.
LEMMA SinkRests ==
  ASSUME NEW a \in Nat, NEW k \in Nat, NEW t, NEW e, NEW final \in BOOLEAN, NEW r,
         SinkOk(a, k, k, t), Written(a, k, t, e), ~B!Due(t, final),
         r = [t EXCEPT !.timer = FALSE]
  PROVE  /\ SinkOk(a, k, k, r) /\ Written(a, k, r, e)
         /\ final => e = B!Kept(a, k)
<1>1. t \in SinkType  BY DEF SinkOk
<1>2. r \in SinkType  BY <1>1 DEF SinkType
<1>3. r.pending = t.pending /\ r.head = t.head /\ r.tail = t.tail /\ r.unwritten = t.unwritten
  BY <1>1 DEF SinkType
<1>4. (r.headFull <=> t.headFull)  BY <1>1 DEF SinkType
<1>5. (r.tailDirty <=> t.tailDirty)  BY <1>1 DEF SinkType
<1>6. SinkOk(a, k, k, r)  BY <1>2, <1>3, <1>4, <1>5, SinkSame
<1>7. Written(a, k, r, e)  BY <1>3, <1>5 DEF Written
<1>8. ASSUME final PROVE e = B!Kept(a, k)
  <2>1. (t.headFull <=> k > HeadCap)  BY DEF SinkOk
  <2>2. CASE k > HeadCap
    <3>1. ~t.tailDirty /\ t.unwritten = <<>>  BY <1>8, <2>1, <2>2 DEF B!Due
    <3> QED BY <2>2, <3>1 DEF Written
  <2>3. CASE ~(k > HeadCap)
    <3>1. k <= HeadCap  BY <2>3, LogsAssumption
    <3>2. PICK x \in 0..k : Run(e, a, 1, x) /\ Run(t.unwritten, a, x + 1, k - x)
      BY <3>1 DEF Written
    <3>3. t.unwritten = <<>>  BY <2>1, <2>3 DEF B!Due
    <3>4. k - x = 0  BY <3>2, <3>3, RunLength
    <3>5. x = k  BY <3>4
    <3> QED BY <3>1, <3>2, <3>5, KeptHead
  <2> QED BY <2>2, <2>3
<1> QED BY <1>6, <1>7, <1>8

\* What becomes of an absorbed sink t and of the write x that a flush issues.
Appends(t, final, r, x) ==
  /\ ~t.headFull
  /\ r = [t EXCEPT !.unwritten = <<>>, !.timer = FALSE]
  /\ x = [op |-> "append", text |-> t.unwritten, awaited |-> final]

Rewrites(t, final, r, x) ==
  /\ t.headFull
  /\ r = [t EXCEPT !.unwritten = <<>>, !.tailDirty = FALSE, !.limited = TRUE,
                   !.timer = FALSE]
  /\ x = [op |-> "replace", text |-> t.head \o <<Notice>> \o t.tail, awaited |-> final]

\* What the head has gained is appended to what has been written.
LEMMA SinkAppends ==
  ASSUME NEW a \in Nat, NEW k \in Nat, NEW t, NEW e, NEW final \in BOOLEAN, NEW r, NEW x,
         SinkOk(a, k, k, t), Written(a, k, t, e), Appends(t, final, r, x)
  PROVE  /\ x \in WriteType /\ Applied(x, e) = B!Kept(a, k)
         /\ SinkOk(a, k, k, r) /\ Written(a, k, r, B!Kept(a, k))
<1> USE DEF Appends
<1>1. t \in SinkType  BY DEF SinkOk
<1>2. <<>> \in Seq(Text)  OBVIOUS
<1>3. r \in SinkType  BY <1>1, <1>2 DEF SinkType
<1>4. r.pending = t.pending /\ r.head = t.head /\ r.tail = t.tail /\ r.unwritten = <<>>
  BY <1>1 DEF SinkType
<1>5. (r.headFull <=> t.headFull)  BY <1>1 DEF SinkType
<1>6. (r.tailDirty <=> t.tailDirty)  BY <1>1 DEF SinkType
<1>7. SinkOk(a, k, k, r)  BY <1>3, <1>4, <1>5, <1>6, SinkSame
<1>8. (t.headFull <=> k > HeadCap)  BY DEF SinkOk
<1>9. k <= HeadCap  BY <1>8, LogsAssumption
<1>10. PICK y \in 0..k : Run(e, a, 1, y) /\ Run(t.unwritten, a, y + 1, k - y)
  BY <1>9 DEF Written
<1>11. Run(e \o t.unwritten, a, 1, k)
  <2>1. PICK p \in Nat : p = k - y  OBVIOUS
  <2>2. 1 + y = y + 1 /\ y + p = k  BY <2>1
  <2>3. Run(t.unwritten, a, 1 + y, p)  BY <1>10, <2>1, <2>2
  <2>4. Run(e \o t.unwritten, a, 1, y + p)  BY <1>10, <2>3, RunConcat
  <2> QED BY <2>2, <2>4
<1>12. e \o t.unwritten = B!Kept(a, k)  BY <1>9, <1>11, KeptHead
<1>13. x \in WriteType
  <2>1. t.unwritten \in Seq(Text)  BY <1>1 DEF SinkType
  <2> QED BY <2>1 DEF WriteType
<1>14. Applied(x, e) = B!Kept(a, k)  BY <1>12 DEF Applied
<1>15. Written(a, k, r, B!Kept(a, k))
  <2>1. Run(B!Kept(a, k), a, 1, k)  BY <1>11, <1>12
  <2>2. B!Kept(a, k) \in Seq(Text)  BY <2>1 DEF Run
  <2>3. Run(r.unwritten, a, k + 1, k - k)
    <3>1. k - k = 0  OBVIOUS
    <3> QED BY <1>4, <3>1, NoRun
  <2>4. k \in 0..k  OBVIOUS
  <2> QED BY <2>1, <2>2, <2>3, <2>4 DEF Written
<1> QED BY <1>7, <1>13, <1>14, <1>15

\* Once the head is full, head, notice and tail replace what has been written.
LEMMA SinkRewrites ==
  ASSUME NEW a \in Nat, NEW k \in Nat, NEW t, NEW e, NEW final \in BOOLEAN, NEW r, NEW x,
         SinkOk(a, k, k, t), Written(a, k, t, e), Rewrites(t, final, r, x)
  PROVE  /\ x \in WriteType /\ Applied(x, e) = B!Kept(a, k)
         /\ SinkOk(a, k, k, r) /\ Written(a, k, r, B!Kept(a, k))
<1> USE DEF Rewrites
<1>1. t \in SinkType  BY DEF SinkOk
<1>2. <<>> \in Seq(Text)  OBVIOUS
<1>3. r \in SinkType
  <2>1. PICK q \in SinkType : q = [t EXCEPT !.unwritten = <<>>, !.tailDirty = FALSE]
    BY <1>1, <1>2 DEF SinkType
  <2>2. [q EXCEPT !.limited = TRUE, !.timer = FALSE] \in SinkType
    BY <2>1 DEF SinkType
  <2>3. r = [q EXCEPT !.limited = TRUE, !.timer = FALSE]  BY <1>1, <2>1 DEF SinkType
  <2> QED BY <2>2, <2>3
<1>4. r.pending = t.pending /\ r.head = t.head /\ r.tail = t.tail /\ r.unwritten = <<>>
  BY <1>1 DEF SinkType
<1>5. (r.headFull <=> t.headFull)  BY <1>1 DEF SinkType
<1>6. ~r.tailDirty  BY <1>1 DEF SinkType
<1>7. SinkOk(a, k, k, r)  BY <1>3, <1>4, <1>5, <1>6, SinkSame
<1>8. k > HeadCap  BY DEF SinkOk
<1>9. /\ Run(t.head, a, 1, HeadCap)
      /\ Run(t.tail, a, k + 1 - TailLen(k), TailLen(k))
  <2>1. HeadLen(k) = HeadCap  BY <1>8, LogsAssumption DEF HeadLen
  <2>2. Run(t.head, a, 1, HeadLen(k))  BY DEF SinkOk
  <2>3. Run(t.tail, a, k + 1 - TailLen(k), TailLen(k))  BY <1>8 DEF SinkOk
  <2> QED BY <2>1, <2>2, <2>3
<1>10. t.head \o <<Notice>> \o t.tail = B!Kept(a, k)  BY <1>8, <1>9, KeptBoth
<1>11. t.head \o <<Notice>> \o t.tail \in Seq(Text)
  <2>1. t.head \in Seq(Text) /\ t.tail \in Seq(Text)  BY <1>1 DEF SinkType
  <2>2. Notice \in Text  BY DEF Text
  <2>3. <<Notice>> \in Seq(Text)  BY <2>2
  <2>4. t.head \o <<Notice>> \in Seq(Text)  BY <2>1, <2>3
  <2> QED BY <2>1, <2>4
<1>12. x \in WriteType  BY <1>11 DEF WriteType
<1>13. Applied(x, e) = B!Kept(a, k)  BY <1>10 DEF Applied
<1>14. Written(a, k, r, B!Kept(a, k))
  <2>1. ~(k <= HeadCap)  BY <1>8, LogsAssumption
  <2> QED BY <1>10, <1>11, <2>1 DEF Written
<1> QED BY <1>7, <1>12, <1>13, <1>14

\* The time between rewrites has passed.
LEMMA SinkUnlimited ==
  ASSUME NEW a, NEW k, NEW j, NEW s, NEW e, NEW r, SinkOk(a, k, j, s), Written(a, j, s, e),
         r = [s EXCEPT !.limited = FALSE]
  PROVE  SinkOk(a, k, j, r) /\ Written(a, j, r, e)
<1>1. s \in SinkType  BY DEF SinkOk
<1>2. r \in SinkType  BY <1>1 DEF SinkType
<1>3. r.pending = s.pending /\ r.head = s.head /\ r.tail = s.tail /\ r.unwritten = s.unwritten
  BY <1>1 DEF SinkType
<1>4. (r.headFull <=> s.headFull)  BY <1>1 DEF SinkType
<1>5. (r.tailDirty <=> s.tailDirty)  BY <1>1 DEF SinkType
<1>6. SinkOk(a, k, j, r)  BY <1>2, <1>3, <1>4, <1>5, SinkSame
<1>7. Written(a, j, r, e)  BY <1>3, <1>5 DEF Written
<1> QED BY <1>6, <1>7

-----------------------------------------------------------------------------
(***************************************************************************)
(* The inductive invariant, of a database that executes the writes in      *)
(* their order: a stored log and the writes under way on it are one        *)
(* snapshot after the other, and what the last one lacks is in the sink.   *)
(***************************************************************************)
LogOpen(a, k, s, v, q) ==
  \E j \in 0..k : SinkOk(a, k, j, s) /\ Written(a, j, s, v[Len(q)])

LogOk(a, k, p, s, q, e) ==
  /\ a \in Nat /\ k \in Nat
  /\ p = "begin" => q = <<>> /\ s = B!NewSink /\ k = 0
  /\ p = "down" => s = B!NewSink
  /\ p \in {"open", "ending", "closed"} =>
       \E v : /\ Chain(v, e, q) /\ Snapshots(v, q, a, k)
              /\ (p = "open" => LogOpen(a, k, s, v, q))
              /\ (p # "open" => v[Len(q)] = B!Kept(a, k))

LogInv == ordered => LogOk(attempt, n, phase, sink, writes, stored)

\* The log is cleared for an attempt.
LEMMA LogClears ==
  ASSUME NEW a, NEW k, NEW s, NEW q, NEW e, LogOk(a, k, "begin", s, q, e)
  PROVE  LogOk(a, k, "open", s, q, <<>>)
<1>1. a \in Nat /\ k = 0 /\ q = <<>> /\ s = B!NewSink  BY DEF LogOk
<1>2. PICK z : z = B!NewSink  OBVIOUS
<1>3. SinkOk(a, 0, 0, z) /\ Written(a, 0, z, <<>>) /\ <<>> = B!Kept(a, 0)
  BY <1>1, <1>2, SinkStarts
<1>4. PICK v : v = [i \in 0..0 |-> <<>>]  OBVIOUS
<1>5. v[0] = <<>>  BY <1>4
<1>6. Chain(v, <<>>, <<>>)
  <2>1. <<>> \in Seq(Text) /\ <<>> \in Seq(WriteType) /\ Len(<<>>) = 0  OBVIOUS
  <2>2. v \in [0..0 -> Seq(Text)]  BY <1>4, <2>1
  <2> QED BY <1>5, <2>1, <2>2 DEF Chain
<1>7. Snapshots(v, <<>>, a, 0)  BY <1>3, <1>5 DEF Snapshots
<1>8. LogOpen(a, 0, z, v, <<>>)  BY <1>3, <1>5 DEF LogOpen
<1> QED BY <1>1, <1>2, <1>6, <1>7, <1>8 DEF LogOk

\* A line is logged.
LEMMA LogLogs ==
  ASSUME NEW a, NEW k, NEW s, NEW q, NEW e, NEW r, LogOk(a, k, "open", s, q, e),
         r = [s EXCEPT !.pending = Append(@, <<a, k + 1>>), !.timer = TRUE]
  PROVE  LogOk(a, k + 1, "open", r, q, e)
<1>1. a \in Nat /\ k \in Nat  BY DEF LogOk
<1>2. PICK v : Chain(v, e, q) /\ Snapshots(v, q, a, k) /\ LogOpen(a, k, s, v, q)
  BY DEF LogOk
<1>3. PICK j \in 0..k : SinkOk(a, k, j, s) /\ Written(a, j, s, v[Len(q)])
  BY <1>2 DEF LogOpen
<1>4. SinkOk(a, k + 1, j, r) /\ Written(a, j, r, v[Len(q)])
  <2>1. PICK d : d = v[Len(q)]  OBVIOUS
  <2>2. SinkOk(a, k, j, s) /\ Written(a, j, s, d)  BY <1>3, <2>1
  <2>3. r = [s EXCEPT !.pending = Append(@, <<a, k + 1>>), !.timer = TRUE]  OBVIOUS
  <2>4. SinkOk(a, k + 1, j, r) /\ Written(a, j, r, d)
    BY <1>1, <1>3, <2>2, <2>3, SinkLogs
  <2> QED BY <2>1, <2>4
<1>5. j \in 0..(k + 1)  BY <1>1, <1>3
<1>6. LogOpen(a, k + 1, r, v, q)  BY <1>4, <1>5 DEF LogOpen
<1>7. Snapshots(v, q, a, k + 1)  BY <1>1, <1>2, MoreSnapshots
<1>8. k + 1 \in Nat  BY <1>1
<1> QED BY <1>1, <1>2, <1>6, <1>7, <1>8 DEF LogOk

\* A flush writes nothing ...
LEMMA LogRests ==
  ASSUME NEW a, NEW k, NEW s, NEW q, NEW e, NEW r, NEW final \in BOOLEAN,
         LogOk(a, k, "open", s, q, e),
         ~B!Due(B!Absorb(s), final), r = [B!Absorb(s) EXCEPT !.timer = FALSE]
  PROVE  LogOk(a, k, "open", r, q, e) /\ (final => LogOk(a, k, "closed", r, q, e))
<1>1. a \in Nat /\ k \in Nat  BY DEF LogOk
<1>2. PICK v : Chain(v, e, q) /\ Snapshots(v, q, a, k) /\ LogOpen(a, k, s, v, q)
  BY DEF LogOk
<1>3. PICK j \in 0..k : SinkOk(a, k, j, s) /\ Written(a, j, s, v[Len(q)])
  BY <1>2 DEF LogOpen
<1>4. PICK t : t = B!Absorb(s)  OBVIOUS
<1>5. SinkOk(a, k, k, t) /\ Written(a, k, t, v[Len(q)])  BY <1>1, <1>3, <1>4, SinkAbsorbs
<1>6. ~B!Due(t, final) /\ r = [t EXCEPT !.timer = FALSE]  BY <1>4
<1>7. /\ SinkOk(a, k, k, r) /\ Written(a, k, r, v[Len(q)])
      /\ (final => v[Len(q)] = B!Kept(a, k))
  BY <1>1, <1>5, <1>6, SinkRests
<1>8. k \in 0..k  BY <1>1
<1>9. LogOpen(a, k, r, v, q)  BY <1>7, <1>8 DEF LogOpen
<1>10. LogOk(a, k, "open", r, q, e)  BY <1>1, <1>2, <1>9 DEF LogOk
<1>11. final => LogOk(a, k, "closed", r, q, e)  BY <1>1, <1>2, <1>7 DEF LogOk
<1> QED BY <1>10, <1>11

\* ... or issues a write.
LEMMA LogWrites ==
  ASSUME NEW a, NEW k, NEW s, NEW q, NEW e, NEW r, NEW x, NEW final \in BOOLEAN,
         LogOk(a, k, "open", s, q, e),
         \/ Appends(B!Absorb(s), final, r, x) \/ Rewrites(B!Absorb(s), final, r, x)
  PROVE  /\ LogOk(a, k, "open", r, Append(q, x), e)
         /\ LogOk(a, k, "ending", r, Append(q, x), e)
<1>1. a \in Nat /\ k \in Nat  BY DEF LogOk
<1>2. PICK v : Chain(v, e, q) /\ Snapshots(v, q, a, k) /\ LogOpen(a, k, s, v, q)
  BY DEF LogOk
<1>3. PICK j \in 0..k : SinkOk(a, k, j, s) /\ Written(a, j, s, v[Len(q)])
  BY <1>2 DEF LogOpen
<1>4. PICK t : t = B!Absorb(s)  OBVIOUS
<1>5. SinkOk(a, k, k, t) /\ Written(a, k, t, v[Len(q)])  BY <1>1, <1>3, <1>4, SinkAbsorbs
<1>6. /\ x \in WriteType /\ Applied(x, v[Len(q)]) = B!Kept(a, k)
      /\ SinkOk(a, k, k, r) /\ Written(a, k, r, B!Kept(a, k))
  <2>3. PICK d : d = v[Len(q)]  OBVIOUS
  <2>4. SinkOk(a, k, k, t) /\ Written(a, k, t, d)  BY <1>5, <2>3
  <2> SUFFICES /\ x \in WriteType /\ Applied(x, d) = B!Kept(a, k)
               /\ SinkOk(a, k, k, r) /\ Written(a, k, r, B!Kept(a, k))
    BY <2>3
  <2>1. CASE Appends(t, final, r, x)  BY <1>1, <2>4, <2>1, SinkAppends
  <2>2. CASE Rewrites(t, final, r, x)  BY <1>1, <2>4, <2>2, SinkRewrites
  <2> QED BY <1>4, <2>1, <2>2
<1>7. PICK y : y = Append(q, x)  OBVIOUS
<1>8. PICK u : Chain(u, e, y) /\ Snapshots(u, y, a, k) /\ u[Len(y)] = B!Kept(a, k)
  BY <1>1, <1>2, <1>6, <1>7, ChainExtend
<1>9. LogOpen(a, k, r, u, y)
  <2>1. k \in 0..k  BY <1>1
  <2> QED BY <1>6, <1>8, <2>1 DEF LogOpen
<1>10. LogOk(a, k, "open", r, y, e)  BY <1>1, <1>8, <1>9 DEF LogOk
<1>11. LogOk(a, k, "ending", r, y, e)  BY <1>1, <1>8 DEF LogOk
<1> QED BY <1>7, <1>10, <1>11

\* The oldest write is done.
LEMMA LogStores ==
  ASSUME NEW a, NEW k, NEW p, NEW s, NEW q, NEW e, NEW y, NEW x, LogOk(a, k, p, s, q, e),
         q # <<>>, y = AfterFirst(q),
         \/ x = p
         \/ p = "ending" /\ x = "closed"
         \/ x = "broken"
  PROVE  LogOk(a, k, x, s, y, Applied(q[1], e))
<1>1. a \in Nat /\ k \in Nat  BY DEF LogOk
<1>2. p # "begin"  BY DEF LogOk
<1>3. x = "down" => s = B!NewSink  BY DEF LogOk
<1>4. ASSUME x \in {"open", "ending", "closed"}
      PROVE  \E u : /\ Chain(u, Applied(q[1], e), y) /\ Snapshots(u, y, a, k)
                    /\ (x = "open" => LogOpen(a, k, s, u, y))
                    /\ (x # "open" => u[Len(y)] = B!Kept(a, k))
  <2>1. p \in {"open", "ending", "closed"} /\ (x = "open" <=> p = "open")  BY <1>4
  <2>2. PICK v : /\ Chain(v, e, q) /\ Snapshots(v, q, a, k)
                 /\ (p = "open" => LogOpen(a, k, s, v, q))
                 /\ (p # "open" => v[Len(q)] = B!Kept(a, k))
    BY <2>1 DEF LogOk
  <2>3. PICK u : /\ Chain(u, Applied(q[1], e), y) /\ Snapshots(u, y, a, k)
                 /\ u[Len(y)] = v[Len(q)]  BY <2>2, ChainShift
  <2>4. x = "open" => LogOpen(a, k, s, u, y)  BY <2>1, <2>2, <2>3 DEF LogOpen
  <2> QED BY <2>1, <2>2, <2>3, <2>4
<1> QED BY <1>1, <1>2, <1>3, <1>4 DEF LogOk

\* The time between rewrites has passed.
LEMMA LogUnlimited ==
  ASSUME NEW a, NEW k, NEW p, NEW s, NEW q, NEW e, NEW r, LogOk(a, k, p, s, q, e),
         s.limited, r = [s EXCEPT !.limited = FALSE]
  PROVE  LogOk(a, k, p, r, q, e)
<1>1. a \in Nat /\ k \in Nat  BY DEF LogOk
<1>2. s # B!NewSink  BY NewSinkType
<1>3. p # "begin" /\ p # "down"  BY <1>2 DEF LogOk
<1>4. ASSUME p \in {"open", "ending", "closed"}
      PROVE  \E v : /\ Chain(v, e, q) /\ Snapshots(v, q, a, k)
                    /\ (p = "open" => LogOpen(a, k, r, v, q))
                    /\ (p # "open" => v[Len(q)] = B!Kept(a, k))
  <2>1. PICK v : /\ Chain(v, e, q) /\ Snapshots(v, q, a, k)
                 /\ (p = "open" => LogOpen(a, k, s, v, q))
                 /\ (p # "open" => v[Len(q)] = B!Kept(a, k))
    BY <1>4 DEF LogOk
  <2>2. ASSUME p = "open" PROVE LogOpen(a, k, r, v, q)
    <3>1. PICK d : d = v[Len(q)]  OBVIOUS
    <3>2. PICK j \in 0..k : SinkOk(a, k, j, s) /\ Written(a, j, s, d)
      BY <2>1, <2>2, <3>1 DEF LogOpen
    <3>3. SinkOk(a, k, j, r) /\ Written(a, j, r, d)  BY <3>2, SinkUnlimited
    <3> QED BY <3>1, <3>2, <3>3 DEF LogOpen
  <2> QED BY <2>1, <2>2
<1> QED BY <1>1, <1>3, <1>4 DEF LogOk

\* The log is given up, whatever it holds: the job has failed, or its process has died.
LEMMA LogGivenUp ==
  ASSUME NEW a, NEW k, NEW p, NEW s, NEW q, NEW e, NEW r, NEW y, NEW m \in Nat, NEW x,
         LogOk(a, k, p, s, q, e),
         x \in {"caught", "reporting", "broken"} \/ (x = "down" /\ r = B!NewSink)
  PROVE  LogOk(a, m, x, r, y, e)
BY DEF LogOk

\* No attempt has begun at first.
LEMMA LogStart ==
  ASSUME B!Init PROVE LogInv
BY DEF LogInv, LogOk, B!Init

\* Every step of BuildLog, in the order of its Next.
LEMMA LogStep ==
  ASSUME LogInv, B!Next PROVE LogInv'
<1> SUFFICES ASSUME ordered'
             PROVE  LogOk(attempt', n', phase', sink', writes', stored')
  BY DEF LogInv
<1>1. ordered
  BY DEF B!Next, B!ClearLog, B!LogLine, B!TimerFires, B!End, B!ReportFailure, B!LimitPasses,
         B!WriteStep, B!CompleteWrite, B!RejectWrite, B!LoseWrite, B!WorkerCrash, B!RunAgain,
         B!Replay, B!Subscribe, B!Hangup
<1> PICK a, k, p, s, q, e : /\ a = attempt /\ k = n /\ p = phase /\ s = sink
                            /\ q = writes /\ e = stored
  OBVIOUS
<1>2. LogOk(a, k, p, s, q, e)  BY <1>1 DEF LogInv
<1>3. a \in Nat /\ k \in Nat  BY <1>2 DEF LogOk
<1>4. CASE B!ClearLog
  <2>1. /\ p = "begin" /\ phase' = "open" /\ stored' = <<>>
        /\ attempt' = a /\ n' = k /\ sink' = s /\ writes' = q
    BY <1>4 DEF B!ClearLog
  <2> QED BY <1>2, <2>1, LogClears
<1>5. CASE B!LogLine
  <2>1. /\ p = "open" /\ phase' = "open" /\ stored' = e /\ attempt' = a /\ n' = k + 1
        /\ writes' = q
        /\ sink' = [s EXCEPT !.pending = Append(@, <<a, k + 1>>), !.timer = TRUE]
    BY <1>5 DEF B!LogLine, B!Line
  <2> QED BY <1>2, <2>1, LogLogs
<1>6. CASE B!TimerFires
  <2>1. /\ p = "open" /\ phase' = "open" /\ stored' = e /\ attempt' = a /\ n' = k
        /\ B!Flush(FALSE)
    BY <1>6 DEF B!TimerFires
  <2>2. CASE B!Due(B!Absorb(sink), FALSE)
    <3>1. B!Send(B!Absorb(sink), FALSE)  BY <2>1, <2>2 DEF B!Flush
    <3>2. PICK r, x : /\ r = sink' /\ writes' = Append(q, x)
                      /\ Appends(B!Absorb(s), FALSE, r, x) \/ Rewrites(B!Absorb(s), FALSE, r, x)
      BY <3>1 DEF B!Send, B!AppendHead, B!RewriteAll, B!Write, Appends, Rewrites
    <3>3. LogOk(a, k, "open", r, Append(q, x), e)  BY <1>2, <2>1, <3>2, LogWrites
    <3> QED BY <2>1, <3>2, <3>3
  <2>3. CASE ~B!Due(B!Absorb(sink), FALSE)
    <3>1. writes' = q /\ sink' = [B!Absorb(s) EXCEPT !.timer = FALSE]
      BY <2>1, <2>3 DEF B!Flush
    <3>2. PICK r : r = sink' /\ r = [B!Absorb(s) EXCEPT !.timer = FALSE]  BY <3>1
    <3>3. LogOk(a, k, "open", r, q, e)  BY <1>2, <2>1, <2>3, <3>2, LogRests
    <3> QED BY <2>1, <3>1, <3>2, <3>3
  <2> QED BY <2>2, <2>3
<1>7. CASE B!End
  <2>1. /\ p = "open" /\ stored' = e /\ attempt' = a /\ n' = k /\ B!Flush(TRUE)
        /\ phase' = IF B!Due(B!Absorb(sink), TRUE) THEN "ending" ELSE "closed"
    BY <1>7 DEF B!End
  <2>2. CASE B!Due(B!Absorb(sink), TRUE)
    <3>1. B!Send(B!Absorb(sink), TRUE)  BY <2>1, <2>2 DEF B!Flush
    <3>2. PICK r, x : /\ r = sink' /\ writes' = Append(q, x)
                      /\ Appends(B!Absorb(s), TRUE, r, x) \/ Rewrites(B!Absorb(s), TRUE, r, x)
      BY <3>1 DEF B!Send, B!AppendHead, B!RewriteAll, B!Write, Appends, Rewrites
    <3>3. LogOk(a, k, "ending", r, Append(q, x), e)  BY <1>2, <2>1, <3>2, LogWrites
    <3> QED BY <2>1, <2>2, <3>2, <3>3
  <2>3. CASE ~B!Due(B!Absorb(sink), TRUE)
    <3>1. writes' = q /\ sink' = [B!Absorb(s) EXCEPT !.timer = FALSE]
      BY <2>1, <2>3 DEF B!Flush
    <3>2. PICK r : r = sink' /\ r = [B!Absorb(s) EXCEPT !.timer = FALSE]  BY <3>1
    <3>3. LogOk(a, k, "closed", r, q, e)  BY <1>2, <2>1, <2>3, <3>2, LogRests
    <3> QED BY <2>1, <2>3, <3>1, <3>2, <3>3
  <2> QED BY <2>2, <2>3
<1>8. CASE B!ReportFailure
  <2>1. phase' = "reporting" /\ stored' = e /\ attempt' = a /\ n' = k + 1
    BY <1>8 DEF B!ReportFailure
  <2>2. k + 1 \in Nat  BY <1>3
  <2> QED BY <1>2, <2>1, <2>2, LogGivenUp
<1>9. CASE B!LimitPasses
  <2>1. /\ s.limited /\ sink' = [s EXCEPT !.limited = FALSE]
        /\ phase' = p /\ stored' = e /\ attempt' = a /\ n' = k /\ writes' = q
    BY <1>9 DEF B!LimitPasses
  <2> QED BY <1>2, <2>1, LogUnlimited
<1>10. CASE B!WriteStep
  <2>1. PICK i \in 1..Len(writes) : B!CompleteWrite(i)  BY <1>10 DEF B!WriteStep
  <2>2. /\ i = 1 /\ attempt' = a /\ n' = k /\ sink' = s
        /\ stored' = Applied(q[1], e) /\ writes' = B!Without(1)
        /\ \/ phase' = p
           \/ p = "ending" /\ phase' = "closed"
           \/ phase' = "broken"
    BY <1>1, <2>1 DEF B!CompleteWrite, Applied
  <2>3. writes' = AfterFirst(q)  BY <2>2 DEF B!Without, AfterFirst
  <2>4. q # <<>>  BY <2>1
  <2> QED BY <1>2, <2>2, <2>3, <2>4, LogStores
<1>11. CASE \E i \in 1..Len(writes) : B!RejectWrite(i) \/ B!LoseWrite(i)
  <2>1. PICK i \in 1..Len(writes) : B!RejectWrite(i) \/ B!LoseWrite(i)  BY <1>11
  <2>2. CASE B!RejectWrite(i)
    <3>1. /\ attempt' = a /\ n' = k /\ stored' = e
          /\ phase' \in {"caught", "broken"} \/ (phase' = "down" /\ sink' = B!NewSink)
      BY <2>2 DEF B!RejectWrite
    <3> QED BY <1>2, <1>3, <3>1, LogGivenUp
  <2>3. CASE B!LoseWrite(i)
    <3>1. /\ p = "down" /\ attempt' = a /\ n' = k /\ stored' = e /\ phase' = p /\ sink' = s
      BY <2>3 DEF B!LoseWrite
    <3>2. s = B!NewSink  BY <1>2, <3>1 DEF LogOk
    <3> QED BY <1>2, <1>3, <3>1, <3>2, LogGivenUp
  <2> QED BY <2>1, <2>2, <2>3
<1>12. CASE B!WorkerCrash
  <2>1. /\ phase' = "down" /\ sink' = B!NewSink /\ attempt' = a /\ n' = k /\ stored' = e
    BY <1>12 DEF B!WorkerCrash
  <2> QED BY <1>2, <1>3, <2>1, LogGivenUp
<1>13. CASE B!RunAgain
  <2>1. /\ p = "down" /\ q = <<>> /\ attempt' = a + 1 /\ n' = 0 /\ phase' = "begin"
        /\ sink' = s /\ writes' = q /\ stored' = e
    BY <1>13 DEF B!RunAgain
  <2>2. s = B!NewSink /\ a + 1 \in Nat  BY <1>2, <1>3, <2>1 DEF LogOk
  <2> QED BY <2>1, <2>2 DEF LogOk
<1>14. CASE B!Replay \/ B!Subscribe \/ B!Hangup
  <2>1. /\ attempt' = a /\ n' = k /\ phase' = p /\ sink' = s /\ writes' = q /\ stored' = e
    BY <1>14 DEF B!Replay, B!Subscribe, B!Hangup
  <2> QED BY <1>2, <2>1
<1> QED
  BY <1>4, <1>5, <1>6, <1>7, <1>8, <1>9, <1>10, <1>11, <1>12, <1>13, <1>14 DEF B!Next

\* The invariant holds in every state, whichever part a behaviour follows.
THEOREM LogInvariant == DeploymentSpec => []LogInv
<1>1. ASSUME DeploymentInit PROVE LogInv
  BY <1>1, LogStart DEF DeploymentInit
<1>2. ASSUME LogInv, [DeploymentNext]_<<part, vars, logVars, tailVars>> PROVE LogInv'
  <2>1. CASE UNCHANGED logVars
    <3>1. /\ ordered' = ordered /\ attempt' = attempt /\ n' = n /\ phase' = phase
          /\ sink' = sink /\ writes' = writes /\ stored' = stored
      BY <2>1 DEF logVars
    <3> QED BY <1>2, <3>1 DEF LogInv
  <2>2. CASE B!Next  BY <1>2, <2>2, LogStep
  <2> QED BY <1>2, <2>1, <2>2 DEF DeploymentNext
<1> QED BY <1>1, <1>2, PTL DEF DeploymentSpec

\* When end() has returned and no write is under way, the stored log is complete: every
\* line, or the beginning, the notice and the most recent lines (build-log.ts).
THEOREM EndedLogComplete == DeploymentSpec => []StoredIsComplete
<1>1. ASSUME LogInv PROVE StoredIsComplete
  <2> SUFFICES ASSUME ordered, phase = "closed", writes = <<>>
               PROVE  stored = B!Kept(attempt, n)
    BY DEF StoredIsComplete, B!StoredIsComplete
  <2>1. LogOk(attempt, n, "closed", sink, <<>>, stored)  BY <1>1 DEF LogInv
  <2>2. PICK v : Chain(v, stored, <<>>) /\ v[Len(<<>>)] = B!Kept(attempt, n)
    BY <2>1 DEF LogOk
  <2>3. v[0] = stored /\ Len(<<>>) = 0  BY <2>2 DEF Chain
  <2> QED BY <2>2, <2>3
<1> QED BY <1>1, LogInvariant, PTL

\* What a reader finds at any moment of a run is the log as it was after some number of
\* its lines, never a mixture with an earlier run and never beyond the limit.
THEOREM StoredLogSnapshot == DeploymentSpec => []B!StoredIsASnapshot
<1>1. ASSUME LogInv PROVE B!StoredIsASnapshot
  <2> SUFFICES ASSUME ordered, phase \in {"open", "ending", "closed"}
               PROVE  \E k \in 0..n : stored = B!Kept(attempt, k)
    BY DEF B!StoredIsASnapshot
  <2>1. LogOk(attempt, n, phase, sink, writes, stored)  BY <1>1 DEF LogInv
  <2>2. PICK v : Chain(v, stored, writes) /\ Snapshots(v, writes, attempt, n)
    BY <2>1 DEF LogOk
  <2>3. v[0] = stored /\ 0 \in 0..Len(writes)
    <3>1. writes \in Seq(WriteType)  BY <2>2 DEF Chain
    <3>2. Len(writes) \in Nat  BY <3>1
    <3> QED BY <2>2, <3>2 DEF Chain
  <2> QED BY <2>2, <2>3 DEF Snapshots
<1> QED BY <1>1, LogInvariant, PTL
=============================================================================
