----------------------------- MODULE Datastore -----------------------------
(***************************************************************************)
(* The life of one managed datastore: the API that records requests and    *)
(* binds applications, BullMQ's datastore queue, the worker that           *)
(* provisions, rotates and deletes, and Docker with the container and the  *)
(* data volume.                                                            *)
(*                                                                         *)
(* Passwords are numbers in the order they are generated.  A postgres      *)
(* engine keeps its password in the volume (POSTGRES_PASSWORD only applies *)
(* at initdb), a redis engine in the container's arguments.                *)
(*                                                                         *)
(* Sources: apps/api/src/routes/datastores.ts, apps/worker/src/            *)
(* datastores.ts and datastore-spec.ts.                                    *)
(***************************************************************************)
EXTENDS Naturals, Sequences

CONSTANTS
  Kinds,        \* engines this instance considers
  Apps,         \* applications that may be bound
  FaultKinds,   \* the infrastructure faults this instance may suffer
  MaxFaults,    \* bound on the number of such faults
  MaxRequests,  \* bound on the number of requests after the creation
  MaxStalled    \* BullMQ maxStalledCount: re-runs of a stalled job

ASSUME KindsAssumption == Kinds \subseteq {"postgres", "redis"}
ASSUME BoundsAssumption ==
  /\ FaultKinds \subseteq {"docker", "db", "redis", "worker"}
  /\ MaxFaults \in Nat /\ MaxRequests \in Nat /\ MaxStalled \in Nat

VARIABLES
  kind,                   \* the engine
  row, bindings, env,     \* datastores row, its bindings, the URL in each app's env
  req, binder, requests,  \* progress of the API's requests, how many were made
  lock,                   \* activePostgresOperations: a dump or restore runs
  queue, stalled,         \* BullMQ: waiting jobs, ownerless active jobs
  w,                      \* the worker: its position in the job and its locals
  ctr, volume,            \* Docker
  issued, faults, crashes \* passwords generated, faults so far, crashes among them

rowVars    == <<row, bindings, env>>
apiVars    == <<req, binder, requests, lock>>
queueVars  == <<queue, stalled>>
dockerVars == <<ctr, volume>>
countVars  == <<issued, faults, crashes>>
vars == <<kind, rowVars, apiVars, queueVars, w, dockerVars, countVars>>

NoUrl == 0  \* no URL of this datastore in an env; also: no password in a volume

Routes == {"create", "provision", "rotate", "access", "delete"}
JobOf  == [create |-> "provision", provision |-> "provision", access |-> "provision",
           rotate |-> "rotate", delete |-> "delete"]
Jobs   == [type : {"provision", "rotate", "delete"}, runs : Nat]

NoCtr  == [state |-> "none", pw |-> NoUrl, pub |-> FALSE, nets |-> {}, bridge |-> FALSE]
NoReq  == [pc |-> "none", running |-> FALSE, pub |-> FALSE]
NoBind == [pc |-> "none", pw |-> NoUrl]
Fresh(p) == [pc |-> p, job |-> [type |-> "provision", runs |-> 0], pw |-> NoUrl,
             pub |-> FALSE, bound |-> {}, todo |-> {}]

PCs == {"down", "idle", "volume", "replace", "create", "start", "connect", "isolate",
        "ready", "record", "alter", "persist", "rewrite", "dismantle", "rmVolume",
        "rmRow", "fail", "ack"}

RowTypeOK ==
  /\ kind \in {"postgres", "redis"}
  /\ row \in [exists : BOOLEAN, pub : BOOLEAN, pw : Nat,
              status : {"idle", "provisioning", "running", "deleting", "error"}]
  /\ bindings \subseteq Apps /\ env \in [Apps -> Nat]

ApiTypeOK ==
  /\ req \in [Routes -> [pc : {"none", "checked", "ported", "marked"},
                         running : BOOLEAN, pub : BOOLEAN]]
  /\ binder \in [Apps -> [pc : {"none", "bind", "connect", "unbind", "disconnect"},
                          pw : Nat]]
  /\ lock \in BOOLEAN /\ requests \in Nat

QueueTypeOK == queue \in Seq(Jobs) /\ stalled \in Seq(Jobs)

WorkerTypeOK ==
  w \in [pc : PCs, job : Jobs, pw : Nat, pub : BOOLEAN, bound : SUBSET Apps,
         todo : SUBSET Apps]

DockerTypeOK ==
  /\ ctr \in [state : {"none", "stopped", "running"}, pw : Nat, pub : BOOLEAN,
              nets : SUBSET Apps, bridge : BOOLEAN]
  /\ volume \in [exists : BOOLEAN, pw : Nat]

CountTypeOK == issued \in Nat /\ faults \in Nat /\ crashes \in Nat

TypeOK == /\ RowTypeOK /\ ApiTypeOK /\ QueueTypeOK /\ WorkerTypeOK /\ DockerTypeOK
          /\ CountTypeOK

Init ==
  /\ kind \in Kinds
  /\ row = [exists |-> FALSE, pub |-> FALSE, pw |-> NoUrl, status |-> "idle"]
  /\ bindings = {} /\ env = [a \in Apps |-> NoUrl]
  /\ req = [x \in Routes |-> NoReq] /\ binder = [a \in Apps |-> NoBind]
  /\ requests = 0 /\ lock = FALSE
  /\ queue = <<>> /\ stalled = <<>>
  /\ w = Fresh("idle")
  /\ ctr = NoCtr /\ volume = [exists |-> FALSE, pw |-> NoUrl]
  /\ issued = 0 /\ faults = 0 /\ crashes = 0

\* One infrastructure fault of the given kind happens in this step.
Fault(k) == /\ k \in FaultKinds /\ faults < MaxFaults
            /\ faults' = faults + 1

-----------------------------------------------------------------------------
(***************************************************************************)
(* The API.  A request reads the row and checks it, updates it and adds a  *)
(* job, in separate awaited steps; requests of different routes interleave.*)
(***************************************************************************)
Advance(x, p) == req' = [req EXCEPT ![x].pc = p]
End(x)        == req' = [req EXCEPT ![x] = NoReq]

Create ==
  /\ issued = 0
  /\ row' = [exists |-> TRUE, pub |-> FALSE, pw |-> 1, status |-> "provisioning"]
  /\ issued' = 1
  /\ Advance("create", "marked")
  /\ UNCHANGED <<kind, bindings, env, binder, requests, lock, queueVars, w, dockerVars,
                 faults, crashes>>

Accepts(x) ==
  \/ x = "provision" /\ row.status \in {"idle", "error"}
  \/ x = "rotate" /\ ~lock /\ row.status = "running"
  \/ x = "access" /\ ~lock /\ row.status \notin {"provisioning", "deleting"}
  \/ x = "delete" /\ ~lock

CheckRequest(x) ==
  /\ req[x].pc = "none" /\ row.exists /\ requests < MaxRequests
  /\ Accepts(x)
  /\ req' = [req EXCEPT ![x] = [pc |-> IF x = "rotate" THEN "marked" ELSE "checked",
                                running |-> row.status = "running", pub |-> row.pub]]
  /\ requests' = requests + 1
  /\ UNCHANGED <<kind, rowVars, binder, lock, queueVars, w, dockerVars, countVars>>

\* The update of a row that is gone rejects and ends the request.
Updating(x, from, new, p) ==
  /\ req[x].pc = from
  /\ IF row.exists THEN row' = new /\ p
                   ELSE UNCHANGED row /\ End(x)
  /\ UNCHANGED <<kind, bindings, env, binder, requests, lock, queueVars, w, dockerVars,
                 countVars>>

MarkProvisioning ==
  Updating("provision", "checked", [row EXCEPT !.status = "provisioning"],
           Advance("provision", "marked"))

MarkDeleting ==
  Updating("delete", "checked", [row EXCEPT !.status = "deleting"],
           Advance("delete", "marked"))

\* Mutant: a running container keeps the ports it was created with.
TogglePortOnly ==
  Updating("access", "checked", [row EXCEPT !.pub = ~req["access"].pub], End("access"))

\* The toggle writes the opposite of what it read; only a datastore it read as
\* running is recreated.
TogglePort ==
  Updating("access", "checked", [row EXCEPT !.pub = ~req["access"].pub],
           IF req["access"].running THEN Advance("access", "ported") ELSE End("access"))

MarkRecreating ==
  Updating("access", "ported", [row EXCEPT !.status = "provisioning"],
           Advance("access", "marked"))

AddJob(x) ==
  /\ req[x].pc = "marked"
  /\ queue' = Append(queue, [type |-> JobOf[x], runs |-> 0])
  /\ End(x)
  /\ UNCHANGED <<kind, rowVars, binder, requests, lock, stalled, w, dockerVars, countVars>>

\* queue.add rejects or the API process dies: the row keeps the status it was given.
AddJobFails(x) ==
  /\ req[x].pc = "marked"
  /\ Fault("redis")
  /\ End(x)
  /\ UNCHANGED <<kind, rowVars, binder, requests, lock, queueVars, w, dockerVars,
                 issued, crashes>>

\* A dump or a restore of a running postgres holds the in-memory lock.
BeginDump ==
  /\ kind = "postgres" /\ row.exists /\ row.status = "running" /\ ~lock
  /\ requests < MaxRequests
  /\ requests' = requests + 1
  /\ lock' = TRUE
  /\ UNCHANGED <<kind, rowVars, req, binder, queueVars, w, dockerVars, countVars>>

EndDump ==
  /\ lock
  /\ lock' = FALSE
  /\ UNCHANGED <<kind, rowVars, req, binder, requests, queueVars, w, dockerVars, countVars>>

Binder(a, r) == binder' = [binder EXCEPT ![a] = r]

\* POST bindings: datastore and application are read, the URL computed ...
ReadToBind(a) ==
  /\ binder[a].pc = "none" /\ row.exists
  /\ Binder(a, [pc |-> "bind", pw |-> row.pw])
  /\ UNCHANGED <<kind, rowVars, req, requests, lock, queueVars, w, dockerVars, countVars>>

\* ... binding and env are written in one transaction, unless already bound ...
CommitBind(a) ==
  /\ binder[a].pc = "bind"
  /\ IF row.exists /\ a \notin bindings
       THEN /\ bindings' = bindings \cup {a}
            /\ env' = [env EXCEPT ![a] = binder[a].pw]
            /\ Binder(a, [NoBind EXCEPT !.pc = "connect"])
       ELSE UNCHANGED <<bindings, env>> /\ Binder(a, NoBind)
  /\ UNCHANGED <<kind, row, req, requests, lock, queueVars, w, dockerVars, countVars>>

\* ... and the container joins the application's network, errors swallowed.
ConnectApp(a) ==
  /\ binder[a].pc = "connect"
  /\ \/ /\ ctr' = IF ctr.state = "none" THEN ctr ELSE [ctr EXCEPT !.nets = @ \cup {a}]
        /\ UNCHANGED faults
     \/ Fault("docker") /\ UNCHANGED ctr
  /\ Binder(a, NoBind)
  /\ UNCHANGED <<kind, rowVars, req, requests, lock, queueVars, w, volume, issued, crashes>>

ReadToUnbind(a) ==
  /\ binder[a].pc = "none" /\ row.exists /\ a \in bindings
  /\ Binder(a, [NoBind EXCEPT !.pc = "unbind"])
  /\ UNCHANGED <<kind, rowVars, req, requests, lock, queueVars, w, dockerVars, countVars>>

CommitUnbind(a) ==
  /\ binder[a].pc = "unbind"
  /\ IF a \in bindings
       THEN /\ bindings' = bindings \ {a}
            /\ env' = [env EXCEPT ![a] = NoUrl]
            /\ Binder(a, [NoBind EXCEPT !.pc = "disconnect"])
       ELSE UNCHANGED <<bindings, env>> /\ Binder(a, NoBind)
  /\ UNCHANGED <<kind, row, req, requests, lock, queueVars, w, dockerVars, countVars>>

DisconnectApp(a) ==
  /\ binder[a].pc = "disconnect"
  /\ \/ ctr' = [ctr EXCEPT !.nets = @ \ {a}] /\ UNCHANGED faults
     \/ Fault("docker") /\ UNCHANGED ctr
  /\ Binder(a, NoBind)
  /\ UNCHANGED <<kind, rowVars, req, requests, lock, queueVars, w, volume, issued, crashes>>

-----------------------------------------------------------------------------
(***************************************************************************)
(* The worker: runProvision, runRotate and runDelete, one action per       *)
(* awaited effect.                                                         *)
(***************************************************************************)
Goto(p) == w' = [w EXCEPT !.pc = p]

EnginePw == IF kind = "postgres" THEN volume.pw ELSE ctr.pw

FirstStep(type) == CASE type = "provision" -> "volume"
                     [] type = "delete"    -> "dismantle"
                     [] type = "rotate"    -> IF kind = "postgres" THEN "alter"
                                                                   ELSE "volume"

\* Row and bindings are read once; a rotation draws its password here.
TakeJob ==
  /\ w.pc = "idle" /\ queue # <<>>
  /\ queue' = Tail(queue)
  /\ LET j == Head(queue) IN
       IF row.exists
         THEN /\ issued' = IF j.type = "rotate" THEN issued + 1 ELSE issued
              /\ w' = [pc |-> FirstStep(j.type), job |-> j,
                       pw |-> IF j.type = "rotate" THEN issued + 1 ELSE row.pw,
                       pub |-> row.pub, bound |-> bindings, todo |-> bindings]
         ELSE /\ w' = [Fresh("ack") EXCEPT !.job = j]
              /\ UNCHANGED issued
  /\ UNCHANGED <<kind, rowVars, apiVars, stalled, dockerVars, faults, crashes>>

LoadFails ==
  /\ w.pc = "idle" /\ queue # <<>>
  /\ Fault("db")
  /\ queue' = Tail(queue)
  /\ w' = [Fresh("fail") EXCEPT !.job = Head(queue)]
  /\ UNCHANGED <<kind, rowVars, apiVars, stalled, dockerVars, issued, crashes>>

\* ensureImage, then ensureVolume keeps a volume that exists.
EnsureVolume ==
  /\ w.pc = "volume"
  /\ volume' = [volume EXCEPT !.exists = TRUE]
  /\ Goto("replace")
  /\ UNCHANGED <<kind, rowVars, apiVars, queueVars, ctr, countVars>>

\* Stop and remove of the datastore's own container; their errors are swallowed.
ReplaceContainer ==
  /\ w.pc = "replace"
  /\ \/ ctr' = NoCtr /\ UNCHANGED faults
     \/ /\ ctr.state # "none" /\ Fault("docker")
        /\ \E s \in {ctr.state, "stopped"} : ctr' = [ctr EXCEPT !.state = s]
  /\ Goto("create")
  /\ UNCHANGED <<kind, rowVars, apiVars, queueVars, volume, issued, crashes>>

\* On the default bridge, from the snapshot; a name still taken throws.
CreateContainer ==
  /\ w.pc = "create"
  /\ IF ctr.state = "none"
       THEN /\ ctr' = [state |-> "stopped", pw |-> w.pw, pub |-> w.pub, nets |-> {},
                       bridge |-> TRUE]
            /\ Goto("start")
       ELSE UNCHANGED ctr /\ Goto("fail")
  /\ UNCHANGED <<kind, rowVars, apiVars, queueVars, volume, countVars>>

\* initdb takes the password of the environment when the volume is empty.
StartContainer ==
  /\ w.pc = "start"
  /\ ctr' = [ctr EXCEPT !.state = "running"]
  /\ volume' = IF volume.pw = NoUrl THEN [volume EXCEPT !.pw = ctr.pw] ELSE volume
  /\ Goto("connect")
  /\ UNCHANGED <<kind, rowVars, apiVars, queueVars, countVars>>

ConnectNetwork(a) ==
  /\ w.pc = "connect" /\ a \in w.todo
  /\ ctr' = [ctr EXCEPT !.nets = @ \cup {a}]
  /\ w' = [w EXCEPT !.todo = @ \ {a}]
  /\ UNCHANGED <<kind, rowVars, apiVars, queueVars, volume, countVars>>

AllConnected ==
  /\ w.pc = "connect" /\ w.todo = {}
  /\ Goto(IF w.pub THEN "ready" ELSE "isolate")
  /\ UNCHANGED <<kind, rowVars, apiVars, queueVars, dockerVars, countVars>>

\* A private datastore leaves the default bridge; an error is swallowed.
LeaveBridge ==
  /\ w.pc = "isolate"
  /\ \/ ctr' = [ctr EXCEPT !.bridge = FALSE] /\ UNCHANGED faults
     \/ Fault("docker") /\ UNCHANGED ctr
  /\ Goto("ready")
  /\ UNCHANGED <<kind, rowVars, apiVars, queueVars, volume, issued, crashes>>

EngineReady ==
  /\ w.pc = "ready"
  /\ Goto(IF w.job.type = "rotate" THEN "persist" ELSE "record")
  /\ UNCHANGED <<kind, rowVars, apiVars, queueVars, dockerVars, countVars>>

RecordRunning ==
  /\ w.pc = "record"
  /\ row' = [row EXCEPT !.status = "running"]
  /\ Goto("ack")
  /\ UNCHANGED <<kind, bindings, env, apiVars, queueVars, dockerVars, countVars>>

\* Mutant: the exit code of psql is not looked at.
AlterBlindly ==
  /\ w.pc = "alter"
  /\ volume' = IF ctr.state = "running" THEN [volume EXCEPT !.pw = w.pw] ELSE volume
  /\ Goto("persist")
  /\ UNCHANGED <<kind, rowVars, apiVars, queueVars, ctr, countVars>>

\* ALTER USER inside the container; without a running one the exec throws.
AlterUser ==
  /\ w.pc = "alter"
  /\ IF ctr.state = "running"
       THEN volume' = [volume EXCEPT !.pw = w.pw] /\ Goto("persist")
       ELSE UNCHANGED volume /\ Goto("fail")
  /\ UNCHANGED <<kind, rowVars, apiVars, queueVars, ctr, countVars>>

PersistPassword ==
  /\ w.pc = "persist"
  /\ row' = [row EXCEPT !.pw = w.pw]
  /\ w' = [w EXCEPT !.pc = "rewrite", !.todo = w.bound]
  /\ UNCHANGED <<kind, bindings, env, apiVars, queueVars, dockerVars, countVars>>

\* rewriteBoundEnvKeys goes by the bindings read when the job was loaded.
RewriteEnv(a) ==
  /\ w.pc = "rewrite" /\ a \in w.todo
  /\ env' = [env EXCEPT ![a] = w.pw]
  /\ w' = [w EXCEPT !.todo = @ \ {a}]
  /\ UNCHANGED <<kind, row, bindings, apiVars, queueVars, dockerVars, countVars>>

AllRewritten ==
  /\ w.pc = "rewrite" /\ w.todo = {}
  /\ Goto("ack")
  /\ UNCHANGED <<kind, rowVars, apiVars, queueVars, dockerVars, countVars>>

\* runDelete: container first, off its networks, then stopped and removed; their
\* errors are swallowed ...
Dismantle ==
  /\ w.pc = "dismantle"
  /\ \/ ctr' = NoCtr /\ UNCHANGED faults
     \/ /\ ctr.state # "none" /\ Fault("docker")
        /\ \E s \in {ctr.state, "stopped"} :
             ctr' = [ctr EXCEPT !.state = s, !.nets = {}, !.bridge = FALSE]
  /\ Goto("rmVolume")
  /\ UNCHANGED <<kind, rowVars, apiVars, queueVars, volume, issued, crashes>>

\* Mutant: a volume that cannot be removed is left behind.
RemoveVolumeBestEffort ==
  /\ w.pc = "rmVolume"
  /\ volume' = IF ctr.state = "none" THEN [exists |-> FALSE, pw |-> NoUrl] ELSE volume
  /\ Goto("rmRow")
  /\ UNCHANGED <<kind, rowVars, apiVars, queueVars, ctr, countVars>>

\* ... then the volume, which Docker refuses while a container uses it ...
RemoveVolume ==
  /\ w.pc = "rmVolume"
  /\ IF ctr.state = "none"
       THEN volume' = [exists |-> FALSE, pw |-> NoUrl] /\ Goto("rmRow")
       ELSE UNCHANGED volume /\ Goto("fail")
  /\ UNCHANGED <<kind, rowVars, apiVars, queueVars, ctr, countVars>>

\* ... and the row last, its bindings with it; an error is swallowed.
RemoveRow ==
  /\ w.pc = "rmRow"
  /\ \/ /\ row' = [row EXCEPT !.exists = FALSE]
        /\ bindings' = {}
        /\ UNCHANGED faults
     \/ Fault("db") /\ UNCHANGED <<row, bindings>>
  /\ Goto("ack")
  /\ UNCHANGED <<kind, env, apiVars, queueVars, dockerVars, issued, crashes>>

\* An await rejects, or the engine does not answer within 60 seconds.
Throw ==
  /\ \/ /\ w.pc \in {"volume", "replace", "create", "start", "connect", "ready",
                     "dismantle", "rmVolume"}
        /\ Fault("docker") /\ UNCHANGED volume
     \/ /\ w.pc = "alter"
        /\ Fault("docker")
        /\ \/ UNCHANGED volume
           \/ ctr.state = "running" /\ volume' = [volume EXCEPT !.pw = w.pw]
     \/ /\ w.pc \in {"record", "persist", "rewrite"}
        /\ Fault("db") /\ UNCHANGED volume
  /\ Goto("fail")
  /\ UNCHANGED <<kind, rowVars, apiVars, queueVars, ctr, issued, crashes>>

RecordError ==
  /\ w.pc = "fail"
  /\ \/ row' = [row EXCEPT !.status = "error"] /\ UNCHANGED faults
     \/ Fault("db") /\ UNCHANGED row
  /\ Goto("ack")
  /\ UNCHANGED <<kind, bindings, env, apiVars, queueVars, dockerVars, issued, crashes>>

AckJob ==
  /\ w.pc = "ack"
  /\ w' = Fresh("idle")
  /\ UNCHANGED <<kind, rowVars, apiVars, queueVars, dockerVars, countVars>>

WorkerCrash ==
  /\ w.pc \notin {"idle", "down"}
  /\ Fault("worker")
  /\ crashes' = crashes + 1
  /\ stalled' = Append(stalled, w.job)
  /\ w' = Fresh("down")
  /\ UNCHANGED <<kind, rowVars, apiVars, queue, dockerVars, issued>>

WorkerRestart ==
  /\ w.pc = "down"
  /\ w' = Fresh("idle")
  /\ UNCHANGED <<kind, rowVars, apiVars, queueVars, dockerVars, countVars>>

\* BullMQ's stalled checker: the job runs again first, or fails for good.
RequeueStalled ==
  /\ w.pc # "down" /\ stalled # <<>>
  /\ stalled' = Tail(stalled)
  /\ LET j == Head(stalled) IN
       queue' = IF j.runs < MaxStalled THEN <<[j EXCEPT !.runs = @ + 1]>> \o queue
                                       ELSE queue
  /\ UNCHANGED <<kind, rowVars, apiVars, w, dockerVars, countVars>>

-----------------------------------------------------------------------------
RequestStep ==
  \/ Create \/ MarkProvisioning \/ MarkDeleting \/ TogglePort \/ MarkRecreating
  \/ BeginDump \/ EndDump
  \/ \E x \in Routes : CheckRequest(x) \/ AddJob(x) \/ AddJobFails(x)

BindStep ==
  \E a \in Apps : \/ ReadToBind(a) \/ CommitBind(a) \/ ConnectApp(a)
                  \/ ReadToUnbind(a) \/ CommitUnbind(a) \/ DisconnectApp(a)

WorkerStep ==
  \/ TakeJob \/ EnsureVolume \/ ReplaceContainer \/ CreateContainer \/ StartContainer
  \/ AllConnected \/ LeaveBridge \/ EngineReady \/ RecordRunning \/ AlterUser
  \/ PersistPassword \/ AllRewritten \/ Dismantle \/ RemoveVolume \/ RemoveRow
  \/ RecordError \/ AckJob \/ WorkerRestart
  \/ \E a \in Apps : ConnectNetwork(a) \/ RewriteEnv(a)

Next == RequestStep \/ BindStep \/ WorkerStep \/ LoadFails \/ Throw \/ WorkerCrash \/ RequeueStalled

Spec == Init /\ [][Next]_vars

\* The worker runs its event loop and is restarted by its supervisor, BullMQ checks
\* for stalled jobs, and a request that has updated the row adds its job.
Fairness ==
  /\ WF_vars(WorkerStep)
  /\ WF_vars(RequeueStalled)
  /\ \A x \in Routes : WF_vars(AddJob(x))

FairSpec == Spec /\ Fairness

-----------------------------------------------------------------------------
AtRest ==
  /\ w.pc = "idle" /\ queue = <<>> /\ stalled = <<>>
  /\ \A x \in Routes : req[x].pc = "none"

\* "Row goes last so a mid-way crash leaves a retryable job, not an orphan": when the
\* row is gone there is no container and no data volume left, whatever failed or
\* crashed on the way and whichever jobs were still queued.
DeletedLeavesNothing ==
  issued > 0 /\ ~row.exists => ctr.state = "none" /\ ~volume.exists

\* When nothing is in hand or waiting and a datastore reads "running", its container
\* runs and the engine accepts the stored password, across interleaved rotations,
\* toggles, deletions and re-runs after a worker crash; and the service port is
\* published exactly when the row says so until the worker crashes.  (Until the first
\* fault that is not a worker crash.)
RunningAnswers ==
  AtRest /\ row.exists /\ row.status = "running" /\ faults = crashes /\ crashes <= MaxStalled =>
    /\ ctr.state = "running" /\ EnginePw = row.pw
    /\ crashes = 0 => ctr.pub = row.pub /\ ctr.bridge = row.pub

\* "Persist last": a new password is stored only when the engine already accepts it,
\* so a stored password was valid at least once.
StoredOnlyWhenAccepted ==
  [][row'.pw # row.pw /\ issued > 0 => EnginePw = row'.pw]_vars

\* The data volume is destroyed only for a datastore whose deletion was requested
\* and whose container is gone; provisioning and rotation keep it.
DataOnlyLostByDelete ==
  [][volume.exists /\ ~volume'.exists
       => w.job.type = "delete" /\ ctr.state = "none"]_vars

\* A provisioning that reached the queue ends: the datastore runs, reports an error,
\* is being deleted or gone, even when the worker dies once.
ProvisioningEnds ==
  (\E i \in 1..Len(queue) : queue[i].type = "provision")
    ~> ~row.exists \/ row.status # "provisioning"

\* A deletion that reached the queue leaves neither container nor volume, or reports
\* an error, even when the worker dies once.
DeletionEnds ==
  (\E i \in 1..Len(queue) : queue[i].type = "delete")
    ~> (ctr.state = "none" /\ ~volume.exists) \/ row.status = "error"

(***************************************************************************)
(* The inductive invariant behind the safety properties.                   *)
(***************************************************************************)

\* A job works on the row only while it exists; only a deletion removes it.
WorkHasRow == w.pc \notin {"idle", "down", "ack", "fail"} => row.exists

\* The row is removed when container and volume are gone.
RowGoesLast == w.pc = "rmRow" => ctr.state = "none" /\ ~volume.exists
GoneIsClean == ~row.exists => ctr.state = "none" /\ ~volume.exists

\* The branches of the handler: deletion, rotation of a postgres, anything else.
RightBranch ==
  /\ w.pc \in {"dismantle", "rmVolume"} => w.job.type = "delete"
  /\ w.pc = "alter" => kind = "postgres"
  /\ w.pc \in {"volume", "replace", "create", "start", "connect", "isolate", "ready"}
       /\ w.job.type = "rotate" => kind # "postgres"

\* From its creation on, the container has the password the job works with.
ContainerIsMine == w.pc \in {"start", "connect", "isolate", "ready"} => ctr.pw = w.pw

AcceptedBeforeStored == w.pc = "persist" => EnginePw = w.pw

StoreInv == /\ WorkHasRow /\ RowGoesLast /\ GoneIsClean /\ RightBranch
            /\ ContainerIsMine /\ AcceptedBeforeStored

(***************************************************************************)
(* What the repository says of the program and the code does not do.       *)
(***************************************************************************)

\* README: "Password rotation updates every bound app's injected URL"; the worker:
\* "so bound apps get the new URL on their next deploy instead of keeping a stale
\* password forever".
BoundAppsFollowRotation ==
  AtRest /\ (\A a \in Apps : binder[a].pc = "none") /\ row.exists /\ faults = 0
    => \A a \in bindings : env[a] = row.pw
=============================================================================
