------------------------------ MODULE Projects ------------------------------
(***************************************************************************)
(* The services of one project and what depends on what: the routes that   *)
(* create, change and delete them, each a check followed by a write; the   *)
(* project editor of the dashboard, which patches every service at once;   *)
(* and the coordinated release that reads what they left, with the         *)
(* deletion of the project racing it.                                      *)
(*                                                                         *)
(* Source: apps/api/src/routes/projects.ts, the editor in apps/dashboard   *)
(* and apps/worker/src/project-deploy.ts.                                  *)
(***************************************************************************)
EXTENDS Naturals, Sequences, FiniteSets, FiniteSetsExt, SequencesExt

CONSTANTS
  Services,     \* services the project may have; each has a slug and a kind for good
  Runtime,      \* those of kind http or worker; the others are release jobs
  Admin,        \* the actor of requests that do not come from the open editor, no service
  None,         \* neither a service nor Admin
  MaxAsked,     \* bound on the requests and saves that are started
  MaxRefused    \* bound on the containers that Docker does not stop or remove

ReleaseKind == Services \ Runtime
Actors == Services \cup {Admin}

VARIABLES
  project,   \* "none", "live" or "gone"
  deps,      \* services and service_dependencies rows: what each service depends on
  req,       \* by actor: the request in hand; the editor has one per service
  editor,    \* the save in hand: its step, the document and what went wrong
  release,   \* the latest project_releases row with its service_deployments
  job,       \* the release job: its step, the project it read, what it started
  ctrs,      \* containers, by release and service: made ones, and those of them that run
  network,   \* whether the project's network exists
  history    \* ghosts: requests that overlapped, what was asked for, a network remade,
             \* containers Docker refused to stop or to remove

vars == <<project, deps, req, editor, release, job, ctrs, network, history>>

NoReq == [op |-> "none", pc |-> "idle", svc |-> None, deps |-> {}, rows |-> {}]
NoSave == [pc |-> "closed", want |-> <<>>, known |-> {}, failed |-> FALSE, alone |-> TRUE]
NoJob == [pc |-> "none", seen |-> <<>>, order |-> <<>>, started |-> {}]

\* Runtime containers are named by release and service.
Containers == Nat \X Services

Present == DOMAIN deps
Active == release.status \in {"pending", "building", "deploying"}

-----------------------------------------------------------------------------
(***************************************************************************)
(* The depth-first search of the API and of the worker.                    *)
(***************************************************************************)
States == [visiting : SUBSET Services, ordered : Seq(Services), cycle : BOOLEAN]

\* From a service and what has been searched before it, to what has been after it.
Visit(edges) ==
  LET visit[p \in (DOMAIN edges) \X States] ==
        LET s == p[1]
            st == p[2]
        IN  IF st.cycle \/ s \in st.visiting THEN [st EXCEPT !.cycle = TRUE]
            ELSE IF s \in Range(st.ordered) THEN st
            ELSE LET below == FoldSet(LAMBDA d, acc : visit[<<d, acc>>],
                                      [st EXCEPT !.visiting = @ \cup {s}], edges[s])
                 IN  IF below.cycle THEN below
                     ELSE [below EXCEPT !.visiting = @ \ {s}, !.ordered = Append(@, s)]
  IN  visit

Search(edges) ==
  FoldSet(LAMBDA s, acc : Visit(edges)[<<s, acc>>],
          [visiting |-> {}, ordered |-> <<>>, cycle |-> FALSE], DOMAIN edges)

\* Mutant: the search starts from the patched service's own stored edges.
StaleEdges(s, d) ==
  /\ s \in Present
  /\ s \in ReleaseKind => d = {}
  /\ d \subseteq (Present \cap Runtime) \ {s}
  /\ ~Search(deps).cycle

\* What the edit of one service's dependencies is refused for.
ValidateDependencyChange(s, d) ==
  /\ s \in Present
  /\ s \in ReleaseKind => d = {}
  /\ d \subseteq Present \ {s}
  /\ d \cap Runtime = d
  /\ ~Search([deps EXCEPT ![s] = d]).cycle

\* Mutant: the persisted order, whatever depends on what.
PersistedOrder(seen) == [ok |-> TRUE, order |-> SetToSeq(DOMAIN seen \cap Runtime)]

\* Not ok where the worker throws: a cycle, or a dependency it has no container for.
OrderRuntimeServices(seen) ==
  LET runtime == DOMAIN seen \cap Runtime
      search == Search([s \in runtime |-> seen[s] \cap runtime])
  IN  IF search.cycle \/ \E s \in runtime : ~(seen[s] \subseteq runtime)
      THEN [ok |-> FALSE, order |-> <<>>]
      ELSE [ok |-> TRUE, order |-> search.ordered]

\* Reference: among any services there is one that depends on none of the others.
Acyclic(edges) ==
  \A T \in SUBSET DOMAIN edges : T # {} => \E s \in T : edges[s] \cap T = {}

\* What the schema of a whole project document accepts.
Document(d) ==
  /\ d # <<>>
  /\ Cardinality({s \in DOMAIN d : s \in ReleaseKind}) <= 1
  /\ \A s \in DOMAIN d : /\ d[s] \subseteq (DOMAIN d \cap Runtime) \ {s}
                         /\ s \in ReleaseKind => d[s] = {}
  /\ ~Search(d).cycle

Drafts == UNION {[S -> SUBSET Runtime] : S \in SUBSET Services}
Documents == {d \in Drafts : Document(d)}

-----------------------------------------------------------------------------
\* Nothing yet, or - to begin further on - a project of all services that runs its first
\* release.
Init ==
  /\ req = [a \in Actors |-> NoReq]
  /\ editor = NoSave
  /\ job = NoJob
  /\ history = [overlap |-> FALSE, asked |-> 0, remade |-> FALSE, refused |-> {}]
  /\ \/ /\ project = "none" /\ deps = <<>> /\ network = FALSE
        /\ release = [id |-> 0, status |-> "none", rows |-> {}]
        /\ ctrs = [made |-> {}, up |-> {}]
     \/ /\ project = "live" /\ deps \in Documents /\ Present = Services /\ network = TRUE
        /\ release = [id |-> 1, status |-> "success", rows |-> Services]
        /\ ctrs = [made |-> {1} \X Runtime, up |-> {1} \X Runtime]

\* A project's document is rows of services it has; requests, the save and the release
\* speak of services, and the job of one there is a release for.
TypeOK ==
  /\ project \in {"none", "live", "gone"}
  /\ deps \in Drafts
  /\ DOMAIN req = Actors
  /\ \A a \in Actors : /\ req[a].svc \in Services \cup {None}
                       /\ req[a].deps \subseteq Services
                       /\ req[a].rows \subseteq Services \cup Containers
  /\ editor.pc \in {"closed", "project", "create", "patch", "over"}
  /\ editor.want \in Drafts /\ editor.known \subseteq Services
  /\ release.status \in {"none", "pending", "building", "deploying", "success", "failed"}
  /\ release.rows \subseteq Services /\ release.id \in 0..MaxAsked + 1
  /\ job.seen \in Drafts /\ Range(job.order) \subseteq Runtime /\ job.started \subseteq Runtime
  /\ job.pc # "none" => release.status # "none"
  /\ ctrs.up \subseteq ctrs.made /\ \A c \in ctrs.made : c \in (1..release.id) \X Runtime
  /\ network \in BOOLEAN

Busy(a) == req[a].pc # "idle"

\* A request that changes services overlaps another one that has not answered yet.
Begin(a, r) ==
  /\ req' = [req EXCEPT ![a] = r]
  /\ history' = [history EXCEPT
       !.overlap = @ \/ \E b \in Actors \ {a} : req[b].op \in {"patch", "add", "delete"},
       !.asked = IF a = Admin THEN @ + 1 ELSE @]

Answer(a) == req' = [req EXCEPT ![a] = NoReq]

\* An error reaches the editor when the request is one of its own.
Refuse(a) == /\ Answer(a)
             /\ editor' = IF a = Admin THEN editor ELSE [editor EXCEPT !.failed = TRUE]

OtherWrite(a) == editor' = IF a = Admin THEN [editor EXCEPT !.alone = FALSE] ELSE editor

CreateProject ==
  /\ project = "none"
  /\ project' = "live" /\ deps' \in Documents
  /\ UNCHANGED <<req, editor, release, job, ctrs, network, history>>

AskPatch(s, d) ==
  /\ project = "live" /\ ~Busy(Admin) /\ history.asked < MaxAsked
  /\ Begin(Admin, [NoReq EXCEPT !.op = "patch", !.pc = "read", !.svc = s, !.deps = d])
  /\ UNCHANGED <<project, deps, editor, release, job, ctrs, network>>

AskAdd(s, d) ==
  /\ project = "live" /\ ~Busy(Admin) /\ history.asked < MaxAsked
  /\ s \in ReleaseKind => d = {}
  /\ s \notin d
  /\ Begin(Admin, [NoReq EXCEPT !.op = "add", !.pc = "read", !.svc = s, !.deps = d])
  /\ UNCHANGED <<project, deps, editor, release, job, ctrs, network>>

AskDelete(s) ==
  /\ project = "live" /\ ~Busy(Admin) /\ history.asked < MaxAsked
  /\ Begin(Admin, [NoReq EXCEPT !.op = "delete", !.pc = "read", !.svc = s])
  /\ UNCHANGED <<project, deps, editor, release, job, ctrs, network>>

At(a, op, pc) == req[a].op = op /\ req[a].pc = pc

\* PATCH /api/services/:serviceId, its reads and refusals.
ReadPatch(a) ==
  /\ At(a, "patch", "read")
  /\ IF ValidateDependencyChange(req[a].svc, req[a].deps) /\ ~Active
     THEN req' = [req EXCEPT ![a].pc = "write"] /\ UNCHANGED editor
     ELSE Refuse(a)
  /\ UNCHANGED <<project, deps, release, job, ctrs, network, history>>

\* Its transaction: foreign keys refuse rows of services that are gone.
WritePatch(a) ==
  /\ At(a, "patch", "write")
  /\ IF req[a].svc \in Present /\ req[a].deps \subseteq Present
     THEN /\ deps' = [deps EXCEPT ![req[a].svc] = req[a].deps]
          /\ Answer(a) /\ OtherWrite(a)
     ELSE Refuse(a) /\ UNCHANGED deps
  /\ UNCHANGED <<project, release, job, ctrs, network, history>>

\* POST /api/projects/:id/services.
ReadAdd(a) ==
  /\ At(a, "add", "read")
  /\ IF /\ project = "live" /\ ~Active
        /\ req[a].svc \in ReleaseKind => \A s \in Present : s \in Runtime
        /\ req[a].deps \subseteq Present \cap Runtime
     THEN req' = [req EXCEPT ![a].pc = "write"] /\ UNCHANGED editor
     ELSE Refuse(a)
  /\ UNCHANGED <<project, deps, release, job, ctrs, network, history>>

\* Unique indexes: the slug in the project, one release service per project.
WriteAdd(a) ==
  /\ At(a, "add", "write")
  /\ LET s == req[a].svc IN
       IF /\ project = "live" /\ s \notin Present /\ req[a].deps \subseteq Present
          /\ s \in ReleaseKind => \A t \in Present : t \in Runtime
       THEN /\ deps' = [t \in Present \cup {s} |-> IF t = s THEN req[a].deps ELSE deps[t]]
            /\ Answer(a) /\ OtherWrite(a)
       ELSE Refuse(a) /\ UNCHANGED deps
  /\ UNCHANGED <<project, release, job, ctrs, network, history>>

Dependents(s) == {t \in Present : s \in deps[t]}

\* DELETE /api/services/:serviceId.
ReadDelete(a) ==
  /\ At(a, "delete", "read")
  /\ IF /\ req[a].svc \in Present /\ Cardinality(Present) > 1
        /\ ~Active /\ Dependents(req[a].svc) = {}
     THEN req' = [req EXCEPT ![a].pc = "write"] /\ UNCHANGED editor
     ELSE Refuse(a)
  /\ UNCHANGED <<project, deps, release, job, ctrs, network, history>>

\* The row's deployments and own edges go with it; an edge to it restricts.
WriteDelete(a) ==
  /\ At(a, "delete", "write")
  /\ LET s == req[a].svc IN
       IF s \in Present /\ Dependents(s) = {}
       THEN /\ deps' = [t \in Present \ {s} |-> deps[t]]
            /\ release' = [release EXCEPT !.rows = @ \ {s}]
            /\ Answer(a) /\ OtherWrite(a)
       ELSE Refuse(a) /\ UNCHANGED <<deps, release>>
  /\ UNCHANGED <<project, job, ctrs, network, history>>

-----------------------------------------------------------------------------
(***************************************************************************)
(* The project editor.  The form takes any dependencies for the services   *)
(* it shows; the JSON editor takes a document its schema accepts and       *)
(* first adds the services that are missing.                               *)
(***************************************************************************)
\* Of a release service the form sends no dependencies.
Forms == {d \in [Present -> SUBSET Runtime] : \A s \in Present \ Runtime : d[s] = {}}

OpenEditor ==
  /\ project = "live" /\ editor.pc = "closed" /\ history.asked < MaxAsked
  /\ \E d \in Documents \cup Forms :
       editor' = [pc |-> "project", want |-> d, known |-> Present, failed |-> FALSE,
                  alone |-> ~Busy(Admin)]
  /\ history' = [history EXCEPT !.asked = @ + 1]
  /\ UNCHANGED <<project, deps, req, release, job, ctrs, network>>

\* PATCH /api/projects/:id, the save's first call, awaited before all others.
PatchProject ==
  /\ editor.pc = "project"
  /\ editor' = IF project = "live" /\ ~Active THEN [editor EXCEPT !.pc = "create"]
               ELSE [editor EXCEPT !.pc = "over", !.failed = TRUE]
  /\ UNCHANGED <<project, deps, req, release, job, ctrs, network, history>>

EditorCalls == {s \in Services : Busy(s)}
Missing == DOMAIN editor.want \ editor.known

\* One POST after the other, without dependencies; the first error ends the save.
CreateMissing ==
  /\ editor.pc = "create" /\ EditorCalls = {}
  /\ IF editor.failed
     THEN editor' = [editor EXCEPT !.pc = "over"] /\ UNCHANGED <<req, history>>
     ELSE \E s \in Missing :
            /\ editor' = [editor EXCEPT !.known = @ \cup {s}]
            /\ Begin(s, [NoReq EXCEPT !.op = "add", !.pc = "read", !.svc = s])
  /\ UNCHANGED <<project, deps, release, job, ctrs, network>>

\* Mutant: the next PATCH is sent without waiting for the services to exist.
PatchEarly ==
  /\ editor.pc = "create" /\ ~editor.failed /\ EditorCalls = {}
  /\ editor' = [editor EXCEPT !.pc = "patch"]
  /\ req' = [a \in Actors |->
               IF a \in DOMAIN editor.want \cap Present
               THEN [NoReq EXCEPT !.op = "patch", !.pc = "read", !.svc = a,
                                  !.deps = editor.want[a]]
               ELSE req[a]]
  /\ history' = [history EXCEPT !.overlap = TRUE]
  /\ UNCHANGED <<project, deps, release, job, ctrs, network>>

\* Promise.all: one PATCH per service of the document, all at once.
PatchServices ==
  /\ editor.pc = "create" /\ ~editor.failed /\ EditorCalls = {} /\ Missing = {}
  /\ editor' = [editor EXCEPT !.pc = "patch"]
  /\ req' = [a \in Actors |->
               IF a \in DOMAIN editor.want
               THEN [NoReq EXCEPT !.op = "patch", !.pc = "read", !.svc = a,
                                  !.deps = editor.want[a]]
               ELSE req[a]]
  /\ history' = [history EXCEPT !.overlap = @ \/ Cardinality(DOMAIN editor.want) > 1
                                              \/ req[Admin].op \in {"patch", "add", "delete"}]
  /\ UNCHANGED <<project, deps, release, job, ctrs, network>>

\* Done with all of them or with the first that is refused, while the others go on.
EndSave ==
  /\ editor.pc = "patch" /\ (EditorCalls = {} \/ editor.failed)
  /\ editor' = [editor EXCEPT !.pc = "over"]
  /\ UNCHANGED <<project, deps, req, release, job, ctrs, network, history>>

\* Bound: nothing is saved anew before what an earlier save sent has been answered.
CloseEditor ==
  /\ editor.pc = "over" /\ EditorCalls = {}
  /\ editor' = NoSave
  /\ UNCHANGED <<project, deps, req, release, job, ctrs, network, history>>

-----------------------------------------------------------------------------
(***************************************************************************)
(* Releases.  The rows are those of the services read before the check.    *)
(***************************************************************************)
AskRelease ==
  /\ project = "live" /\ ~Busy(Admin) /\ history.asked < MaxAsked
  /\ req' = [req EXCEPT ![Admin] = [NoReq EXCEPT !.op = "release", !.pc = "read"]]
  /\ history' = [history EXCEPT !.asked = @ + 1]
  /\ UNCHANGED <<project, deps, editor, release, job, ctrs, network>>

ReadRelease ==
  /\ At(Admin, "release", "read")
  /\ req' = IF Active \/ project # "live" THEN [req EXCEPT ![Admin] = NoReq]
            ELSE [req EXCEPT ![Admin].pc = "write", ![Admin].rows = Present]
  /\ UNCHANGED <<project, deps, editor, release, job, ctrs, network, history>>

WriteRelease ==
  /\ At(Admin, "release", "write")
  /\ IF req[Admin].rows \subseteq Present
     THEN /\ release' = [id |-> release.id + 1, status |-> "pending", rows |-> req[Admin].rows]
          /\ job' = [NoJob EXCEPT !.pc = "queued"]
     ELSE UNCHANGED <<release, job>>
  /\ Answer(Admin)
  /\ UNCHANGED <<project, deps, editor, ctrs, network, history>>

RowExists(s) == s \in release.rows /\ s \in Present

Candidates == {c \in ctrs.made : c[1] = release.id}

\* Containers are stopped and removed one by one, of those that run in the end. Errors are
\* swallowed: what Docker refused to stop runs on, and what it refused to remove stays.
StopAndRemove(S, up) ==
  \E stay \in SUBSET (S \cap ctrs.made) : \E still \in SUBSET (stay \cap up) :
    /\ Cardinality(history.refused \cup stay) <= MaxRefused
    /\ ctrs' = [made |-> (ctrs.made \ S) \cup stay, up |-> (up \ S) \cup still]
    /\ history' = [history EXCEPT !.refused = @ \cup stay]

\* Mutant: the candidates of a release that fails stay.
KeepCandidates(up) ==
  /\ job' = NoJob
  /\ ctrs' = [ctrs EXCEPT !.up = up] /\ UNCHANGED history
  /\ release' = IF project = "live" THEN [release EXCEPT !.status = "failed"] ELSE release

\* The candidates of the failed attempt are removed; the row only if it is still there.
JobFails(up) ==
  /\ job' = NoJob
  /\ StopAndRemove(Candidates, up)
  /\ release' = IF project = "live" THEN [release EXCEPT !.status = "failed"] ELSE release

TakeJob ==
  /\ job.pc = "queued"
  /\ IF project = "live"
     THEN /\ job' = [NoJob EXCEPT !.pc = "build", !.seen = deps]
          /\ release' = [release EXCEPT !.status = "building"]
          /\ UNCHANGED <<ctrs, history>>
     ELSE JobFails(ctrs.up)
  /\ UNCHANGED <<project, deps, req, editor, network>>

\* Each service is built into its own deployment row.
BuildServices ==
  /\ job.pc = "build"
  /\ IF \A s \in DOMAIN job.seen : RowExists(s)
     THEN job' = [job EXCEPT !.pc = "network"] /\ UNCHANGED <<ctrs, release, history>>
     ELSE JobFails(ctrs.up)
  /\ UNCHANGED <<project, deps, req, editor, network>>

EnsureProjectNetwork ==
  /\ job.pc = "network"
  /\ network' = TRUE
  /\ history' = [history EXCEPT !.remade = @ \/ At(Admin, "remove", "row")]
  /\ job' = [job EXCEPT !.pc = "deploying"]
  /\ UNCHANGED <<project, deps, req, editor, release, ctrs>>

\* The release service ran; its container is gone again.
MarkDeploying ==
  /\ job.pc = "deploying"
  /\ IF project = "live" /\ \A s \in DOMAIN job.seen \cap ReleaseKind : RowExists(s)
     THEN /\ release' = [release EXCEPT !.status = "deploying"]
          /\ job' = [job EXCEPT !.pc = "create"] /\ UNCHANGED <<ctrs, history>>
     ELSE JobFails(ctrs.up)
  /\ UNCHANGED <<project, deps, req, editor, network>>

CreateCandidates ==
  /\ job.pc = "create"
  /\ LET todo == {s \in DOMAIN job.seen \cap Runtime : <<release.id, s>> \notin ctrs.made}
         plan == OrderRuntimeServices(job.seen)
     IN  CASE todo # {} ->
                \E s \in todo :
                  IF RowExists(s)
                  THEN /\ ctrs' = [ctrs EXCEPT !.made = @ \cup {<<release.id, s>>}]
                       /\ UNCHANGED <<job, release, history>>
                  ELSE JobFails(ctrs.up)
           [] todo = {} /\ plan.ok ->
                /\ job' = [job EXCEPT !.pc = "start", !.order = plan.order]
                /\ UNCHANGED <<ctrs, release, history>>
           [] OTHER -> JobFails(ctrs.up)
  /\ UNCHANGED <<project, deps, req, editor, network>>

\* The candidate runs before its row is written: without one the job fails after all.
StartCandidate ==
  /\ job.pc = "start" /\ job.order # <<>>
  /\ LET s == Head(job.order)
         up == IF network /\ <<release.id, s>> \in ctrs.made
               THEN ctrs.up \cup {<<release.id, s>>} ELSE ctrs.up
     IN  IF <<release.id, s>> \in up /\ RowExists(s)
         THEN /\ job' = [job EXCEPT !.order = Tail(@), !.started = @ \cup {s}]
              /\ ctrs' = [ctrs EXCEPT !.up = up]
              /\ UNCHANGED <<release, history>>
         ELSE JobFails(up)
  /\ UNCHANGED <<project, deps, req, editor, network>>

\* The containers of earlier releases are retired before the transaction; nothing undoes
\* a promotion.
CommitRelease ==
  /\ job.pc = "start" /\ job.order = <<>>
  /\ job' = NoJob
  /\ StopAndRemove(ctrs.made \ Candidates, ctrs.up)
  /\ release' = IF project = "live" THEN [release EXCEPT !.status = "success"] ELSE release
  /\ UNCHANGED <<project, deps, req, editor, network>>

-----------------------------------------------------------------------------
(***************************************************************************)
(* DELETE /api/projects/:id, removeProjectDocker step by step.             *)
(***************************************************************************)
AskRemove ==
  /\ project = "live" /\ ~Busy(Admin) /\ history.asked < MaxAsked
  /\ req' = [req EXCEPT ![Admin] = [NoReq EXCEPT !.op = "remove", !.pc = "containers",
                                                 !.rows = ctrs.made]]
  /\ history' = [history EXCEPT !.asked = @ + 1]
  /\ UNCHANGED <<project, deps, editor, release, job, ctrs, network>>

\* Of the containers listed; one created since stays.
RemoveContainers ==
  /\ At(Admin, "remove", "containers")
  /\ StopAndRemove(req[Admin].rows, ctrs.up)
  /\ req' = [req EXCEPT ![Admin].pc = "network"]
  /\ UNCHANGED <<project, deps, editor, release, job, network>>

\* Docker refuses while a container runs on it; the deletion stops there.
RemoveNetwork ==
  /\ At(Admin, "remove", "network")
  /\ IF network /\ ctrs.up # {}
     THEN Answer(Admin) /\ UNCHANGED network
     ELSE network' = FALSE /\ req' = [req EXCEPT ![Admin].pc = "row"]
  /\ UNCHANGED <<project, deps, editor, release, job, ctrs, history>>

\* Services, releases and deployments cascade.  The edges do too, but the foreign key
\* of a dependency restricts: with edges left, the order of the rows decides.
RowRestricted ==
  /\ At(Admin, "remove", "row") /\ \E s \in Present : deps[s] # {}
  /\ Answer(Admin)
  /\ UNCHANGED <<project, deps, editor, release, job, ctrs, network, history>>

RemoveRow ==
  /\ At(Admin, "remove", "row")
  /\ project' = "gone" /\ deps' = <<>>
  /\ release' = [release EXCEPT !.rows = {}]
  /\ editor' = [editor EXCEPT !.alone = FALSE]
  /\ Answer(Admin)
  /\ UNCHANGED <<job, ctrs, network, history>>

-----------------------------------------------------------------------------
Next ==
  \/ CreateProject
  \/ \E s \in Services : AskDelete(s)
                         \/ \E d \in SUBSET Services : AskPatch(s, d) \/ AskAdd(s, d)
  \/ \E a \in Actors : ReadPatch(a) \/ WritePatch(a) \/ ReadAdd(a) \/ WriteAdd(a)
  \/ ReadDelete(Admin) \/ WriteDelete(Admin)
  \/ OpenEditor
  \/ PatchProject \/ CreateMissing \/ PatchServices \/ EndSave \/ CloseEditor
  \/ AskRelease \/ ReadRelease \/ WriteRelease
  \/ TakeJob \/ BuildServices \/ EnsureProjectNetwork \/ MarkDeploying
  \/ CreateCandidates \/ StartCandidate \/ CommitRelease
  \/ AskRemove \/ RemoveContainers \/ RemoveNetwork \/ RowRestricted \/ RemoveRow

Spec == Init /\ [][Next]_vars

-----------------------------------------------------------------------------
(***************************************************************************)
(* Properties.                                                             *)
(***************************************************************************)
\* While no two requests about services overlap, what is stored is a project the schema
\* would accept: no cycle, at most one release service that nothing depends on, and a
\* service left.
SerialKeepsDocument ==
  project = "live" /\ ~history.overlap =>
    /\ deps # <<>> /\ Acyclic(deps)
    /\ Cardinality(Present \ Runtime) <= 1
    /\ \A s \in Present : deps[s] \subseteq Present \cap Runtime

\* A release starts a service only after all that it depends on, in a topology without a
\* cycle - however edits overlapped the release.
OnlyOrderedServicesStart ==
  \A s \in job.started :
    /\ job.seen[s] \subseteq job.started
    /\ Acyclic(job.seen)

\* A save the editor reports as done, with no other edit in between, left every service
\* depending on what the document said.
SavedAsAsked ==
  editor.pc = "over" /\ ~editor.failed /\ editor.alone =>
    /\ DOMAIN editor.want \subseteq Present
    /\ \A s \in DOMAIN editor.want : deps[s] = editor.want[s]

\* Once the job of a deleted project is over none of its containers runs, and there is
\* none but those Docker refused to remove - unless the job made the network again between
\* its removal and that of the row. One that Docker did not stop keeps the project.
DeletedLeavesNoContainer ==
  project = "gone" /\ job.pc = "none" /\ ~history.remade =>
    ctrs.up = {} /\ ctrs.made \subseteq history.refused

\* The services of a project never depend on each other in a cycle, also when two edits
\* overlap: "Service dependencies must not contain a cycle" (routes/projects.ts).
DependenciesAcyclic == Acyclic(deps)
=============================================================================
