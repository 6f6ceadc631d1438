------------------------------- MODULE GitHub -------------------------------
(***************************************************************************)
(* The GitHub integration: an administrator connects an App of the         *)
(* instance's own and installs it, turns deployments on push on, and every *)
(* push GitHub then delivers - late, repeated, out of order or not at all -*)
(* queues a deployment of what tracks the branch.                          *)
(*                                                                         *)
(* Source: apps/api/src/routes/github.ts, github-webhook.ts,               *)
(* applications.ts (autoDeployBlocker), packages/github, and the clone of  *)
(* apps/worker/src/index.ts and project-deploy.ts.                         *)
(***************************************************************************)
EXTENDS Naturals, FiniteSets, Sequences

CONSTANTS
  Applications, Projects,  \* what tracks the repository's branch
  Operators,               \* administrators, each with one request under way
  Hooks,                   \* requests the webhook answers at the same time
  MaxPushes, MaxApps, MaxInstalls, MaxHandled, MaxGitEdits  \* bounds

Targets == Applications \cup Projects
Queues == {Applications, Projects}

VARIABLES
  github,   \* what is on GitHub: the branch's head, Apps made, installations
  wire,     \* deliveries GitHub has sent
  hook,     \* the delivery each request of the webhook is handling
  db,       \* github_app, github_installation and the autoDeploy columns
  ops,      \* the request of each operator
  queue,    \* deployments waiting, each with the commit it was created for
  working,  \* the deployment each worker has under way
  live,     \* the commit each target runs
  memo      \* ghosts and bounds

gitVars == <<github, wire, hook, db, ops, queue, working, live, memo>>

NoApp == 0
NoRequest == [op |-> "idle"]
NoHook == [at |-> "idle"]
NoWork == [target |-> "none"]

-----------------------------------------------------------------------------
(***************************************************************************)
(* GitHub. Deliveries carry the App that signs them and their installation *)
(* (a ping has none and changes nothing).  One leaves the wire when GitHub *)
(* gives it up; until then it may arrive again.                            *)
(***************************************************************************)
PushTo(i, sha) == [event |-> "push", app |-> i.app, inst |-> i.id, sha |-> sha]
Removal(i) == [event |-> "installation", app |-> i.app, inst |-> i.id, sha |-> 0]

PushCommit ==
  /\ github.head < MaxPushes
  /\ github' = [github EXCEPT !.head = @ + 1]
  /\ wire' = wire \cup {PushTo(i, github.head + 1) : i \in {j \in github.insts : ~j.suspended}}
  /\ UNCHANGED <<hook, db, ops, queue, working, live, memo>>

Install(app) ==
  /\ Cardinality(github.insts) + github.gone < MaxInstalls
  /\ github' = [github EXCEPT !.insts = @ \cup
                  {[id |-> Cardinality(@) + github.gone + 1, app |-> app, suspended |-> FALSE]}]
  /\ UNCHANGED <<wire, hook, db, ops, queue, working, live, memo>>

\* Uninstalled, or suspended: the App is told the same way.
Uninstall(i) ==
  /\ github' = [github EXCEPT !.insts = @ \ {i}, !.gone = @ + 1]
  /\ wire' = wire \cup {Removal(i)}
  /\ UNCHANGED <<hook, db, ops, queue, working, live, memo>>

Suspend(i) ==
  /\ ~i.suspended
  /\ github' = [github EXCEPT !.insts = (@ \ {i}) \cup {[i EXCEPT !.suspended = TRUE]}]
  /\ wire' = wire \cup {Removal(i)}
  /\ UNCHANGED <<hook, db, ops, queue, working, live, memo>>

GiveUp(d) ==
  /\ wire' = wire \ {d}
  /\ UNCHANGED <<github, hook, db, ops, queue, working, live, memo>>

-----------------------------------------------------------------------------
(***************************************************************************)
(* github-webhook.ts: several deliveries may be in hand at once.           *)
(***************************************************************************)
EndHook(h) == hook' = [hook EXCEPT ![h] = NoHook]

\* The App now connected must have signed the delivery.
VerifyDelivery(d) == d.app = db.app

Receive(h, d) ==
  /\ hook[h] = NoHook /\ memo.handled < MaxHandled
  /\ memo' = [memo EXCEPT !.handled = @ + 1]
  /\ hook' = [hook EXCEPT ![h] = IF VerifyDelivery(d)
                                   THEN [at |-> d.event, inst |-> d.inst, sha |-> d.sha]
                                   ELSE NoHook]
  /\ UNCHANGED <<github, wire, db, ops, queue, working, live>>

\* A removal deletes the installation's row, of this organization's App only.
RemoveInstallation(h) ==
  /\ hook[h].at = "installation"
  /\ db' = [db EXCEPT !.insts = @ \ {hook[h].inst}]
  /\ EndHook(h)
  /\ UNCHANGED <<github, wire, ops, queue, working, live, memo>>

\* A push must name an installation an administrator connected.
KnowInstallation(h) ==
  /\ hook[h].at = "push"
  /\ hook' = [hook EXCEPT ![h] = IF hook[h].inst \in db.insts
                 THEN [at |-> "list", sha |-> hook[h].sha, of |-> Applications] ELSE NoHook]
  /\ UNCHANGED <<github, wire, db, ops, queue, working, live, memo>>

\* enqueuePushDeploys: the applications are listed and queued, then the projects.
ListTargets(h) ==
  /\ hook[h].at = "list"
  /\ hook' = [hook EXCEPT ![h] = [at |-> "enqueue", sha |-> hook[h].sha, of |-> hook[h].of,
                                   todo |-> {t \in hook[h].of : db.auto[t]}]]
  /\ UNCHANGED <<github, wire, db, ops, queue, working, live, memo>>

Enqueue(h, t) ==
  LET now == hook[h] IN
  /\ now.at = "enqueue" /\ t \in now.todo
  /\ queue' = [queue EXCEPT ![now.of] = Append(@, [target |-> t, sha |-> now.sha])]
  /\ memo' = [memo EXCEPT !.asked[t] = IF now.sha > @ THEN now.sha ELSE @]
  /\ hook' = [hook EXCEPT ![h].todo = @ \ {t}]
  /\ UNCHANGED <<github, wire, db, ops, working, live>>

\* queue.add rejects: the row that was created stays, the rest is not created.
EnqueueFails(h, t) ==
  /\ hook[h].at = "enqueue" /\ t \in hook[h].todo
  /\ EndHook(h)
  /\ UNCHANGED <<github, wire, db, ops, queue, working, live, memo>>

ListedAll(h) ==
  /\ hook[h].at = "enqueue" /\ hook[h].todo = {}
  /\ hook' = [hook EXCEPT ![h] = IF hook[h].of = Applications
                 THEN [at |-> "list", sha |-> hook[h].sha, of |-> Projects] ELSE NoHook]
  /\ UNCHANGED <<github, wire, db, ops, queue, working, live, memo>>

-----------------------------------------------------------------------------
(***************************************************************************)
(* The workers: one deployment at a time of each queue. The clone takes    *)
(* the head of the branch, whatever commit the delivery named.             *)
(***************************************************************************)
\* Mutant: the clone takes the commit of the delivery.
CloneCommit(q) ==
  /\ working[q] = NoWork /\ queue[q] # <<>>
  /\ working' = [working EXCEPT ![q] = Head(queue[q])]
  /\ queue' = [queue EXCEPT ![q] = Tail(@)]
  /\ UNCHANGED <<github, wire, hook, db, ops, live, memo>>

Clone(q) ==
  /\ working[q] = NoWork /\ queue[q] # <<>>
  /\ working' = [working EXCEPT ![q] = [target |-> Head(queue[q]).target, sha |-> github.head]]
  /\ queue' = [queue EXCEPT ![q] = Tail(@)]
  /\ UNCHANGED <<github, wire, hook, db, ops, live, memo>>

Deployed(q) ==
  /\ working[q] # NoWork
  /\ live' = [live EXCEPT ![working[q].target] = working[q].sha]
  /\ memo' = [memo EXCEPT !.failed = @ \ {working[q].target}]
  /\ working' = [working EXCEPT ![q] = NoWork]
  /\ UNCHANGED <<github, wire, hook, db, ops, queue>>

DeployFails(q) ==
  /\ working[q] # NoWork
  /\ memo' = [memo EXCEPT !.failed = @ \cup {working[q].target}]
  /\ working' = [working EXCEPT ![q] = NoWork]
  /\ UNCHANGED <<github, wire, hook, db, ops, queue, live>>

-----------------------------------------------------------------------------
(***************************************************************************)
(* github.ts and the toggle: what an operator asks for.                    *)
(***************************************************************************)
\* GitHub makes an App of the manifest and numbers it.
ConvertAppManifest == github.apps + 1

\* An installation whose row is connected, whose token GitHub still grants and whose
\* repositories it lists; when either fails the request is refused.
AccessibleInstallations == {i \in github.insts : i.id \in db.insts /\ ~i.suspended}

Ask(o, q) ==
  /\ ops[o] = NoRequest /\ memo.edits < MaxGitEdits
  /\ ops' = [ops EXCEPT ![o] = q]
  /\ memo' = [memo EXCEPT !.edits = @ + 1]
  /\ UNCHANGED <<github, wire, hook, db, queue, working, live>>

Finish(o) == ops' = [ops EXCEPT ![o] = NoRequest]

\* GET .../manifest/new signs a state and sends the browser to GitHub.
StartConnect(o) == db.app = NoApp /\ Ask(o, [op |-> "connect"])

\* GET .../manifest/callback: GitHub has made the App; the state is this
\* organization's and not expired.
Converted(o) ==
  /\ ops[o].op = "connect" /\ github.apps < MaxApps
  /\ IF db.app # NoApp
       THEN Finish(o) /\ UNCHANGED github
       ELSE /\ github' = [github EXCEPT !.apps = ConvertAppManifest]
            /\ ops' = [ops EXCEPT ![o] = [op |-> "create", app |-> ConvertAppManifest]]
  /\ UNCHANGED <<wire, hook, db, queue, working, live, memo>>

\* The state has expired, or GitHub turns the code down.
ConnectFails(o) ==
  /\ ops[o].op = "connect"
  /\ Finish(o)
  /\ UNCHANGED <<github, wire, hook, db, queue, working, live, memo>>

\* The unique index on the organization refuses a second App.
CreateApp(o) ==
  /\ ops[o].op = "create"
  /\ db' = IF db.app = NoApp THEN [db EXCEPT !.app = ops[o].app] ELSE db
  /\ Finish(o)
  /\ UNCHANGED <<github, wire, hook, queue, working, live, memo>>

\* GitHub shows an App its own installations only.
GetAppInstallation(i) == i.app = db.app

\* GET .../setup/callback: the installation must be one of the connected App's.
StartSetup(o, i) ==
  /\ db.app # NoApp
  /\ GetAppInstallation(i)
  /\ Ask(o, [op |-> "setup", app |-> db.app, inst |-> i.id])

\* The row hangs on the App's; when that is gone the upsert is refused.
StoreInstallation(o) ==
  /\ ops[o].op = "setup"
  /\ db' = IF db.app = ops[o].app THEN [db EXCEPT !.insts = @ \cup {ops[o].inst}] ELSE db
  /\ Finish(o)
  /\ UNCHANGED <<github, wire, hook, queue, working, live, memo>>

\* A project's settings cannot change while a release of its own is in progress.
NoRelease(t) ==
  /\ working[Projects].target # t
  /\ \A k \in DOMAIN queue[Projects] : queue[Projects][k].target # t

\* Mutant: nothing is asked of the connection.
StartToggleUnchecked(o, t) ==
  /\ ~db.auto[t]
  /\ Ask(o, [op |-> "toggle", target |-> t, app |-> db.app])

\* autoDeployBlocker: an App is connected, installed, and its token lists the
\* repository. The column is written later.
StartToggle(o, t) ==
  /\ ~db.auto[t]
  /\ db.app # NoApp
  /\ AccessibleInstallations # {}
  /\ t \in Projects => NoRelease(t)
  /\ Ask(o, [op |-> "toggle", target |-> t, app |-> db.app])

\* A ghost notes that the App went between the check and the write.
Toggle(o) ==
  /\ ops[o].op = "toggle"
  /\ db' = [db EXCEPT !.auto[ops[o].target] = TRUE]
  /\ memo' = [memo EXCEPT !.raced = IF db.app # ops[o].app THEN @ \cup {ops[o].target} ELSE @]
  /\ Finish(o)
  /\ UNCHANGED <<github, wire, hook, queue, working, live>>

\* Turning it off asks nothing of GitHub.
TurnOff(o, t) ==
  /\ ops[o] = NoRequest /\ db.auto[t] /\ memo.edits < MaxGitEdits
  /\ t \in Projects => NoRelease(t)
  /\ db' = [db EXCEPT !.auto[t] = FALSE]
  /\ memo' = [memo EXCEPT !.edits = @ + 1, !.raced = @ \ {t}]
  /\ UNCHANGED <<github, wire, hook, ops, queue, working, live>>

\* DELETE /api/github/app, one transaction; the App itself stays on GitHub.
Disconnect(o) ==
  /\ ops[o] = NoRequest /\ db.app # NoApp /\ memo.edits < MaxGitEdits
  /\ db' = [app |-> NoApp, insts |-> {}, auto |-> [t \in Targets |-> FALSE]]
  /\ memo' = [memo EXCEPT !.edits = @ + 1, !.raced = {}]
  /\ UNCHANGED <<github, wire, hook, ops, queue, working, live>>

-----------------------------------------------------------------------------
GitHubInit ==
  /\ github = [head |-> 0, apps |-> 0, insts |-> {}, gone |-> 0]
  /\ wire = {} /\ hook = [h \in Hooks |-> NoHook]
  /\ db = [app |-> NoApp, insts |-> {}, auto |-> [t \in Targets |-> FALSE]]
  /\ ops = [o \in Operators |-> NoRequest]
  /\ queue = [q \in Queues |-> <<>>] /\ working = [q \in Queues |-> NoWork]
  /\ live = [t \in Targets |-> 0]
  /\ memo = [handled |-> 0, edits |-> 0, asked |-> [t \in Targets |-> 0],
             failed |-> {}, raced |-> {}]

\* Nothing runs, waits or is delivered but commits that were pushed; installations are
\* stored only with an App.
GitHubTypeOK ==
  LET Shas == 0..github.head IN
  /\ github.head <= MaxPushes /\ github.apps <= MaxApps
  /\ \A i, j \in github.insts : i.id = j.id => i = j
  /\ wire \subseteq [event : {"push", "installation"}, app : 0..github.apps,
                     inst : Nat, sha : Shas]
  /\ \A h \in Hooks : hook[h].at \in {"idle", "push", "installation", "list", "enqueue"}
  /\ db.app \in {NoApp} \cup 1..github.apps /\ db.auto \in [Targets -> BOOLEAN]
  /\ db.app = NoApp => db.insts = {}
  /\ DOMAIN ops = Operators
  /\ \A q \in Queues : /\ \A i \in DOMAIN queue[q] : queue[q][i] \in [target : q, sha : Shas]
                       /\ working[q] = NoWork \/ working[q] \in [target : q, sha : Shas]
  /\ live \in [Targets -> Shas]

GitHubNext ==
  \/ PushCommit
  \/ \E app \in 1..github.apps : Install(app)
  \/ \E i \in github.insts : Uninstall(i) \/ Suspend(i)
  \/ \E d \in wire : GiveUp(d)
  \/ \E h \in Hooks :
       \/ \E d \in wire : Receive(h, d)
       \/ RemoveInstallation(h) \/ KnowInstallation(h) \/ ListTargets(h) \/ ListedAll(h)
       \/ \E t \in Targets : Enqueue(h, t) \/ EnqueueFails(h, t)
  \/ \E q \in Queues : Clone(q) \/ Deployed(q) \/ DeployFails(q)
  \/ \E o \in Operators :
       \/ StartConnect(o) \/ Converted(o) \/ ConnectFails(o) \/ CreateApp(o)
       \/ \E i \in github.insts : StartSetup(o, i)
       \/ StoreInstallation(o)
       \/ \E t \in Targets : StartToggle(o, t) \/ TurnOff(o, t)
       \/ Toggle(o) \/ Disconnect(o)

GitHubSpec == GitHubInit /\ [][GitHubNext]_gitVars

-----------------------------------------------------------------------------
(* However its deliveries were delayed, repeated or reordered, a target with *)
(* no deployment left to run whose last one succeeded runs a commit at least *)
(* as new as every push that was queued for it (github-webhook.ts,           *)
(* index.ts gitClone).                                                       *)
NewestPushDeployed ==
  \A q \in Queues : \A t \in q \ memo.failed :
    (working[q].target # t /\ \A k \in DOMAIN queue[q] : queue[q][k].target # t)
      => live[t] >= memo.asked[t]

(* A target deploys on push only while an App is connected, or its toggle   *)
(* was written after the App it was checked against was disconnected        *)
(* (github.ts DELETE, applications.ts autoDeployBlocker).                   *)
AutoDeployNeedsApp == \A t \in Targets \ memo.raced : db.auto[t] => db.app # NoApp
=============================================================================
