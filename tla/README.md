# Sohwe: TLA+ models and proofs

Sohwe is a self-hosted platform that builds and runs applications on one Docker
host.  A Fastify API records what users ask for in PostgreSQL and adds jobs to
BullMQ queues in Redis; one worker process takes the jobs and drives Docker; a
watcher in the worker follows Docker's events; Traefik routes by container labels;
a dashboard shows rows and streams logs.  Paths below are relative to `src/`.

Nothing in that chain is transactional end to end.  The row, the job and the
containers change in separate awaited steps, any of which can fail or be cut off by
a restart, and requests and jobs interleave at every await.  The models here are
about that: what holds between a row and the containers it speaks of, whichever
steps failed and in whichever order the rest happened.

## 1. Inventory

| Component | State it keeps | Operations | What is hard | What makes it correct |
|---|---|---|---|---|
| Coordinated project releases (`worker/src/project-deploy.ts`, `api/src/routes/projects.ts`) | `projects`, `project_releases`, `service_deployments` rows; one container per release and service; the project's networks | deploy, roll back, push; build, release job, candidates, promotion, retirement, commit | a multi-container switch without a transaction; worker crashes; re-runs; Docker errors between any two steps | service never interrupted, jobs and dependencies first, no mixture of releases left behind |
| Application deployments (`worker/src/index.ts`, `api/src/routes/applications.ts`) | `applications`, `deployments` rows; one container | deploy, roll back, push, delete | the container is replaced in place; the status is written by worker and watcher | a status that matches what runs; rollbacks run the recorded image |
| Crash watcher (`worker/src/crash-watch.ts`) | an events stream | die, oom, reconnect | events are handled after the state they are about has changed | only crashes are reported as crashes |
| Managed datastores (`worker/src/datastores.ts`, `api/src/routes/datastores.ts`) | `datastores`, `datastore_bindings` rows; container, volume; URLs in applications' environments | create, provision, rotate, toggle public access, delete, dump, restore, bind, unbind | the password lives in row, engine and environments at once | stored passwords work, data survives everything but a deletion, bound applications follow |
| Queues (`packages/queue`) | waiting, active, stalled jobs | add, take, acknowledge, stall | a job runs again after a crash | every job ends |
| Build logs (`worker/src/build-log.ts`, the SSE routes) | head, tail, unwritten text; the stored log | line, flush, end, replay | overlapping flushes; a reader between replay and subscription | what is kept is in order and complete |
| Project services and their editor (`api/src/routes/projects.ts`, `dashboard/.../EditProjectDialog.tsx`) | `services`, `service_dependencies` rows | create, change, delete a service; save a whole document; delete the project | every request checks first and writes later; a save is many requests at once; the release reads the rows meanwhile | what is stored stays a project the schema would accept; a release never starts a service out of order |
| Service logs (`worker/src/service-logs.ts`, the project's stream in `projects.ts`) | tails, event keys; `service_logs` rows; the page's cursor | start, stop, recover; history, stream, reconnect | lines read twice after a restart; rows committed in another order than their ids; old rows removed beside it; calls whose rejection is swallowed | the lines stored are the first printed, stored before they are published; nothing published lost between replay and live |
| Runtime logs (`worker/src/runtime-logs.ts`, `api/src/runtime-log-history.ts`, the log routes of `applications.ts`) | one follow stream per application, the tail registered for it | stop, attach, re-attach at start; stream, history | a stream ends after its successor is registered; the scan of a starting worker beside a deployment; rounding to seconds | one stream, that of the running container; live lines in order; a history shows the newest lines |
| Backups (`packages/backups`, `packages/bundler`, `worker/src/backups.ts`, `api/src/routes/backups.ts`) | schedules, destinations, bundle rows and files | tick, export, retention; export by hand, restore under three policies | schedules are edited while their export waits; a bundle is gathered in several reads; a restore maps names to rows that exist, or not | retention keeps the newest; one export per occurrence; a restore brings back what was exported and adds only |
| Members and invitations (`api/src/routes/members.ts`) | users, roles, invitations | invite, revoke, accept, change role, remove | check-then-act races | an organization keeps an owner; an invitation is used once |
| Domains and DNS (`api/src/routes/domains.ts`, `api/src/dns`) | domains, primary and redirect marks | add, check, make primary, redirect, remove, replace; write an A record | two marks and two tables to keep consistent; routes follow with the next deployment; the zone is edited elsewhere too | one primary domain, redirects that land; one container per attached hostname; a record that was written is found once lookups see it |
| Environment variables and secrets (`api/src/routes/variables.ts`, `env-vars.ts`, `build-args.ts`, `variable-store.ts`, `packages/crypto`) | encrypted maps | read, replace, patch, move between scopes | one list over two maps; read-modify-write of whole maps by API and worker | nothing changes that nobody asked to change |
| GitHub integration (`api/src/routes/github*.ts`, `packages/github`) | the App, installations, `autoDeploy` marks | connect, set up, disconnect, toggle, webhook, commit status | late, repeated and reordered deliveries; requests that pass a check on a connection that goes | the newest push wins; automatic deployments only while connected |
| Builder, bundler, inspection (`packages/builder`, `packages/bundler`, `worker/src/image-source.ts`) | a working directory | detect, write Dockerfiles, build | pure transformations over files | - |
| Stats (`worker/src/stats.ts`) | samples | sample | - | - |
| Dashboard | React state, revealed and edited copies of rows | forms, the project editor, the variables panel, the log page | saves what was read a while ago | - |
| Setup, login and sessions (`api/src/server.ts`, `setup-gate.ts`, `session.ts`) | users, `sessions` rows, two cookies per browser, the gate's password | unlock, set up, log in, log out, accept an invitation, remove a member, sweep | rows, cookies and clock move apart; users are counted before the setup writes; a user goes while the password is verified | one organization, founded by who proved the installer's password; let in exactly while logged in |
| Audit, host files, CLI and installer | audit rows, files | - | - | - |

How they interact.  The API and the worker share PostgreSQL and never call each
other; a job carries only ids, so the worker reads the row again when it takes the
job and works from that snapshot until it ends.  Both talk to the same Docker
daemon, the API synchronously for deletions and bindings.  The watcher and the
deploy job write the same status column.  Datastores are joined to the networks of
the applications and projects bound to them, by the binding request and again by
each job.  BullMQ runs one job per queue at a time (`concurrency` is left at 1), does
not retry failures (`attempts` is left at 1) and re-runs a job once whose worker
died (`maxStalledCount` is left at 1).

## 2. Modules

| Module | What it is |
|---|---|
| `ProjectRelease` | Releases of one project: API requests, queue, worker, containers, datastores on the network. |
| `ReleaseLedger` | What releases promise, without queue, images or containers. |
| `ProjectReleaseRefinement` | The refinement mapping from the first to the second. |
| `ProjectReleaseProofs` | Proofs about `ProjectRelease`: what serves, the order in which containers come and go, what a release leaves behind, and that releases implement the ledger. |
| `Projects` | Services of one project and what depends on what: edits, the editor's save, a release and the project's deletion beside them. |
| `ProjectsProofs` | Proofs about `Projects`. |
| `AppDeploy` | Deployments of one application, its container, its deletion and the crash watcher. |
| `RuntimeLog` | The tail of an application's container through deployments and restarts of the worker, a viewer of it, the history of a range. |
| `BuildLog` | The stored build log of a deployment and a viewer of it. |
| `DeploymentProofs` | Proofs about `AppDeploy`, `RuntimeLog` and `BuildLog`. |
| `Datastore` | One managed datastore: requests, bindings, queue, worker, container and volume. |
| `Backups` | Backup schedules: ticks, exports, retention, edits of schedules and destinations. |
| `StorageProofs` | Proofs about `Datastore` and `Backups`. |
| `Restore` | What a bundle contains of an organization, and what a restore makes of it. |
| `Members` | Users of an organization and invitations: the requests that change them. |
| `GitHub` | Connecting an App, installations, webhook deliveries, deployments on push. |
| `OrganizationProofs` | Proofs about `Members` and `GitHub`. |
| `Access` | The first-run setup and its gate, logins, and every way a session ends. |
| `AccessProofs` | Proofs about `Access`. |
| `Domains` | Hostnames of applications and services, primary and redirect marks, what containers answer on. |
| `Dns` | The check of a hostname and the record Sohwe writes at the provider. |
| `Variables` | The run-time, build-time and shared variables and the panel over them. |
| `ServiceLog` | Tails of service containers, the stored log, the project's stream and page. |
| `ConfigurationProofs` | Proofs about `Domains`, `Dns`, `Variables` and `ServiceLog`. |
| `RestoreProofs` | Proofs about `Restore`. |
| `MCProjectRelease`, `MCAppDeploy`, `MCDatastore`, `MCMembers` | Model values, service graphs and symmetry for TLC. |
| `MCProject`, `MCDeployment`, `MCStorage`, `MCOrganization`, `MCConfiguration` | Several parts in one instance. |

The components meet in the rows: `ProjectRelease` contains the part of a datastore a
release uses (bound, attached), `Datastore` the part of an application it changes
(its environment), `Projects` the release that reads the services it edits, `Domains` the
deployments that route, `GitHub` the deployments a push leads to, and `Restore` the rows
of all of them.  What is left shares no state.  The composing modules put such parts
side by side: each behaviour follows one of them, named by `part` or chosen initially,
and leaves the others where they began (or without a value), so that one run answers for
several parts at the cost of the sum of their states, not of the product.  `MCProject`
has the two views of a project (its releases with fixed services, and its services with a
simple release), `MCDeployment` a deployment, the log of its build and the log of the
container it starts, `MCStorage` the two subsystems of the worker with a queue of their
own, `MCOrganization` what owners and administrators change, `MCConfiguration` what is
stored of a configuration and read back, accounts and sessions included.

### ProjectRelease

Each awaited effect of `deploy()` in `project-deploy.ts` is an action; `w.pc` names
the await the worker is at, and the other fields of `w` are its locals: the release,
the snapshot of `currentReleaseId` and of the bindings taken with the job, which
services are built, created, started, ready and promoted, and the containers listed
for retirement.  A container is `ctr[r][s]`, by release and service, because
`projectServiceContainerName` is: a second create under the name of an existing
container is refused, and that is what a re-run after a crash meets.  The routed
states are those of a container created with `routeReady`.

The inner `catch` (stop and remove every candidate) and the outer one (record the
failure, set the project back) are `CleanupCandidate`, `CleanupDone` and
`RecordFailure`, and every await that may reject goes to one of them (`Throw`,
`ThrowCandidate`, and the fault branch of each step that swallows its error).  The
`currentReleaseId ? "running" : "idle"` of the failure path uses the snapshot, as
the code does.  The API side keeps `enqueueRelease`'s check-then-create as two steps
(`CheckRelease`, `CreateRelease`) and the webhook, which does not check, as another
(`PushRelease`).  The reads before the `try` (304-329) may reject as well: then the job is
gone, the release stays as it was created, and no action of the worker ends it
(`TakeJobFails`).  `Promise.allSettled` over the promotions is a set of independent
per-service sequences: any may reject while the others go on.

Data that no property reads is abstract: an image is the pair of the release that
built it and the build key; log lines, commit data and commit statuses are left out.

### Projects

Each route about services is two actions, its reads and refusals (`ReadPatch`,
`ReadAdd`, `ReadDelete`) and its transaction (`WritePatch`, ...), because nothing but
the foreign keys and unique indexes connects the two; the write is refused by those only.
A request is in hand per actor: one administrator, and one call of the open editor per
service, since `EditProjectDialog` sends one `PATCH` per service in a `Promise.all`, after
adding the services its document names and the project lacks (`CreateMissing`,
`PatchServices`).  The save is over with the first that is refused, while the others go
on (`EndSave`).  A document of the JSON editor is one its schema accepts, the form's
drafts are any.  `validateDependencyChange` and `orderRuntimeServices` are the same
depth-first search in two places (`Search`, of which `Visit` is the recursive function both
declare, with what it has visited, is visiting and has appended so far).  `Acyclic` is what
it decides: among any services there is one that depends on none of the others.
The release job reads the services once (`job.seen`)
and its deployment rows disappear with deleted services, so each later step looks for its
row (`RowExists`) and fails without it.  Containers are known by release and service, as
their names are: a job that fails removes those of its own release (`Candidates`), one that
succeeds those of the others.  Deleting a project is `removeProjectDocker` step by step and
then the row, which a foreign key between its services may refuse.  Wherever the code stops
and removes containers it swallows the errors: Docker may leave any of them running, or
stopped and there (`StopAndRemove`, the ghost `refused`); one that runs keeps the network
and with it the project (`RemoveNetwork`).

### AppDeploy

`runDeploy()` of `worker/src/index.ts`, one action per awaited effect.  The
application has one container; a new one is created only after the old is stopped
and removed, so the status on the failure path depends on `oldContainersStopped` and
on the `app.status` read with the job.  A `die` event of a stopped or crashed
process is counted in `dies` and handled by `OnCrash` at any later time, as events
arrive by a stream of their own.  `DeleteApp`, `DeleteContainers`, `DeleteVolumes` and
`DeleteRow` are the deletion in `applications.ts`, which neither waits for nor cancels a job;
a container that is not removed is tolerated, a volume or network is not, and the deletion
ends there with the row kept (`DeletionRefused`).  A job whose first reads reject leaves the
deployment pending (`TakeJobFails`).

Each await may throw by itself at any time (a missing image, a build that fails);
`faults` is the set of infrastructure kinds that have failed, and `MaxFaults` bounds
only those.  `CloseLog` is the `sink.end()` after the success has been recorded: it is
inside the `try`, so when the database rejects it the deployment is recorded as failed
after all, with the container running.

### Datastore

`runProvision`, `runRotate`, `runDelete` of `worker/src/datastores.ts` share
`startDatastoreContainer`, so they share the positions `volume` to `ready`.  A
password is the number of its generation.  What a postgres engine accepts is kept in
the volume (`POSTGRES_PASSWORD` only counts at initdb), what a redis engine accepts
in the container's arguments; `EnginePw` is that difference.  `env[a]` is the
password of the URL in an application's environment.  A binding request reads the
credentials, commits binding and environment in one transaction, then connects the
network, in three steps with anything between them.

### Backups

The tick and the exports share one queue and one worker.  `Advance` writes the run of a
due schedule before `Enqueue` adds its export, as `runTick` does.  `applyRetention`
works from the list it read (`ListExcess`), deleting files and rows one by one
(`DeleteFile`, `DeleteRow`); a deletion may fail and is tolerated.  Deleting schedules and
destinations changes or removes rows under it, by the schema's `SetNull` and `Cascade`.
A cron expression is how many units of time apart its occurrences are.  An export by hand
without a destination is the answer of its request: it has a row that reads ready and no
file (`Download`).

### Restore

Rows keep their order and ids, because a restore depends on both.  An export reads
applications, datastores and projects in three queries (`ReadApps`, `ReadStores`,
`ReadProjects`) with any other request in between.  A restore is one transaction, so it is
one step, computed by folding `RestoreApp`, `RestoreProject` and `RestoreStore` over the
bundle the way the handler's loops do, each entry seeing what the ones before it wrote;
`ok` is whether a unique index refused a row.  Slugs are sequences, a name and the
suffixes of `-restored`; a password is the id of the datastore row it was made for, so a
URL tells whose it is.  `Parse` is what older format versions carry.  Container and
volume of a restored datastore are provisioned by its queue, as `Datastore` has it.  A bundle carries
neither the redirect flags of hostnames (`CHANGELOG.md:196`) nor automatic deployments: the
hostnames of a restore redirect nowhere, a new application and every project have `autoDeploy`
off (`backups.ts:946`), an overwritten application keeps its own, which `scalars` leave out
(`backups.ts:752`).  The rows of the model have neither, and `RoundTrip` is about the rest.

### Members

Each handler of `routes/members.ts` is a sequence of reads and one write, every one
an action, and `rq[c]` is the request a client has in hand: what it asks, where it is,
and the role `requireRole` read with the session.  Only the redemption of an invitation
is a transaction (`ClaimAndCreate`).  `Overlapping` says whether two role changes or
removals may be in hand at the same time.  The server does not keep them apart; the
constant separates what the handlers guarantee one by one (the passing run and the
proofs) from what they do not guarantee together (section 6).

### GitHub

`github` is the other side: the branch's head, the Apps made, the installations.
Deliveries wait on the `wire` until GitHub gives them up; each may be received any number
of times and in any order, and several are handled at the same time (`Hooks`), as Fastify does.
Each is verified, looked up and carried out in steps (`Receive`, then `RemoveInstallation`,
or `KnowInstallation`, `ListTargets` and `Enqueue`), the worker clones the branch's head at the time of the job
(`Clone`), not the delivered commit.  Connecting, setting up and toggling each check a
connection first and write later; the unique index and the foreign key are what the
writes still obey.  A check needs a token from GitHub and the repository in what the token lists;
where GitHub refuses either, the request is refused (`AccessibleInstallations`).

### Domains

One request per administrator in hand, in two steps again.  Among the hostnames are the
addresses Sohwe makes for applications and services under its base domain (`Address`), and
anybody may ask for one of those too.  The route of applications refuses those of
applications (`BuiltIn`, `generatedHostOwner`), the routes of services refuse none
(`StartReplace`).  `PlanHosts` is what
`planHosts` and the labels make of the rows a job has read; the container answers on them
once it has been replaced (`RouteHosts`).  The ghost `raced` collects applications,
services and hostnames two overlapping requests had in common: the properties speak of the
others, because neither table nor transaction keeps such requests apart.  `DeployedRoutesAgree`
says which hostnames may still be answered by two containers without any overlap: an address
Sohwe made for one and a service has attached (section 6).

### Dns

A hostname has two zones it might live in, the apex and a delegated sub-zone, at one of several
providers, and the token stored for a provider sees some of them.  Records, delegation and the address of the base domain
are changed by an operator at any time; a proxied record answers with the proxy's
address.  A lookup answers what is in force, or what was at any time before (`memo`, for a
cache), or fails (`Resolved`, `FoundAt`, `ExpectedIps`), and the check has a status for each.
What is expected is configured, or found by resolving the base domain or its wildcard, and
never a proxy's address.  The nameservers found tell the provider, and each provider has a
credential of its own (`StartApply`).  The check and the record route each read what is
expected before they use it.  The ghost `ours` marks a status whose lookups were answered
with what is in force, where that is what Sohwe wrote and was so from the check's beginning.

### Variables

Per key a run-time, a build-time and a shared value.  `RowOfEntry` and `Placed` are
`mergeScoped` and `splitScoped` for one key, `Patched` is `applyScopedPatch`.  A request
carries what it read; the ghost `due` applies what was asked of it key by key, and `lost`
collects the keys on which a request overwrote something it had not seen.  The panel of
each editor may hold a revealed copy for any time before "Save all" sends it.

### ServiceLog

A line is its number in its container; its timestamp has the resolution the tail's
`since` has (`LinesPerSecond`).  Reading, storing (`Insert` draws the id, `Commit` makes
it visible, in any order between containers) and publishing are separate steps in the order
of the promise chain.  A line in two hundred, of all projects together, is followed by the
removal of all but the newest rows of its project (`Prune`).  Each of the three calls may be
rejected: then the line is not stored (`InsertFails`), or stored and never published, because
`persist` throws after the removal or a publication's rejection is swallowed
(`NeverPublished`).  The ghosts `dropped`, `silent` and `pruned` keep the three apart, and
`again` the containers of which a line was stored a second time after its row was removed.  A
crash forgets what was read, may or may not keep the insertion
under way, and never publishes it.  The stream subscribes, replays a page after the cursor and
then sends what it kept; the page reconnects from the largest id it has.

### RuntimeLog

Docker keeps a container's lines with their times; `since` and `until` are in seconds, of
which the clock has several ticks (`PerSecond`).  `streams` are the follow streams the
worker has open and `tail` the entry of the application in its map `tails`.  A deployment
stops the tail before it replaces the container and attaches after the new one runs
(`StopOld`, `RemoveOld`, `StartNew`, `JobAttaches`, `JobAttached`); `startForRunning` lists
what runs and attaches in its own time (`ScanLists`, `ScanAttaches`, `ScanAttached`), while
the workers take jobs already: `raced` notes that both were under way.  The close event of a
destroyed stream and the end of a stopped container's come later than what caused them
(`StreamEnds`), so a number may be ended after its successor is registered; `Unregister` is
the comparison in `onEnd` that this needs.  `WorkerStops` is `stopAll` or the worker's death.

### Access

A browser has a gate cookie (`unlocked`, when its password was typed), a session cookie and
one request in hand; `users` rows are numbered in the order of their creation and never
reused, as their ids are not.  The setup is three steps, the hook that lets it in, the count
of users, and the transaction after the password is hashed (`AskSetup`, `CountUsers`,
`CreateOrganization`); a login two, the user read and the session written after the password
is verified (`AskLogin`, `IssueSession`); the removal of a member two as well.  What is asked
for is chosen where it is first used.  `Expired` compares as `getSessionUser` does and
`Swept` as the hourly sweep does; whoever was removed loses its sessions by the schema's
cascade (`CascadeSessions`).  The ghost `login` is what a browser last did, `overlapped`
whether two setups, or two removals, were under way at once.

### BuildLog

The state of `LogSink` in `build-log.ts` field by field, with lines instead of bytes.
The timer's flush is `void this.flush(false)`: the write it issues stays in `writes`
while lines, flushes and `end()` go on, and only `end()`'s own write is awaited.  Writes
go through a pool of database connections; `ordered`, chosen initially, says whether
they are executed as issued.  A rejected write nobody awaits ends the process; a
rejected write of `end()` leads to the failure path, which logs once more
(`ReportFailure`).  A viewer is sent the stored copy and subscribes afterwards.

## 3. Runs

`Inv` stands for an invariant, `Act` for an action property, `Ref` for a refinement,
`Live` for a liveness property.

| Run | Instance | Shows |
|---|---|---|
| `release_faults` | an HTTP service, a worker it needs healthy, a release job; 2 releases; 2 faults of any kind (worker, Docker, database, API, Redis) | Inv: `AlwaysServed`, `AtRestExactlyCurrent`, `RollbackKeepsImages`; Act: `LiveRemovedOnlyWhenReplaced` |
| `release_ledger` | two HTTP services sharing an image, a datastore; 3 releases; 1 Docker, Redis or API fault | Ref: `ImplementsLedger` |
| `project` | the services of `release_faults`, 2 releases and 1 worker crash; or the same services edited and deleted, 2 requests or saves of up to three calls each beside a release, 1 container Docker does not stop or remove | Live: `QueuedReleaseFinishes`; Inv: `SerialKeepsDocument`, `OnlyOrderedServicesStart`, `SavedAsAsked`, `DeletedLeavesNoContainer` |
| `app` | 2 deployments, awaits that throw, 1 infrastructure fault of any kind (worker, Docker, database, API, events), 1 crash of the process, deletion at any time; or a log limit of 1 line and 1 line, 3 lines, 2 runs of the job, 1 rejected write, writes in order or not; or 2 containers of 2 lines in 3 ticks of half a second, 1 broken stream, exit or end of the worker | Inv: `RunningIsDeployed`, `FailureReportsWhatRuns`, `StoredIsComplete`, `FollowedOnce`; Act: `LiveInOrder`; Live: `QueuedDeploymentEnds`, `LinesGetStored` |
| `datastore` | either engine, 2 requests of any kinds, one application bound and unbound at any time, 1 fault of any kind (worker, Docker, database, Redis); or 2 schedules, 4 units of time, 1 edit, 1 fault | Inv: `DeletedLeavesNothing`, `RunningAnswers`, `NewestIsStored`, `OccurrenceExportedOnce`; Act: `StoredOnlyWhenAccepted`; Live: `DueIsRecorded` |
| `organization` | the founder and two people invited, 2 invitations, 2 requests in hand, of which at most one is about a member; or an application and a project, 2 pushes, 1 App, 1 installation, 2 deliveries handled, at the same time if they arrive so, 4 requests | Inv: `SerialKeepsOwner`, `NewestPushDeployed`, `AutoDeployNeedsApp`; Act: `AuthorityRespected`, `JoinOnlyWhilePending` |
| `configuration` | 3 requests around the reads of an export and 2 restores; or 2 editors, 3 requests, 2 keys; or 4 requests about an application, a service, their addresses and one more hostname; or 2 providers, 2 edits and 2 requests of DNS, lookups that fail or lag; or 3 lines of 2 containers, 2 rows kept, 1 crash or refused call; or 2 browsers, 2 addresses, 2 organizations, 2 accounts and 2 sessions in 3 days of which a session lives 1 | Inv: `RoundTrip`, `RestoreOnlyAdds`, `RestoredBindingsAnswer`, `EditsKept`, `SerialKeepsRouting`, `DeployedRoutesAgree`, `AppliedRecordVerifies`, `StoredWithoutGap`, `HandoffWithoutGap`, `SerialOneOrganization`, `LetInExactlyWhileLoggedIn` |
| `failure_leaves_current_live` | two releases, 1 worker crash | violation, section 6 |
| `detach_after_promotion` | two releases, a datastore, no fault | violation, section 6 |
| `app_false_crash` | 2 deployments, no fault | violation, section 6 |
| `rotation_reaches_bound_apps` | either engine, 1 rotation, 1 binding, no fault | violation, section 6 |
| `owners_overlap` | two people, 2 requests about members in hand | violation, section 6 |

`CHECK_DEADLOCK` is off in all of them: the ids of releases, deployments and invitations
and the numbers of requests, edits and lines are bounded, so a system where nobody asks
for anything any more stops, as it should.

The modules state more than the runs check: each a `TypeOK`, and facts of two kinds.  Some
are proved (section 4), which says more than a run would: `NoRowLeftInProgress`,
`CurrentIsSuccessful`, `BuiltBeforeTouched`, `MigratedBeforeCandidates`,
`CandidatesHaveDatastores`, `JobStartsOncePerAttempt`, `RoutedOnlyAfterProbes`,
`UntouchedUntilBuilt`, `RollbackKeepsImage`, `DataOnlyLostByDelete`, `FounderUnlocked`,
`StoredIsASnapshot`.
The others hold on the instances above and can be added to a configuration, those of a part
through a definition in the composing module: `NoneInProgressAtRest`, `ProvisioningEnds`,
`DeletionEnds`, `NothingLostOrDoubled`, `ViewerInOrder`,
`DiagnosisSeesTheEnd`, `HistoryIsNewest`.  Five are stated because they do *not* hold, and say
what the code leaves open (section 6): `DependenciesAcyclic`, `PrimaryServes`,
`TakenHostsNeverFail`, `HostnamesUnique`, `ReconnectWithoutGap`.

### Bounds, and why they are enough

* Releases, deployments: what can go wrong involves the attempt in hand, the one
  that is live, and for requests one more that is checked or queued meanwhile.  Two
  give the live one and its replacement, three (`release_ledger`) a third queued
  behind or rolled back to.
* Services: one of each kind, with a dependency between two of them, shows every
  branch of the code; the second graph has two HTTP services so that one promotion
  can succeed while the other fails, and a build key they share.
* `MaxFaults` counts infrastructure faults, and `FaultKinds` says which.  Two
  (`release_faults`) allow an error in the handling of an error, and a crash after
  which the re-run fails.  One suffices in `AppDeploy`, where any await of a re-run
  may throw without being counted, and in `Datastore`, whose safety properties are
  proved for any number.
* `MaxStalled` is 1, BullMQ's default, which the code does not change.
* `MaxRequests` counts requests after the creation of a datastore: two interleave
  any pair of a rotation, a toggle, a dump and a deletion.  The proofs have no such bound.
* `MaxRefused` counts the containers Docker does not stop or remove in `Projects`: one shows what
  is left of a release or a project.  `Init` there may also begin with a project that runs, which
  saves the run the way to it.
* `MaxCrashes` counts crashes of the application's own process (`AppDeploy`).
* Members: an administrator who acts on an owner while a third account exists takes
  three people; two invitations let one address be invited, removed and invited again.
* `MaxLines` passes the head's limit by more than the tail holds, so lines are
  dropped; `MaxAttempts` 2 puts an earlier run's text in the row.
* `MaxAsked`: a request or a save beside another, or beside a release.  Every hazard of
  `Projects` is of two; three services are enough for a cycle, an order and a release job.
* `Backups`: four units of time let a schedule fall due twice while its first export
  waits, and a late run be followed by one on time; two schedules share the queue; retention
  of one bundle has something to delete.
* `Restore`: one name, so that every entry of a bundle meets the row of that slug, or a
  renamed one; three requests make a datastore, what it is bound to and the binding.
* `Domains`: the addresses of an application and of a service and one more hostname, so that one
  can redirect to another and either table can hold them; one application, as two take the
  run beyond its time (the theorems are for any number).  `Dns`: two providers, one of them with
  a credential or the zone delegated to it in the meantime; a credential and one edit, a record
  and a check.
* `Variables`: three requests of two editors are a read, an edit by somebody else and a
  write; an image application and a service differ in the maps they have.
* `GitHub`: two pushes can be reordered, two handled deliveries repeat one or overlap; the proofs
  have no such bounds.
* `RuntimeLog`: two containers are one that is replaced and its successor; two lines of each
  in two seconds let a stream begin before, within and after a second of its container; one
  mishap ends a stream, a process or the worker.
* `Access`: two browsers let one set up, log in or remove between two steps of the other;
  days and lifetimes let every cookie be fresh, at its last day, and over.  The proofs have
  no such bounds.
* `ServiceLog`: three lines, two in one second; a page and a replay of one row, so that
  both limits are passed; two rows kept, so that the third row removes one; one crash, refused
  call or disconnect.

Properties say in their comment when they hold only until the first fault.  That is
the code's own limit and not the bound's: for instance a failed write of the status
leaves the status behind, and no later step corrects it.

### Fairness

Liveness assumes weak fairness of the worker's steps together (an event loop that
does not stop; the container is restarted by Docker's restart policy, so a worker
that is down comes up), of BullMQ's stalled checker, and of the second half of a
request already accepted (the row is written, `queue.add` follows).  Nothing is
assumed of users, of the watcher, or of Docker, whose errors may happen at any
await but whose calls return.  In `BuildLog` timers fire and the database answers
writes; that a build logs another line or ends is not assumed.  In `Backups` the
queue's repeatable tick is due again and again and the worker goes on; that no
administrator edits the schedule is a condition of the property, not an assumption.
The fairness of a part is required in the behaviours that follow it.

## 4. Proofs

`tlapm` checks, for every value of the constants and so for any number of releases,
services, datastores, requests, faults, crashes and re-runs:

| Module | Theorem | States |
|---|---|---|
| `ProjectReleaseProofs` | `TypeCorrect` | `Spec => []TypeOK` |
| | `ServedInvariant` | `Spec => []ServedInv` |
| | `ServiceNeverInterrupted` | `Spec => []AlwaysServed` |
| | `LiveSetProtected` | `Spec => LiveRemovedOnlyWhenReplaced` |
| | `ProbesBeforeRouting` | `Spec => RoutedOnlyAfterProbes` |
| | `HandedOverOnce` | `Spec => []HandoverInv` |
| | `RowsSettled` | `Spec => []NoRowLeftInProgress` |
| | `MigratedFirst` | `Spec => MigratedBeforeCandidates` |
| | `RollbackImages` | `Spec => []RollbackKeepsImages` |
| | `BuiltFirst` | `Spec => []BuiltBeforeTouched` |
| | `RestsOnCurrent` | `Spec => []AtRestExactlyCurrent` |
| | `CurrentRecorded` | `Spec => []CurrentIsSuccessful` |
| | `DatastoresAttached` | `Spec => []CandidatesHaveDatastores` |
| | `JobStartsCounted` | `Spec => []JobStartsOncePerAttempt` |
| | `ReleasesKeepLedger` | `Spec => ImplementsLedger`, without worker crashes and database errors |
| `StorageProofs` | `TypeCorrect` | `Spec => []TypeOK` |
| | `DeletionComplete` | `Spec => []DeletedLeavesNothing` |
| | `PasswordsAccepted` | `Spec => StoredOnlyWhenAccepted` |
| | `DataKept` | `Spec => DataOnlyLostByDelete` |
| | `RunningDatastoreAnswers` | `Spec => []RunningAnswers`, when a stalled job is re-run at most once |
| | `StorageNewestIsStored` | `StorageSpec => []NewestIsStored` |
| | `StorageOccurrenceOnce` | `StorageSpec => []OccurrenceExportedOnce` |
| `DeploymentProofs` | `TypeCorrect` | `Spec => []TypeOK` |
| | `RunningApplicationIsDeployed` | `Spec => []RunningIsDeployed` |
| | `FailuresReportWhatRuns` | `Spec => []FailureReportsWhatRuns` |
| | `RollbackPromotesImage` | `Spec => []RollbackKeepsImage` |
| | `ContainerKeptUntilBuilt` | `Spec => UntouchedUntilBuilt` |
| | `RunningContainerFollowed` | `DeploymentSpec => []FollowedOnce` |
| | `ViewerNeverGoesBack` | `DeploymentSpec => LiveInOrder` |
| | `EndedLogComplete` | `DeploymentSpec => []StoredIsComplete` |
| | `StoredLogSnapshot` | `DeploymentSpec => []StoredIsASnapshot` |
| `OrganizationProofs` | `TypeCorrect` | `Spec => []TypeOK` |
| | `OwnerStays` | `Spec => []SerialKeepsOwner` |
| | `ChangesAreAuthorized` | `Spec => AuthorityRespected` |
| | `JoinsArePending` | `Spec => JoinOnlyWhilePending` |
| | `GitHubTypeCorrect` | `GitHubSpec => []GitHubTypeOK` |
| | `AppStaysConnected` | `GitHubSpec => []AutoDeployNeedsApp` |
| | `NewestPushRuns` | `GitHubSpec => []NewestPushDeployed` |
| `AccessProofs` | `TypeCorrect` | `Spec => []TypeOK` |
| | `OneOrganization` | `Spec => []SerialOneOrganization` |
| | `FounderProved` | `Spec => FounderUnlocked` |
| | `SessionsLetIn` | `Spec => []LetInExactlyWhileLoggedIn` |
| `ProjectsProofs` | `SearchFindsCycles` | a search of a topology that finds no cycle proves it `Acyclic` |
| | `SerialRequestsKeepDocument` | `ProjectSpec => []SerialKeepsDocument` |
| | `ReleaseStartsInOrder` | `ProjectSpec => []OnlyOrderedServicesStart` |
| | `ReportedSaveIsStored` | `ProjectSpec => []SavedAsAsked` |
| | `DeletionLeavesNoContainer` | `ProjectSpec => []DeletedLeavesNoContainer` |
| `ConfigurationProofs` | `ConfigurationRouting` | `ConfigurationSpec => []SerialKeepsRouting` |
| | `ConfigurationRoutes` | `ConfigurationSpec => []DeployedRoutesAgree` |
| | `ConfigurationEdits` | `ConfigurationSpec => []EditsKept` |
| | `ConfigurationRecords` | `ConfigurationSpec => []AppliedRecordVerifies` |
| | `ConfigurationStoredLogs` | `ConfigurationSpec => []StoredWithoutGap` |
| | `ConfigurationHandoff` | `ConfigurationSpec => []HandoffWithoutGap` |
| `RestoreProofs` | `ConfigurationRestoreAdds` | `ConfigurationSpec => []RestoreOnlyAdds` |
| | `ConfigurationRestoredBindings` | `ConfigurationSpec => []RestoredBindingsAnswer` |
| | `ConfigurationRoundTrip` | `ConfigurationSpec => []RoundTrip` |

`Spec` is the specification of the component itself.  `StorageSpec`, `DeploymentSpec`,
`ProjectSpec` and `ConfigurationSpec` are those of the composing modules, which the runs check; a theorem about one of them says
nothing beyond its part, because the other parts stand still meanwhile.

Assumptions are those of the modules: at most one release service per project
(`KindAssumption`, a constraint of the schema the API validates), dependencies among
runtime services (`DepsAssumption`, `validateDependencyChange`), a founder who is one
of the people (`FounderAssumption`) and a `None` that is none of them, and the types of
the bounds (those of `GitHub` and `Access` are in the theorems).  `ServicesAssumption` says that
the services are finitely many and that the administrator is none of them, `OwnersAssumption`
that an application is no service (a hostname may be anybody's address), `NoneAssumption` that no value stands
for its absence, `PolicyAssumption` that the absence of a policy is none of the three, `LogsAssumption` and `LinesAssumption` that limits and resolutions are
numbers, and a project's containers finitely many, `BackupsAssumption` that periods are.  No acyclicity of `ProjectRelease`'s services is
needed: a cyclic graph never starts.  Three theorems ask for more.

* `RunningDatastoreAnswers` asks for `MaxStalled <= 1`, which is BullMQ's default and which no
  worker of the repository changes; `RunningAnswers` speaks of no more crashes than that.  With
  two crashes it is false whatever the bound: a rotation is cut off after its `ALTER USER`, the
  provisioning behind it after it removed the container, the re-run of the rotation finds no
  container and fails, and that of the provisioning ends in "running" with the old password.
* `ReleasesKeepLedger` asks for `FaultKinds` without `"worker"` and `"db"`: a crash at the
  wrong moment makes a release end as failed that the containers already run, which the
  ledger does not allow and section 6 describes; nor is there a ledger in the database when
  the database refuses its writes.  Docker, Redis and API faults are allowed, in any number.
* `NewestPushRuns` asks that nothing is both an application and a project: they are rows of
  two tables with queues of their own.

**ServedInv.**  "Some release serves" alone is not inductive: the step that removes
the last container of the old release preserves it only because the new one serves,
and that is known only from what the worker has done before.  `LocalsInv` ties the
worker's locals to its position (`cands = Runtime` from the first start on, and so
on); `CandidatesInv` ties the locals to Docker (what is in `started` runs, what is in
`promoted` is routed, from the last readiness check to the commit the release in hand
serves); `BackedInv` says that while candidates exist that may be stopped and removed
by the clean-up, another release serves.  A crash resets the locals and leaves the
containers, which these are written to survive.  The case that makes `BackedInv`
necessary is the re-run of a release that is already live: it fails at the first
`createContainer` (the name is taken), before it has candidates to clean up.

**HandoverInv, RowsInv, ImagesInv.**  A release is handed over once: `HandoverInv` says that it
waits, is stalled, is in the worker's hand, or is none of these, and never two of them, which a
proof about any queue length needs before it can say anything about the release in hand.
`RowsInv` and `ImagesInv` are inductive relative to it.  The case `ImagesInv` is about is a
source whose job is run again while a rollback promotes its images: it keeps a complete release's
images because a build tags the image with its own release, so the second build makes the
same.

**OrderInv, RestInv.**  `AtRestExactlyCurrent` holds until the first fault, and that the
worker's snapshot of `currentReleaseId` is still true when it is used is what makes it so.
`OrderInv`, true as long as no worker crash and no database error has happened, says that one
release at most is being tried and that it is the one in hand; `RestInv`, true until the first
fault of any kind, adds that every runtime container belongs to the current release or to that
one, where the attempt has got to.

**The refinement.**  `ReleasesKeepLedger` proves, action by action, that a step of
`ProjectRelease` is a step of `ReleaseLedger` under the mapping of `ProjectReleaseRefinement` or
leaves the ledger's variables alone.  `Serving` is not a variable but read off the containers;
the steps that touch a container are therefore grouped by what they do to it
(`LedgerServing`, `InHandServing`): a release comes up, goes down while another one serves, or neither.
`BackedInv` gives "while another one serves", `OrderInv` that phases change
one at a time.

**StoreInv.**  A job works on the row only while it exists (`WorkHasRow`), which
needs that only the deletion removes it and that one job runs at a time;
`RowGoesLast` and `GoneIsClean` carry "container and volume are gone" across the
await between volume and row and from there on; `RightBranch` and `ContainerIsMine`
say which branch of the handler the position belongs to and that the container was
made with the job's password, which gives `AcceptedBeforeStored`.

**Datastore's AnswerInv.**  "Reads running, so it answers" involves the row, the container,
the volume, the requests under way and the queue.  `UpInv` says that what reads "running" runs or
a job that restores it is still to come; `PasswordInv` that the engine accepts the stored
password, or a rotation that ends in storing the engine's is in hand or to be run again, on a
running container; `PortInv` the same of the published port and a toggle.  `RerunInv` counts
crashes against re-runs: this is where the bound on stalled jobs is needed.

**AppDeploy's AnswerInv.**  The application's row is written by the job, the watcher, the API
and the failure path, which restores a status read long before.  `Stage` ties what row and
container are to the await the job is at, `Answer` says that until `oldContainersStopped` is set
what ran still runs, and afterwards the row says "running" only once the successor does.  All of
it is asked only while the worker process has lived and nobody deletes the application
(`Undisturbed`), which the two properties are conditional on as well.  `ImageInv`, for the image
of a rollback, needs no such condition: it holds through crashes, re-runs and the deletion.

**GitHub's FreshInv.**  The newest push queued for a target is in the queue, or in the
worker's hand with the branch's head as it was at the clone or later, or failed, or runs
(`Fresh`).  It rests on commits being numbered as they are pushed and none being delivered before
(`Pushed`); installations keep numbers of their own (`Numbered`) and no App is known that was not
made (`Made`), which is the module's type correctness.  `AppInv` is `AutoDeployNeedsApp` itself:
what is in a toggle's hand needs no record because the write that lost its App leaves the mark.

**Access's SessionInv and FoundingInv.**  Three parties decide whether a browser is let in: the
row its cookie names, the account the row names, and the clock.  `Linked` says that the row a
cookie names is of the browser's last login, `Separate` that no other browser names it and that
the next row is named by nobody, `Known` and `OneRow` that a new account is nobody's old one.
For the setup, `RemovalInv` says that an account stays once there was one, because somebody else
asked for the removal; `SetupInv` that the setup which counted no users is the only one that
did; `GateInv` that it was let in with a proof.  The first two end where requests overlap.

**ProjectsInv and the search.**  The heart of the four properties of `Projects` is
`SearchFindsCycles`.  `Visit` recurses over data, its own path and what it has visited, and no
induction theorem of the library can be instantiated by the provers, so the induction is done by
hand: over how many services are not on the path yet, by the least number for which a claim
fails, a set of numbers and no operator.  The loop over a service's dependencies is a fold, and a
fold is a function on the subsets of a finite set, for which the same is done over the size of
the subset.  The claim says that a visit that reports no cycle has appended every service it
reached once, each after all it depends on, and has left those on the path alone; so the first of
any services in that order depends on none of the others.  With it `SerialNow` says what a request
was checked against still holds when it writes (`Checked`), as long as none overlaps;
`OrderNow` that a job starts services in the order it computed from the services it read
(`job.seen`), whatever has become of them; `EditorNow` that what a save has sent is stored or still
in hand, which only a request of somebody else undoes, and that after a refused call the others
may still be; `NetworkNow` that without a network nothing runs, and that a container which does
not run is one the job has yet to start or one Docker refused to remove, whatever the positions
of the deletion and the job.

**DomainInv.**  What a request was checked against must still hold when it writes, for every
application and hostname no two requests have in common (`GuardHolds`, `HostsFree`); that the
ghost has noted what they have in common (`OverlapsNoted`) is what lets a write of one leave
the check of another alone.  Then `Routing` is kept write by write, `HostsApart` says that a hostname is attached once, and
`RoutesFollow` carries both to what a deployment has read and to what the containers answer on.
That an application's address is attached to no other application is `BuiltIn`'s doing;
nothing like it is claimed of services.

**VariablesInv.**  A request writes what its author asked for and what it has read of everything
else (`ReadsAndWrites`), or a whole map (`ReplacesMap`), with a panel that may be older than
both (`FormedPanel`).  `EditsKept` follows because a key overwritten since it was read is in
`lost`.

**DnsInv.**  While the record in force is the one Sohwe wrote, it is the one a check would expect
now, and a check under way which began on that record (`since`) expects it.  An edit while a check
is under way ends that, also when the record is written again before the check is over.  The
statement asks of the lookups what no code can give, that they are answered with what is in
force; failing and lagging ones are steps the invariant survives.

**ServiceLog's LogInv.**  All of it is about every row there ever was, because what is left of a
table after a removal says little about what comes next.  `RowsDrawn` says that ids are drawn
once, each for one row.  `Whole` says of one container that the lines waiting are successive and
the tail reads the one after them (`InOrder`), that a row being inserted has a greater id than
all before it (`Staged`), that the lines ever stored are the first ones and the next to be stored
is one of them or follows them (`NoGap`), in the order of the ids (`Ordered`), and that what was
removed is older than what is left (`Older`).  A container that lost a line is excepted from
the third, one whose removed line was read again from the fourth.  After a crash the tail starts no
later than the first line that was never stored: a second before the newest row left, or at the
first line when none is; that `Older` holds is why the newest row left is the newest there was.
The unique key then refuses the lines that are still in the table.  `Handed` is about the page:
what the handler has kept back was stored, what it has sent is shown, and nothing live was sent
before the replay.

**RestoreState and RoundState.**  A restore folds over the entries of a bundle, and each entry
sees the rows the ones before it wrote.  Every such loop is unfolded into a function that says
how far it has got (the rows after n entries), and what holds before the first entry and is kept
by one holds after the last, by an induction on n that needs no operator: the least n for which it fails.  What is
carried along is one of three things.

* `RestoreState`: the tables have rows of the right shape with distinct ids below the next one
  (`Tables`), a binding of an application carries the name of its datastore (`Named`) until a
  restore, which may rename one, and a bundle names every datastore once (`Restorable`).  Then a
  restore with "skip" or "rename" keeps every row it found (`OnlyAdds`), and a binding it makes
  finds the datastore it names and writes its address (`Answering`).
* `Neat`: until the first restore slugs are unique, applications and services share no hostname,
  the primary hostname is the first, and a binding is of rows that exist and has its variable.
  It is kept by every request and is what a bundle that no request came between was read from
  (`ReadOnce`).
* `ConfigRestored`, the lemma at the heart of `RoundTrip`: gathering a `Neat` configuration and
  restoring it into empty tables copies it row by row, in the same order, with other ids.  No slug is
  taken and no hostname lost because they are unique in the bundle; a binding finds its
  datastore and its application, or its project and services, by their slugs for the same reason.
  `ComesBack` is `RoundTrip` with the rest of the state made explicit.

**BackupsInv.**  (A download is in the history and was never to be stored, and the invariant
leaves it aside by its missing destination.)  A bundle that retention or a deletion is about to remove is the newest of
nothing (`Spare`), neither when it was listed nor when its file goes; `BundlesUnderway` follows a
bundle from the file to the row.  For occurrences, `OnceOnly` puts them in one order: those with
a row, the one being exported, those that wait, the schedule's last run.  The first form of
`OccurrenceExportedOnce` asked runs to be a period apart and is false, as a late tick may be
followed by one on time; the run had too little time to meet that, and the attempt at a proof
did.  The property speaks of occurrences now, and the run has the time it takes.

**RuntimeLog's TailInv.**  `Newest` says that all containers but the last made are removed,
`OneStream` that a container has one stream and only the registered one publishes.  `TailOrder`
bounds what each stream can still deliver by what the viewer has seen: nothing from a container
before, nothing from an earlier second.  A stream may begin while the last one's end is still to
be noticed, so what is registered is said by the position of the job and of the scan
(`TailProgress`).

**BuildLog's LogInv.**  What is stored is the last executed of a chain of writes, each a
snapshot of the attempt at a moment not before that of the one ahead of it (`Chain`,
`Snapshots`).  While the sink is open its head, tail and count of what was dropped are a function
of the lines so far (`SinkOk`), and the last write issued is what was in it at its last flush
(`Written`); so `end()`, which flushes once more, leaves the whole log.  It needs writes executed
in the order issued, as the property does.

**SerialInv.**  That somebody is an owner is not inductive: the write at the end of a
request takes an ownership on the strength of a count made before.  `OneRoleRequest`
says that no other request of that kind is in hand, `Entitled` that its author is
somebody else than the person it is about and still has the rank it was admitted with,
an owner where an owner is at stake.  So the write that takes an ownership leaves its
author's.  Redeeming an invitation touches neither, because it only ever gives a role to
an address without account (`EntitledFrame`).  The count of owners itself is not needed:
the rank check and the refusal to act on oneself suffice when requests come one by one,
and when they overlap it does not help (section 6).

## 5. Only model-checked

* Liveness (`QueuedReleaseFinishes`, `QueuedDeploymentEnds`, `LinesGetStored`, `DueIsRecorded`):
  fairness and ENABLED are beyond the provers.
* The facts of section 3 that are not in section 4.  Nothing known stands against proving those
  among them that are not liveness.
* The implementation of the ledger under worker crashes and database errors is neither proved
  nor checked: it is false, and `failure_leaves_current_live` shows how.

## 6. Where the code does something else than it says

* `failure_leaves_current_live`: "A failed candidate leaves the last successful
  release live" (`project-deploy.ts:807`); after a crash between the retirement of
  the old release and the commit, the re-run fails and records just that, while the
  containers of `currentReleaseId` are gone.  The new ones run, so service is not
  interrupted (`AlwaysServed`), but project, release and containers disagree.
* `detach_after_promotion`: datastores are detached "only after a new release has
  replaced every container" (`project-docker-ops.ts:34`); the call is the first of
  the job.
* `app_false_crash`: the exit of a container that a redeploy stopped is handled after
  the redeploy finished and marks the application crashed.
* `rotation_reaches_bound_apps`: "Password rotation updates every bound app's
  injected URL" (`README.md:312`); a binding that is being made while the rotation
  runs keeps the old password.
* `owners_overlap`: "The organization can never be left without an owner"
  (`CHANGELOG.md:228`, and the comment at `members.ts:153`); owners are counted and
  changed in separate statements, so two owners who demote or remove each other at the
  same time both count two.

More that TLC refutes, each stated as a definition of its module and shown by a small
configuration that is not among the runs of section 3:

* `DependenciesAcyclic` (`tlc -config MCProjectsCycle.cfg Projects`): "Service dependencies
  must not contain a cycle" (`routes/projects.ts:215`), but two edits that overlap, those of
  one save of the editor included, are each checked against what was stored before the
  other.  The worker then refuses every release ("Service dependency cycle detected"),
  which is what `OnlyOrderedServicesStart` checks, until somebody edits the services again.
* `TakenHostsNeverFail` (`tlc -config MCRestoreRename.cfg Restore`): hostnames "some *other*
  app already answers on" are "dropped and counted rather than failing the restore"
  (`routes/backups.ts:738`), except those of the application whose slug is taken.  Under
  "rename" both have them, the unique index refuses the row and the whole restore fails.
* `HostnamesUnique` (`tlc -config MCRestoreHostnames.cfg Restore`): "Hostnames are unique
  across the whole instance" (`routes/backups.ts:737`), but for applications a restore asks
  the table of applications' domains only, so it stores a hostname a service has.
* `PrimaryServes` (`tlc -config MCDomainsPrimary.cfg Domains`): `redirectTo` is "mutually
  exclusive with `isPrimary`" (`schema.prisma:338`), but deleting the primary domain makes
  the oldest one left primary even when it redirects (`domains.ts:431`).
* `ReconnectWithoutGap` (`tlc -config MCServiceLogReconnect.cfg ServiceLog`): "reconnect
  cursors and no gaps or duplicates at the persisted/live handoff" (`UPCOMING_PLANS.md:149`,
  marked as done), but a page that reconnects asks for rows after the largest id it has seen.
  A row with a smaller id that was committed later, or that the limit of the replay cut off,
  is not shown until older logs are loaded (`projects.ts:1616`).

And what no document speaks of:

* A container whose restart policy starts it again is not followed again before the worker
  is restarted (`ServiceLog.StreamEnds`, `RuntimeLog.ProcessExits`: `runtime-logs.ts:106`), or
  the application deployed.
* The workers take jobs before `startForRunning` is through (`index.ts:608`).  A deployment that
  overtakes it can leave two streams of an application, or one of a container that is gone,
  although "each app gets at most one follow-mode `docker logs` stream"
  (`runtime-logs.ts:5`); `FollowedOnce` and `LiveInOrder` are about behaviours without that.
* Lines published after the replay of a container's last lines and before the subscription
  (`applications.ts:714`) reach the viewer in neither.
* A job reads its rows before its `try` (`project-deploy.ts:304`, `TakeJobFails`): when the
  database refuses one of these reads the release or deployment stays pending without a job, and a
  pending release makes the API refuse every later one of the project.
* An application whose deletion Docker refused at a volume or a network keeps its row and, until
  it is deployed or deleted again, a status of what ran (`applications.ts:124`, `DeletionRefused`).
* Rows of a quiet container may all be removed because others print.  After a restart of the
  worker its lines are read again from the first that Docker retains and stored a second time,
  newer than all others (`project-deploy.ts:232`; the ghost `again`).
* A service may attach the address Sohwe made for an application, as only the applications' route
  asks for those (`domains.ts:168` beside `projects.ts:659` and `projects.ts:754`); the router then
  has two containers for one hostname.  "Two claims are refused outright" (`CHANGELOG.md:192`) is
  said of an application's Domains tab.
* A project that was deleted leaves the stopped containers Docker did not remove
  (`projects.ts:244`), and a failed or replaced release does the same.
* Two first-run setups at once both count no users and create an organization each
  (`server.ts:127`).  Two members who remove each other at once leave an organization without
  accounts, and the setup opens again, for another organization.

Not a disagreement but a matter of words: the release job "runs to completion once"
(`README.md:217`) and "exactly once" (`CHANGELOG.md:125`).  That holds per run of the
queue's job; one that is run again after a worker crash starts its release job again
(`JobStartsOncePerAttempt`).

## 7. Plan

1. Proofs: `NothingLostOrDoubled` and `ViewerInOrder`.
2. An abstract specification of the log of a service (a growing sequence of lines, and a
   reader with a prefix of it) that `ServiceLog` and `BuildLog` both implement.
3. Previews of applications, and settings that a deployment reads.
4. Hostnames that come with the creation of an application, a service or a project, in `Domains`.

## 8. Not modelled, and why

* Commit statuses, alert receivers, registries, the repository browser: best effort, no
  state of the platform hangs on their order beyond what the models have as a fault.
* Builder, bundler and inspection turn files into files; a build is one step that yields
  an image or throws.  `packages/crypto` is a library's cipher, and values are abstract.
* Container statistics are samples nobody else reads.
* Audit rows are written beside the requests and read by nobody; rate limits, the hashing of
  passwords and the signing of cookies are left out of `Access`.  `Members` takes a session for
  the account it belongs to.
* Files and volumes: file system access inside one container by one request.
* Dashboard: its forms choose the requests the modules start from, within what a form can
  send; the project editor, the variables panel and the log page, which keep state of their
  own between requests, are modelled.  Layout, polling and charts are not.
* CLI and installer show and start what the rest does.
* Storage of bundles (disk, S3, FTP) is a file that is there or not, written whole.
* Parts of the modelled components: previews and settings of applications, renaming and
  limits of datastores, contents of dumps, settings of a service that no check reads; the
  worker's own messages in a service's log, and rows of other projects; hostnames that come with
  the creation of an application, service or project, and an application created under a
  slug whose address somebody has attached; redirect flags, automatic deployments, users and backup
  settings of a bundle; rollbacks beside pushes in `GitHub` (in `ProjectRelease` and
  `AppDeploy` they are), and GitHub's own answers beyond whether it refuses.
