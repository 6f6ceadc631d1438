-------------------------- MODULE MCConfiguration --------------------------
(***************************************************************************)
(* What an organization has stored, and what is read back from it:         *)
(* restores of a bundle, the variables of one application or service, its  *)
(* domains, their DNS records, the stored logs of a project, and the       *)
(* accounts and sessions.  They share no state a property reads; a         *)
(* behaviour follows one of them and leaves the others alone.              *)
(***************************************************************************)
EXTENDS Access, TLC

CONSTANTS
  shop, h1, a1, a2, b1, b2, ann, bob,
  None,
  Names, ServiceNames, Kinds, Port, Own, Url, MaxEdits, MaxRestores,  \* of Restore, with h1
  Keys, Values, VarKinds, Editors, MaxVarEdits,                       \* of Variables
  Apps, Fronts, Hosts, MaxDomainEdits,      \* of Domains: Fronts are its services
  Here, Edge, Other, Providers, MaxDnsEdits, MaxDnsRequests,  \* of Dns
  Sources, LinesPerSecond, HistoryLimit, ReplayLimit, MaxPersisted,  \* of ServiceLog
  MaxPrinted, MaxLogFaults

VARIABLES
  part,
  db, foreign, bundle, history,
  kind, vals, panel, request, due, lost, varEdits,
  rows, svc, reqs, plan, routes, ghost,
  net, memo, token, check, apply, row, dnsLog,
  printed, tail, chain, storing, stage, table, serial, channel, stream, page, slog

R == INSTANCE Restore WITH Hosts <- {h1}
V == INSTANCE Variables WITH vars <- vals, Kinds <- VarKinds
D == INSTANCE Domains WITH Services <- Fronts, Admins <- Editors
N == INSTANCE Dns
L == INSTANCE ServiceLog WITH Absent <- None

\* No map of variables is taken for a missing one.
ASSUME NoneAssumption == None \notin [Keys -> [{"env", "build", "shared"} -> Values \cup {None}]]

\* A policy is none of the above.
ASSUME PolicyAssumption == None \notin {"skip", "overwrite", "rename"}

\* An application is no service.
ASSUME OwnersAssumption == Apps \cap Fronts = {}

\* A project has finitely many containers; lines carry the time to the second, as many as
\* print in one; and what is printed, and kept, is bounded.
ASSUME LinesAssumption ==
  /\ IsFiniteSet(Sources)
  /\ LinesPerSecond \in Nat \ {0} /\ MaxPrinted \in Nat /\ MaxPersisted \in Nat

restoreVars == <<db, foreign, bundle, history>>
varVars == <<kind, vals, panel, request, due, lost, varEdits>>
domainVars == <<rows, svc, reqs, plan, routes, ghost>>
dnsVars == <<net, memo, token, check, apply, row, dnsLog>>
logVars == <<printed, tail, chain, storing, stage, table, serial, channel, stream, page, slog>>
allVars == <<part, restoreVars, varVars, domainVars, dnsVars, logVars, accessVars>>

-----------------------------------------------------------------------------
\* The variables of the parts a behaviour does not follow have no value.
NoRestore == db = None /\ foreign = None /\ bundle = None /\ history = None
NoVariables == /\ kind = None /\ vals = None /\ panel = None /\ request = None
               /\ due = None /\ lost = None /\ varEdits = None
NoDomains == /\ rows = None /\ svc = None /\ reqs = None /\ plan = None
             /\ routes = None /\ ghost = None
NoDns == /\ net = None /\ memo = None /\ token = None /\ check = None /\ apply = None
         /\ row = None /\ dnsLog = None
NoLogs == /\ printed = None /\ tail = None /\ chain = None /\ storing = None /\ stage = None
          /\ table = None /\ serial = None /\ channel = None
          /\ stream = None /\ page = None /\ slog = None

\* The accounts begin as on any new instance, with or without the installer password.
ConfigurationInit ==
  /\ part \in {"restore", "variables", "domains", "dns", "logs", "access"}
  /\ IF part = "restore" THEN R!Init ELSE NoRestore
  /\ IF part = "variables" THEN V!Init ELSE NoVariables
  /\ IF part = "domains" THEN D!Init ELSE NoDomains
  /\ IF part = "dns" THEN N!Init ELSE NoDns
  /\ IF part = "logs" THEN L!Init ELSE NoLogs
  /\ Init /\ (part = "access" \/ gate)

ConfigurationNext ==
  \/ /\ part = "restore" /\ R!Next
     /\ UNCHANGED <<part, varVars, domainVars, dnsVars, logVars, accessVars>>
  \/ /\ part = "variables" /\ V!Next
     /\ UNCHANGED <<part, restoreVars, domainVars, dnsVars, logVars, accessVars>>
  \/ /\ part = "domains" /\ D!Next
     /\ UNCHANGED <<part, restoreVars, varVars, dnsVars, logVars, accessVars>>
  \/ /\ part = "dns" /\ N!Next
     /\ UNCHANGED <<part, restoreVars, varVars, domainVars, logVars, accessVars>>
  \/ /\ part = "logs" /\ L!Next
     /\ UNCHANGED <<part, restoreVars, varVars, domainVars, dnsVars, accessVars>>
  \/ /\ part = "access" /\ Next
     /\ UNCHANGED <<part, restoreVars, varVars, domainVars, dnsVars, logVars>>

ConfigurationSpec == ConfigurationInit /\ [][ConfigurationNext]_allVars

\* Nothing tells services, hostnames, keys, containers or addresses apart, nor engines,
\* values and slugs, nor the people who edit or log in.
ConfigurationSymmetry ==
  Permutations({a1, a2}) \cup Permutations({b1, b2}) \cup Permutations({ann, bob})

-----------------------------------------------------------------------------
\* A bundle with secrets that no other request came between, restored on an empty
\* instance, brings back the slugs, hostnames and primary domains, variables, services and
\* their dependencies, engines, ports and bindings - except that a project binding whose
\* services were all deleted comes back for every service.  What no bundle carries, redirect
\* flags and automatic deployments, is not compared and does not come back
\* (routes/backups.ts).
RoundTrip == part = "restore" => R!RoundTrip

\* Restoring with "skip" or "rename" changes no application, project, datastore or
\* binding that was there, whatever the bundle says and whatever was bound since
\* (routes/backups.ts).
RestoreOnlyAdds == part = "restore" => R!RestoreOnlyAdds

\* Every binding of an application that a restore made or renewed has its variable set
\* to where that datastore answers on this instance, as long as the datastore of that
\* slug has the engine the bundle names (routes/backups.ts).
RestoredBindingsAnswer == part = "restore" => R!RestoredBindingsAnswer

\* A key that no request overwrote unseen has, at run time, at build time and in its
\* project, what was asked for it last (variables.ts, env-vars.ts, build-args.ts,
\* projects.ts).
EditsKept == part = "variables" => V!EditsKept

\* An application of which no two requests overlapped has one primary domain if it has
\* any, and each of its redirects lands on a domain of its own that does not redirect
\* (routes/domains.ts).
SerialKeepsRouting == part = "domains" => D!SerialKeepsRouting

\* Once everything that was edited has been deployed, a hostname that no two overlapping
\* requests named is answered by the container of one application at most, and by that of
\* one application or service at most if it is no address Sohwe made itself; and a redirect
\* of an application without overlapping requests leads to a hostname its container serves
\* (domains.ts, projects.ts, container-spec.ts).
DeployedRoutesAgree == part = "domains" => D!DeployedRoutesAgree

\* A record Sohwe wrote into the zone that answers, with nothing changed since, is found by
\* the check of the domain, if its lookups are answered with what is in force (domains.ts,
\* dns/).
AppliedRecordVerifies == part = "dns" => N!AppliedRecordVerifies

\* Unless the database refused one, the lines ever stored of a container are the first it
\* printed; each once and in order, unless one was read again after its row was removed;
\* and what is left of a container's rows are its newest (service-logs.ts,
\* project-deploy.ts).
StoredWithoutGap == part = "logs" => L!StoredWithoutGap

\* A connected page shows every stored row after its cursor, but those beyond the limit of
\* the replay, those that were never published - a crash, a failed removal of old rows, a
\* refused publication - and those on their way (projects.ts).
HandoffWithoutGap == part = "logs" => L!HandoffWithoutGap
=============================================================================
