------------------------------ MODULE Domains ------------------------------
(***************************************************************************)
(* Custom hostnames: the requests that attach them to applications and     *)
(* project services - each reads, checks and writes in steps of its own -  *)
(* and the containers that answer on them from the next deployment on.     *)
(*                                                                         *)
(* Source: apps/api/src/routes/domains.ts, apps/api/src/routes/projects.ts *)
(* (service domains), apps/worker/src/container-spec.ts (hosts).           *)
(***************************************************************************)
EXTENDS Naturals, FiniteSets, SequencesExt

CONSTANTS
  Apps, Services,
  Hosts,           \* hostnames that Sohwe makes for nobody
  Admins,          \* administrators with a request under way
  None,
  MaxDomainEdits   \* bound: requests

VARIABLES
  rows,    \* domain: id, app, host, primary, to
  svc,     \* service_domain: the list of each service, the primary first
  reqs,    \* the request of each administrator
  plan,    \* hosts a deployment has read and not routed yet
  routes,  \* hosts the containers answer on
  ghost    \* bounds, fresh ids, what raced, who was edited since it was deployed

domainVars == <<rows, svc, reqs, plan, routes, ghost>>

Owners == Apps \cup Services
Idle == [op |-> "idle"]
NoPlan == [served |-> {}, redirects |-> {}]

\* The address Sohwe makes for an application or a service under its base domain.  Anybody
\* may ask for it by hand like for any other hostname.
Address(o) == <<o>>
Hostnames == Hosts \cup {Address(o) : o \in Owners}

\* generatedHostOwner knows the applications' addresses only.
BuiltIn == {Address(a) : a \in Apps}

Of(app) == {r \in rows : r.app = app}
RowOf(id) == {r \in rows : r.id = id}
InRows == {r.host : r \in rows}
InServices(S) == UNION {Range(svc[s]) : s \in S}

\* redirectTargetError
TargetOk(app, host, to) ==
  to # host /\ \E r \in Of(app) : r.host = to /\ r.to = None

\* No other row of the application is primary.
Demoted(app) == {IF r.app = app THEN [r EXCEPT !.primary = FALSE] ELSE r : r \in rows}

-----------------------------------------------------------------------------
(***************************************************************************)
(* Requests: each starts with its reads and checks and ends with its       *)
(* transaction.                                                            *)
(***************************************************************************)
Topics(q) == {q.owner} \cup q.hosts

\* A ghost notes what two requests under way had in common.
Start(c, q) ==
  /\ reqs[c] = Idle /\ ghost.edits < MaxDomainEdits
  /\ reqs' = [reqs EXCEPT ![c] = q]
  /\ ghost' = [ghost EXCEPT !.edits = @ + 1,
       !.raced = @ \cup UNION {Topics(q) \cap Topics(reqs[d]) :
                                 d \in {e \in Admins : reqs[e] # Idle}}]
  /\ UNCHANGED <<rows, svc, plan, routes>>

Done(c, owner) ==
  /\ reqs' = [reqs EXCEPT ![c] = Idle]
  /\ ghost' = [ghost EXCEPT !.edited = @ \cup {owner}, !.next = @ + 1]
  /\ UNCHANGED <<plan, routes>>

\* Mutant: the hostnames of project services are not looked up.
StartCreateUnchecked(c, app, host, to, primary) ==
  /\ to # None => ~primary /\ TargetOk(app, host, to)
  /\ host \notin BuiltIn
  /\ Start(c, [op |-> "create", owner |-> app, hosts |-> {host}, host |-> host, to |-> to,
               primary |-> to = None /\ (primary \/ Of(app) = {})])

\* The first domain of an application is its primary one.
StartCreate(c, app, host, to, primary) ==
  /\ to # None => ~primary /\ TargetOk(app, host, to)
  /\ host \notin BuiltIn \cup InServices(Services)
  /\ Start(c, [op |-> "create", owner |-> app, hosts |-> {host}, host |-> host, to |-> to,
               primary |-> to = None /\ (primary \/ Of(app) = {})])

\* The unique index on the hostname refuses a second row.
Create(c) ==
  LET q == reqs[c] IN
  /\ q.op = "create"
  /\ rows' = IF q.host \in InRows THEN rows
             ELSE (IF q.primary THEN Demoted(q.owner) ELSE rows)
                    \cup {[id |-> ghost.next, app |-> q.owner, host |-> q.host,
                           primary |-> q.primary, to |-> q.to]}
  /\ Done(c, q.owner)
  /\ UNCHANGED svc

Change(c, op, r, to) ==
  Start(c, [op |-> op, owner |-> r.app, hosts |-> {r.host}, row |-> r, to |-> to])

StartPrimary(c, r) == r.to = None /\ Change(c, "primary", r, None)

\* The update of a row that is gone throws and the transaction is undone.
SetPrimary(c) ==
  LET q == reqs[c] IN
  /\ q.op = "primary"
  /\ rows' = IF RowOf(q.row.id) = {} THEN rows
             ELSE {IF r.id = q.row.id THEN [r EXCEPT !.primary = TRUE] ELSE r :
                     r \in Demoted(q.owner)}
  /\ Done(c, q.owner)
  /\ UNCHANGED svc

StartRedirect(c, r, to) ==
  /\ to # None => ~r.primary /\ (\A q \in Of(r.app) : q.to # r.host)
                             /\ TargetOk(r.app, r.host, to)
  /\ Change(c, "redirect", r, to)

SetRedirect(c) ==
  LET q == reqs[c] IN
  /\ q.op = "redirect"
  /\ rows' = {IF r.id = q.row.id THEN [r EXCEPT !.to = q.to] ELSE r : r \in rows}
  /\ Done(c, q.owner)
  /\ UNCHANGED svc

StartDelete(c, r) == Change(c, "delete", r, None)

\* Who takes over from a primary domain: the oldest of those left.
Heir(row, left) == {r \in left : row.primary /\ \A q \in left : r.id <= q.id}

\* Mutant: what redirected to the hostname keeps doing so.
DeleteOnly(c) ==
  LET q == reqs[c]
      left == Of(q.owner) \ RowOf(q.row.id)
  IN
  /\ q.op = "delete"
  /\ rows' = {IF r \in Heir(q.row, left) THEN [r EXCEPT !.primary = TRUE] ELSE r :
                r \in rows \ RowOf(q.row.id)}
  /\ Done(c, q.owner)
  /\ UNCHANGED svc

\* What redirected to the hostname serves again, and the oldest domain takes over
\* from a primary one - whether it redirects elsewhere or not.
Delete(c) ==
  LET q == reqs[c]
      left == Of(q.owner) \ RowOf(q.row.id)
      freed(r) == IF r.app = q.owner /\ r.to = q.row.host THEN [r EXCEPT !.to = None] ELSE r
  IN
  /\ q.op = "delete"
  /\ rows' = IF RowOf(q.row.id) = {} THEN rows
             ELSE {IF r \in Heir(q.row, left) THEN [freed(r) EXCEPT !.primary = TRUE]
                   ELSE freed(r) : r \in rows \ RowOf(q.row.id)}
  /\ Done(c, q.owner)
  /\ UNCHANGED svc

\* PUT /api/services/:serviceId/domains, not while the project is released: nobody asks
\* whether a hostname is the address of an application.
StartReplace(c, s, list) ==
  /\ plan[s] = NoPlan
  /\ Range(list) \cap (InRows \cup InServices(Services \ {s})) = {}
  /\ Start(c, [op |-> "replace", owner |-> s, hosts |-> Range(list), list |-> list])

Replace(c) ==
  LET q == reqs[c] IN
  /\ q.op = "replace"
  /\ svc' = IF Range(q.list) \cap InServices(Services \ {q.owner}) # {} THEN svc
            ELSE [svc EXCEPT ![q.owner] = q.list]
  /\ Done(c, q.owner)
  /\ UNCHANGED rows

-----------------------------------------------------------------------------
(***************************************************************************)
(* Deployments: the rows are read when the job starts, the container       *)
(* answers on them when it has been replaced.                              *)
(***************************************************************************)
PlanHosts(o) ==
  IF o \in Services THEN [served |-> {Address(o)} \cup Range(svc[o]), redirects |-> {}]
  ELSE [served |-> {Address(o)} \cup {r.host : r \in {q \in Of(o) : q.to = None}},
        redirects |-> {<<r.host, r.to>> : r \in {q \in Of(o) : q.to # None}}]

ReadHosts(o) ==
  /\ plan[o] = NoPlan /\ (o \in ghost.edited \/ routes[o] = NoPlan)
  /\ plan' = [plan EXCEPT ![o] = PlanHosts(o)]
  /\ ghost' = [ghost EXCEPT !.edited = @ \ {o}]
  /\ UNCHANGED <<rows, svc, reqs, routes>>

RouteHosts(o) ==
  /\ plan[o] # NoPlan
  /\ routes' = [routes EXCEPT ![o] = plan[o]]
  /\ plan' = [plan EXCEPT ![o] = NoPlan]
  /\ UNCHANGED <<rows, svc, reqs, ghost>>

-----------------------------------------------------------------------------
Init ==
  /\ rows = {} /\ svc = [s \in Services |-> <<>>]
  /\ reqs = [c \in Admins |-> Idle]
  /\ plan = [o \in Owners |-> NoPlan] /\ routes = [o \in Owners |-> NoPlan]
  /\ ghost = [edits |-> 0, next |-> 1, raced |-> {}, edited |-> {}]

\* Rows of applications with a hostname each that no other row has, lists without
\* repetition, and containers that answer on hostnames.
TypeOK ==
  /\ rows \subseteq [id : 1..ghost.next, app : Apps, host : Hostnames \ BuiltIn,
                     primary : BOOLEAN, to : Hostnames \cup {None}]
  /\ \A q, r \in rows : q.id = r.id \/ q.host = r.host => q = r
  /\ \A s \in Services : Range(svc[s]) \subseteq Hostnames /\ IsInjective(svc[s])
  /\ DOMAIN reqs = Admins
  /\ \A o \in Owners : \A p \in {plan[o], routes[o]} :
       p.served \subseteq Hostnames /\ p.redirects \subseteq Hostnames \X Hostnames
  /\ ghost.edits \in 0..MaxDomainEdits

\* The lists the page sends: one hostname more, less or first.
Lists(s) ==
  {Append(svc[s], h) : h \in Hostnames \ Range(svc[s])}
    \cup {SelectSeq(svc[s], LAMBDA g : g # h) : h \in Range(svc[s])}
    \cup {<<h>> \o SelectSeq(svc[s], LAMBDA g : g # h) : h \in Range(svc[s])}

Next ==
  \/ \E c \in Admins :
       \/ \E a \in Apps, h \in Hostnames, to \in Hostnames \cup {None}, p \in BOOLEAN :
            StartCreate(c, a, h, to, p)
       \/ \E r \in rows :
            \/ StartPrimary(c, r) \/ StartDelete(c, r)
            \/ \E to \in Hostnames \cup {None} : StartRedirect(c, r, to)
       \/ \E s \in Services : \E list \in Lists(s) : StartReplace(c, s, list)
       \/ Create(c) \/ SetPrimary(c) \/ SetRedirect(c) \/ Delete(c) \/ Replace(c)
  \/ \E o \in Owners : ReadHosts(o) \/ RouteHosts(o)

Spec == Init /\ [][Next]_domainVars

-----------------------------------------------------------------------------
(***************************************************************************)
(* Properties.                                                             *)
(***************************************************************************)
\* An application of which no two requests overlapped has one primary domain if it has
\* any, and each of its redirects lands on a domain of its own that does not redirect.
SerialKeepsRouting ==
  \A app \in Apps \ ghost.raced :
    /\ Of(app) # {} => Cardinality({r \in Of(app) : r.primary}) = 1
    /\ \A r \in Of(app) : r.to # None => TargetOk(app, r.host, r.to)

\* Whose containers answer on a hostname.
Answering(h) ==
  {o \in Owners : h \in routes[o].served \cup {r[1] : r \in routes[o].redirects}}

\* Once everything that was edited has been deployed, a hostname that no two overlapping
\* requests named is answered by the container of one application at most, and by that of
\* one application or service at most if it is no address Sohwe made itself; and a redirect
\* of an application without overlapping requests leads to a hostname its container serves.
DeployedRoutesAgree ==
  (ghost.edited = {} /\ (\A o \in Owners : plan[o] = NoPlan)) =>
    /\ \A h \in Hostnames \ ghost.raced :
         /\ Cardinality(Answering(h) \cap Apps) <= 1
         /\ (\A o \in Owners : h # Address(o)) => Cardinality(Answering(h)) <= 1
    /\ \A app \in Apps \ ghost.raced :
         \A r \in routes[app].redirects : r[2] \in routes[app].served

\* A primary domain does not redirect: "Mutually exclusive with `isPrimary`; both
\* invariants are enforced in the API" (schema.prisma), DELETE of the primary one included.
PrimaryServes == \A r \in rows : r.primary => r.to = None
=============================================================================
