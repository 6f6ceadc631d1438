------------------------ MODULE ConfigurationProofs ------------------------
(***************************************************************************)
(* Proofs about what an organization configures, for any instances of the  *)
(* constants: edits of variables keep what was asked for, domains route to *)
(* one container each, a DNS record that was written is found, and the     *)
(* stored logs of a project have no gap, neither in the table nor between  *)
(* the replay and the stream.                                              *)
(***************************************************************************)
EXTENDS MCConfiguration, Sequences, FiniteSetTheorems, WellFoundedInduction, TLAPS

\* Of any natural numbers some is the least.
LEMMA LeastNatural ==
  ASSUME NEW S, NEW n \in S, S \subseteq Nat
  PROVE  \E m \in S : \A k \in S : m <= k
<1> DEFINE K == {p \in Nat \X Nat : p[1] < p[2]}
<1>1. K = OpToRel(<, Nat)
  BY DEF OpToRel
<1>2. IsWellFoundedOn(K, Nat)
  BY <1>1, NatLessThanWellFounded
<1>3. \A x, y \in S : y < x => <<y, x>> \in K
  OBVIOUS
<1> HIDE DEF K
<1>4. \E x \in S : \A y \in S : ~(<<y, x>> \in K)
  BY <1>2, WFMin
<1>5. PICK x \in S : \A y \in S : ~(<<y, x>> \in K)  BY <1>4
<1>6. \A y \in S : ~(y < x)  BY <1>3, <1>5
<1>7. \A y \in S : x <= y
  BY <1>6
<1> QED BY <1>7

-----------------------------------------------------------------------------
(***************************************************************************)
(* Domains.                                                                *)
(***************************************************************************)
\* No row has the address of an application for its hostname.
DomainRows == [id : Nat, app : Apps, host : D!Hostnames \ D!BuiltIn,
               primary : BOOLEAN, to : D!Hostnames \cup {None}]

\* The variables of Domains are functions and a record.
DomainShape ==
  /\ svc = [s \in Fronts |-> svc[s]] /\ reqs = [c \in Editors |-> reqs[c]]
  /\ plan = [o \in D!Owners |-> plan[o]] /\ routes = [o \in D!Owners |-> routes[o]]
  /\ ghost = [edits |-> ghost.edits, next |-> ghost.next,
              raced |-> ghost.raced, edited |-> ghost.edited]
  /\ ghost.next \in Nat

\* Rows have an id and a hostname of their own.
RowsKeyed ==
  /\ rows \subseteq DomainRows /\ IsFiniteSet(rows)
  /\ \A r \in rows : r.id < ghost.next
  /\ \A q, r \in rows : q.id = r.id \/ q.host = r.host => q = r

RowOps == {"primary", "redirect", "delete"}

\* A request for a row is about the application of that row, whatever became of it.
FormedRequest(q) ==
  \/ q = D!Idle
  \/ /\ q.op = "create" /\ q.owner \in Apps /\ q.host \in D!Hostnames \ D!BuiltIn
     /\ q.hosts = {q.host}
     /\ q.to \in D!Hostnames \cup {None} /\ q.primary \in BOOLEAN
  \/ /\ q.op \in RowOps
     /\ q.row \in DomainRows /\ q.owner = q.row.app /\ q.to \in D!Hostnames \cup {None}
     /\ q.row.id < ghost.next /\ \A r \in rows : r.id = q.row.id => r.app = q.owner
  \/ q.op = "replace" /\ q.owner \in Fronts /\ q.hosts = D!Range(q.list)

\* What a request checked when it began still holds, if nothing overlapped it.
GuardHolds(q) ==
  q # D!Idle /\ q.owner \notin ghost.raced =>
    /\ q.op = "create" =>
         /\ q.to # None => ~q.primary /\ D!TargetOk(q.owner, q.host, q.to)
         /\ q.to = None /\ D!Of(q.owner) = {} => q.primary
    /\ q.op \in RowOps => q.row \in rows
    /\ q.op = "redirect" /\ q.to # None =>
         /\ \A r \in D!Of(q.owner) : r.to # q.row.host
         /\ D!TargetOk(q.owner, q.row.host, q.to)

HostsFree(q) ==
  /\ q.op = "create" /\ q.host \notin ghost.raced => q.host \notin D!InServices(Fronts)
  /\ q.op = "replace" =>
       \A h \in q.hosts \ ghost.raced :
         h \notin D!InRows /\ h \notin D!InServices(Fronts \ {q.owner})

\* What two requests under way have in common is noted.
OverlapsNoted ==
  \A c, d \in Editors :
    c # d /\ reqs[c] # D!Idle /\ reqs[d] # D!Idle =>
      D!Topics(reqs[c]) \cap D!Topics(reqs[d]) \subseteq ghost.raced

\* A hostname is attached once.
HostsApart ==
  \A h \in D!Hostnames \ ghost.raced :
    /\ \A s, t \in Fronts : h \in D!Range(svc[s]) /\ h \in D!Range(svc[t]) => s = t
    /\ h \in D!InRows => h \notin D!InServices(Fronts)

\* SerialKeepsRouting for one application.
Routing(app) ==
  /\ D!Of(app) # {} => \E r \in D!Of(app) : {p \in D!Of(app) : p.primary} = {r}
  /\ \A r \in D!Of(app) : r.to # None => D!TargetOk(app, r.host, r.to)

\* What was read for a deployment, and then what was deployed, is what is stored.
RoutesFollow ==
  \A o \in D!Owners \ ghost.edited :
    /\ plan[o] \in {D!NoPlan, D!PlanHosts(o)}
    /\ plan[o] = D!NoPlan => routes[o] \in {D!NoPlan, D!PlanHosts(o)}

DomainInv ==
  /\ DomainShape /\ RowsKeyed /\ OverlapsNoted /\ HostsApart /\ RoutesFollow
  /\ \A c \in Editors : FormedRequest(reqs[c]) /\ GuardHolds(reqs[c]) /\ HostsFree(reqs[c])
  /\ \A app \in Apps \ ghost.raced : Routing(app)

DomainPart == part = "domains" => DomainInv

\* The instance counts like FiniteSets: one element is a set with cardinality 1.
LEMMA DomainCardinality ==
  D!Cardinality({}) = 0 /\ \A x : D!Cardinality({x}) = 1
<1>1. \A S : D!Cardinality(S) = Cardinality(S)  BY DEF D!Cardinality, Cardinality
<1> QED  BY <1>1, FS_Singleton, FS_EmptySet

\* The invariant holds in the initial states of Domains.
LEMMA DomainsBegin == D!Init => DomainInv
<1> SUFFICES ASSUME D!Init PROVE DomainInv  OBVIOUS
<1>1. DomainShape  BY DEF D!Init, DomainShape
<1>2. RowsKeyed  BY FS_EmptySet DEF D!Init, RowsKeyed
<1>3. \A c \in Editors : FormedRequest(reqs[c]) /\ GuardHolds(reqs[c]) /\ HostsFree(reqs[c])
  BY DEF D!Init, FormedRequest, GuardHolds, HostsFree, D!Idle
<1>4. OverlapsNoted  BY DEF D!Init, OverlapsNoted
<1>5. HostsApart
  <2>1. \A s \in Fronts : D!Range(svc[s]) = {}  BY DEF D!Init, D!Range
  <2> QED  BY <2>1 DEF HostsApart, D!Init, D!InRows
<1>6. RoutesFollow  BY DEF D!Init, RoutesFollow
<1>7. \A app \in Apps : Routing(app)  BY DEF D!Init, Routing, D!Of
<1> QED  BY <1>1, <1>2, <1>3, <1>4, <1>5, <1>6, <1>7 DEF DomainInv

\* Every request but the one of an editor stays as it was.
LEMMA OthersKept ==
  ASSUME DomainShape, NEW c \in Editors, NEW q, reqs' = [reqs EXCEPT ![c] = q]
  PROVE  /\ reqs' = [d \in Editors |-> reqs'[d]]
         /\ reqs'[c] = q /\ \A d \in Editors \ {c} : reqs'[d] = reqs[d]
BY DEF DomainShape

\* A request that begins with what the invariant asks of it keeps the invariant.
LEMMA StartKeeps ==
  ASSUME DomainInv, NEW c \in Editors, NEW q, q # D!Idle, D!Start(c, q),
         FormedRequest(q), GuardHolds(q), HostsFree(q)
  PROVE  DomainInv'
<1> USE DEF DomainInv
<1>1. /\ reqs[c] = D!Idle /\ reqs' = [reqs EXCEPT ![c] = q]
      /\ UNCHANGED <<rows, svc, plan, routes>>
  BY DEF D!Start
<1>2. ghost' = [ghost EXCEPT !.edits = @ + 1,
                  !.raced = @ \cup UNION {D!Topics(q) \cap D!Topics(reqs[d]) :
                                            d \in {e \in Editors : reqs[e] # D!Idle}}]
  BY DEF D!Start
<1>3. /\ ghost'.next = ghost.next /\ ghost'.edited = ghost.edited
      /\ ghost.raced \subseteq ghost'.raced
      /\ \A d \in Editors : reqs[d] # D!Idle
           => D!Topics(q) \cap D!Topics(reqs[d]) \subseteq ghost'.raced
      /\ ghost' = [edits |-> ghost'.edits, next |-> ghost'.next,
                   raced |-> ghost'.raced, edited |-> ghost'.edited]
  BY <1>2 DEF DomainShape
<1>4. /\ reqs' = [d \in Editors |-> reqs'[d]]
      /\ reqs'[c] = q /\ \A d \in Editors \ {c} : reqs'[d] = reqs[d]
  BY <1>1, OthersKept
<1>5. DomainShape'  BY <1>1, <1>3, <1>4 DEF DomainShape, D!Owners
<1>6. RowsKeyed'  BY <1>1, <1>3 DEF RowsKeyed
<1>7. \A app : (D!Of(app))' = D!Of(app)  BY <1>1 DEF D!Of
<1>8. ASSUME NEW p, FormedRequest(p), GuardHolds(p), HostsFree(p)
      PROVE  FormedRequest(p)' /\ GuardHolds(p)' /\ HostsFree(p)'
  <2>1. FormedRequest(p)'  BY <1>1, <1>3, <1>8 DEF FormedRequest
  <2>2. GuardHolds(p)'  BY <1>1, <1>3, <1>7, <1>8 DEF GuardHolds, D!TargetOk
  <2>3. HostsFree(p)'  BY <1>1, <1>3, <1>8 DEF HostsFree, D!InServices, D!InRows
  <2> QED  BY <2>1, <2>2, <2>3
<1>9. ASSUME NEW d \in Editors
      PROVE  FormedRequest(reqs[d])' /\ GuardHolds(reqs[d])' /\ HostsFree(reqs[d])'
  <2> DEFINE p == reqs'[d]
  <2>1. FormedRequest(p) /\ GuardHolds(p) /\ HostsFree(p)
    BY <1>4
  <2> QED  BY <2>1, <1>8
<1>10. OverlapsNoted'  BY <1>3, <1>4 DEF OverlapsNoted
<1>11. HostsApart'  BY <1>1, <1>3 DEF HostsApart, D!InServices, D!InRows
<1>12. RoutesFollow'
  BY <1>1, <1>3, <1>7 DEF RoutesFollow, D!PlanHosts, D!NoPlan, D!Owners
<1>13. \A app \in Apps \ ghost'.raced : Routing(app)'
  BY <1>1, <1>3, <1>7 DEF Routing, D!TargetOk
<1> QED  BY <1>5, <1>6, <1>9, <1>10, <1>11, <1>12, <1>13

\* The end of a request keeps the invariant if it changed nothing but what it is about and
\* left that in order: the applications, services and hostnames of the requests it did not
\* overlap are as those requests found them.
LEMMA CommitKeeps ==
  ASSUME DomainInv, NEW c \in Editors, NEW q, q = reqs[c], q # D!Idle, D!Done(c, q.owner),
         RowsKeyed', svc' = [s \in Fronts |-> svc'[s]],
         \A app : app # q.owner => (D!Of(app))' = D!Of(app),
         \A s \in Fronts : s # q.owner => svc'[s] = svc[s],
         \A r \in rows' : r.id = ghost.next \/ \E p \in rows : p.id = r.id /\ p.app = r.app,
         \A h : h \in (D!InRows)' => h \in D!InRows \/ h \in q.hosts,
         \A s \in Fronts : \A h \in D!Range(svc'[s]) : h \in D!Range(svc[s]) \/ h \in q.hosts,
         HostsApart', q.owner \in Apps \ ghost.raced => Routing(q.owner)'
  PROVE  DomainInv'
<1> USE DEF DomainInv
<1>1. /\ reqs' = [reqs EXCEPT ![c] = D!Idle] /\ UNCHANGED <<plan, routes>>
      /\ ghost' = [ghost EXCEPT !.edited = @ \cup {q.owner}, !.next = @ + 1]
  BY DEF D!Done
<1>2. /\ ghost'.next = ghost.next + 1 /\ ghost'.raced = ghost.raced
      /\ ghost'.edited = ghost.edited \cup {q.owner}
      /\ ghost' = [edits |-> ghost'.edits, next |-> ghost'.next,
                   raced |-> ghost'.raced, edited |-> ghost'.edited]
      /\ ghost.next \in Nat /\ ghost'.next \in Nat
  <2>1. DomainShape  OBVIOUS
  <2>2. ghost.next \in Nat  BY <2>1 DEF DomainShape
  <2>3. /\ ghost'.next = ghost.next + 1 /\ ghost'.raced = ghost.raced
        /\ ghost'.edited = ghost.edited \cup {q.owner}
    BY <2>1, <1>1 DEF DomainShape
  <2>4. ghost' = [edits |-> ghost'.edits, next |-> ghost'.next,
                  raced |-> ghost'.raced, edited |-> ghost'.edited]
    BY <2>1, <1>1 DEF DomainShape
  <2> QED  BY <2>2, <2>3, <2>4
<1>3. /\ reqs' = [d \in Editors |-> reqs'[d]]
      /\ reqs'[c] = D!Idle /\ \A d \in Editors \ {c} : reqs'[d] = reqs[d]
  BY <1>1, OthersKept
<1>4. DomainShape'  BY <1>1, <1>2, <1>3 DEF DomainShape, D!Owners
<1>5. ASSUME NEW d \in Editors, reqs'[d] # D!Idle
      PROVE  FormedRequest(reqs[d])' /\ GuardHolds(reqs[d])' /\ HostsFree(reqs[d])'
  <2> DEFINE p == reqs[d]
  <2>1. d # c /\ reqs'[d] = p /\ p # D!Idle /\ FormedRequest(p) /\ GuardHolds(p) /\ HostsFree(p)
    BY <1>3, <1>5
  <2>2. \A x \in D!Topics(p) \ ghost.raced : x \notin D!Topics(q)
    BY <2>1 DEF OverlapsNoted
  <2>3. p.owner \notin ghost.raced => p.owner # q.owner
    BY <2>2 DEF D!Topics
  <2>4. \A h \in p.hosts \ ghost.raced : h \notin q.hosts
    BY <2>2 DEF D!Topics
  <2>5. FormedRequest(p)'
    <3>1. CASE p.op \in RowOps
      <4>1. /\ p.row \in DomainRows /\ p.owner = p.row.app /\ p.to \in D!Hostnames \cup {None}
            /\ p.row.id < ghost.next /\ \A r \in rows : r.id = p.row.id => r.app = p.owner
        BY <2>1, <3>1 DEF FormedRequest, RowOps, D!Idle
      <4>2. p.row.id \in Nat  BY <4>1 DEF DomainRows
      <4>3. \A r \in rows' : r.id = p.row.id => r.app = p.owner
        BY <4>1, <4>2, <1>2
      <4>4. p.row.id < ghost'.next  BY <4>1, <4>2, <1>2
      <4> QED  BY <3>1, <4>1, <4>3, <4>4, <2>1, <1>3 DEF FormedRequest
    <3> QED  BY <3>1, <2>1, <1>3 DEF FormedRequest
  <2>6. GuardHolds(p)'
    <3> SUFFICES ASSUME p.owner \notin ghost.raced PROVE GuardHolds(p)'
      BY <1>2, <2>1, <1>3 DEF GuardHolds
    <3>1. (D!Of(p.owner))' = D!Of(p.owner)
      BY <2>1, <2>3, <1>3 DEF D!Of
    <3>2. p.op \in RowOps => p.row \in D!Of(p.owner)
      BY <2>1 DEF GuardHolds, FormedRequest, D!Of, D!Idle, RowOps
    <3>3. p.op \in RowOps => p.row \in rows'
      BY <3>1, <3>2 DEF D!Of
    <3> QED  BY <3>1, <3>3, <2>1, <1>2, <1>3 DEF GuardHolds, D!TargetOk
  <2>7. HostsFree(p)'
    <3>1. p.op = "create" => p.host \in p.hosts
      BY <2>1 DEF FormedRequest, D!Idle, RowOps
    <3>2. ASSUME NEW h \in p.hosts \ ghost.raced, NEW S \in SUBSET Fronts,
                 h \notin D!InServices(S)
          PROVE  h \notin (D!InServices(S))'
      BY <3>2, <2>4 DEF D!InServices
    <3>3. \A h \in p.hosts \ ghost.raced : h \notin D!InRows => h \notin (D!InRows)'
      BY <2>4
    <3> HIDE DEF D!InRows
    <3> QED
      BY <3>1, <3>2, <3>3, <2>1, <1>2, <1>3 DEF HostsFree
  <2> QED  BY <2>1, <2>5, <2>6, <2>7
<1>6. ASSUME NEW d \in Editors, reqs'[d] = D!Idle
      PROVE  FormedRequest(reqs[d])' /\ GuardHolds(reqs[d])' /\ HostsFree(reqs[d])'
  BY <1>6 DEF FormedRequest, GuardHolds, HostsFree, D!Idle
<1>7. OverlapsNoted'  BY <1>2, <1>3 DEF OverlapsNoted
<1>8. RoutesFollow'
  <2> SUFFICES ASSUME NEW o \in D!Owners \ ghost'.edited
               PROVE /\ plan[o] \in {D!NoPlan, (D!PlanHosts(o))'}
                     /\ plan[o] = D!NoPlan => routes[o] \in {D!NoPlan, (D!PlanHosts(o))'}
    BY <1>1 DEF RoutesFollow, D!Owners, D!NoPlan
  <2>1. o # q.owner /\ o \notin ghost.edited  BY <1>2
  <2>2. (D!PlanHosts(o))' = D!PlanHosts(o)
    BY <2>1 DEF D!PlanHosts
  <2> QED  BY <2>1, <2>2 DEF RoutesFollow
<1>9. \A app \in Apps \ ghost'.raced : Routing(app)'
  <2> SUFFICES ASSUME NEW app \in Apps \ ghost.raced, app # q.owner PROVE Routing(app)'
    BY <1>2
  <2> QED  BY <1>2 DEF Routing, D!TargetOk
<1> QED  BY <1>4, <1>5, <1>6, <1>7, <1>8, <1>9

\* T are the rows K, marked by f otherwise.
Remarked(K, f, T) ==
  /\ K \subseteq rows /\ f \in [K -> DomainRows]
  /\ \A r \in K : f[r] \in T /\ f[r].id = r.id /\ f[r].host = r.host /\ f[r].app = r.app
  /\ \A t \in T : \E r \in K : t = f[r]

\* Rows that are marked otherwise, some of them left out, are as many rows with the ids,
\* hostnames and applications they had.
LEMMA RowsRemarked ==
  ASSUME RowsKeyed, NEW K, NEW f, NEW T, Remarked(K, f, T)
  PROVE  /\ T \subseteq DomainRows /\ IsFiniteSet(T)
         /\ \A t \in T : t.id < ghost.next
         /\ \A q, r \in T : q.id = r.id \/ q.host = r.host => q = r
         /\ \A t \in T : \E p \in rows : p.id = t.id /\ p.app = t.app /\ p.host = t.host
<1> USE DEF Remarked
<1>1. f \in Surjection(K, T)  BY DEF Surjection
<1>2. IsFiniteSet(K)  BY FS_Subset DEF RowsKeyed
<1>3. IsFiniteSet(T)  BY <1>1, <1>2, FS_Surjection
<1> QED  BY <1>3 DEF RowsKeyed

\* A request that marks the rows of its own application otherwise, or deletes some of them,
\* keeps the invariant if it leaves that application in order.
LEMMA RemarkKeeps ==
  ASSUME DomainInv, NEW c \in Editors, NEW q, q = reqs[c], q # D!Idle, D!Done(c, q.owner),
         UNCHANGED svc,
         NEW K, K \subseteq rows, NEW f, f \in [K -> DomainRows],
         \A r \in K : f[r].id = r.id /\ f[r].host = r.host /\ f[r].app = r.app,
         \A r \in K : r.app # q.owner => f[r] = r,
         \A r \in rows \ K : r.app = q.owner,
         rows' = {f[r] : r \in K},
         q.owner \in Apps \ ghost.raced => Routing(q.owner)'
  PROVE  DomainInv'
<1>1. RowsKeyed /\ DomainShape /\ HostsApart  BY DEF DomainInv
<1>2. ghost'.next = ghost.next + 1 /\ ghost'.raced = ghost.raced /\ ghost.next \in Nat
  BY <1>1 DEF DomainShape, D!Done
<1>3. /\ rows' \subseteq DomainRows /\ IsFiniteSet(rows')
      /\ \A t \in rows' : t.id < ghost.next
      /\ \A p, r \in rows' : p.id = r.id \/ p.host = r.host => p = r
      /\ \A t \in rows' : \E p \in rows : p.id = t.id /\ p.app = t.app /\ p.host = t.host
  <2>1. PICK T : T = rows'  OBVIOUS
  <2>2. Remarked(K, f, T)  BY <2>1 DEF Remarked
  <2> QED  BY <1>1, <2>1, <2>2, RowsRemarked
<1>4. \A t \in rows' : t.id \in Nat  BY <1>3 DEF DomainRows
<1>5. RowsKeyed'  BY <1>2, <1>3, <1>4 DEF RowsKeyed
<1>6. \A app : app # q.owner => (D!Of(app))' = D!Of(app)  BY DEF D!Of
<1>7. \A h : h \in (D!InRows)' => h \in D!InRows  BY <1>3 DEF D!InRows
<1>8. HostsApart'  BY <1>1, <1>2, <1>7 DEF HostsApart, D!InServices
<1>9. svc' = [s \in Fronts |-> svc'[s]]  BY <1>1 DEF DomainShape
<1> QED  BY <1>3, <1>5, <1>6, <1>7, <1>8, <1>9, CommitKeeps

\* Making a domain primary takes the mark from the others of its application.
LEMMA SetPrimaryKeeps == ASSUME DomainInv, NEW c \in Editors, D!SetPrimary(c) PROVE DomainInv'
<1>1. PICK q : q = reqs[c]  OBVIOUS
<1>2. /\ q # D!Idle /\ q.op = "primary" /\ D!Done(c, q.owner) /\ UNCHANGED svc
      /\ FormedRequest(q) /\ GuardHolds(q) /\ RowsKeyed
  BY <1>1 DEF D!SetPrimary, D!Idle, DomainInv
<1>3. \A r \in rows : r.id = q.row.id => r.app = q.owner
  BY <1>2 DEF FormedRequest, RowOps, D!Idle
<1>4. CASE D!RowOf(q.row.id) = {}
  <2> DEFINE f == [r \in rows |-> r]
  <2>1. rows' = rows  BY <1>1, <1>4 DEF D!SetPrimary
  <2>2. q.owner \notin ghost.raced => FALSE
    BY <1>2, <1>4 DEF GuardHolds, RowOps, D!RowOf
  <2>3. /\ f \in [rows -> DomainRows] /\ rows' = {f[r] : r \in rows}
        /\ \A r \in rows : f[r] = r
    BY <1>2, <2>1 DEF RowsKeyed
  <2> HIDE DEF f
  <2> QED  BY <1>1, <1>2, <2>2, <2>3, RemarkKeeps
<1>5. CASE D!RowOf(q.row.id) # {}
  <2> DEFINE f == [r \in rows |-> IF r.id = q.row.id THEN [r EXCEPT !.primary = TRUE]
                                  ELSE IF r.app = q.owner THEN [r EXCEPT !.primary = FALSE]
                                  ELSE r]
  <2>1. rows' = {IF r.id = q.row.id THEN [r EXCEPT !.primary = TRUE] ELSE r :
                   r \in D!Demoted(q.owner)}
    BY <1>1, <1>5 DEF D!SetPrimary
  <2>2. \A r \in rows : r = [id |-> r.id, app |-> r.app, host |-> r.host,
                             primary |-> r.primary, to |-> r.to] /\ r \in DomainRows
    BY <1>2 DEF RowsKeyed, DomainRows
  <2>3. f \in [rows -> DomainRows]
    <3>1. SUFFICES ASSUME NEW r \in rows PROVE f[r] \in DomainRows  OBVIOUS
    <3>2. \A b \in BOOLEAN : [r EXCEPT !.primary = b] \in DomainRows
      BY <2>2 DEF DomainRows
    <3>3. f[r] \in {r, [r EXCEPT !.primary = TRUE], [r EXCEPT !.primary = FALSE]}  OBVIOUS
    <3> QED  BY <2>2, <3>2, <3>3
  <2>4. rows' = {f[r] : r \in rows}
    <3> DEFINE d(p) == IF p.app = q.owner THEN [p EXCEPT !.primary = FALSE] ELSE p
               g(r) == IF r.id = q.row.id THEN [r EXCEPT !.primary = TRUE] ELSE r
    <3>1. D!Demoted(q.owner) = {d(p) : p \in rows}  BY DEF D!Demoted
    <3>2. \A x : x \in rows' <=> \E r \in D!Demoted(q.owner) : x = g(r)  BY <2>1
    <3>3. \A r : r \in D!Demoted(q.owner) <=> \E p \in rows : r = d(p)  BY <3>1
    <3>4. ASSUME NEW p \in rows PROVE g(d(p)) = f[p]
      <4>1. CASE p.id = q.row.id
        <5>1. d(p) = [p EXCEPT !.primary = FALSE]  BY <1>3, <4>1
        <5>2. d(p).id = q.row.id  BY <2>2, <4>1, <5>1
        <5>3. g(d(p)) = [d(p) EXCEPT !.primary = TRUE]  BY <5>2
        <5>4. f[p] = [p EXCEPT !.primary = TRUE]  BY <4>1
        <5>5. \A x : x = [p EXCEPT !.primary = FALSE] =>
                       [x EXCEPT !.primary = TRUE] = [p EXCEPT !.primary = TRUE]
          OBVIOUS
        <5> HIDE DEF d, g, f
        <5> QED  BY <5>1, <5>3, <5>4, <5>5
      <4>2. CASE p.id # q.row.id
        <5>1. d(p).id = p.id  BY <2>2
        <5> QED  BY <4>2, <5>1
      <4> QED  BY <4>1, <4>2
    <3> HIDE DEF d, g, f
    <3>5. \A x : x \in rows' <=> \E p \in rows : x = f[p]  BY <3>2, <3>3, <3>4
    <3> QED  BY <3>5
  <2>5. \A r \in rows : /\ f[r].id = r.id /\ f[r].host = r.host /\ f[r].app = r.app
                        /\ f[r].to = r.to
                        /\ r.app # q.owner => f[r] = r
                        /\ r.app = q.owner => (f[r].primary <=> r.id = q.row.id)
    BY <1>3, <2>2
  <2> HIDE DEF f
  <2>6. ASSUME q.owner \in Apps \ ghost.raced PROVE Routing(q.owner)'
    <3>1. PICK x \in rows : x.id = q.row.id  BY <1>5 DEF D!RowOf
    <3>2. (D!Of(q.owner))' = {f[r] : r \in D!Of(q.owner)}  BY <2>4, <2>5 DEF D!Of
    <3>3. x \in D!Of(q.owner) /\ \A r \in rows : r.id = q.row.id => r = x
      BY <1>2, <1>3, <3>1 DEF D!Of, RowsKeyed
    <3>4. {p \in (D!Of(q.owner))' : p.primary} = {f[x]}
      <4>1. f[x] \in (D!Of(q.owner))' /\ f[x].primary
        BY <2>5, <3>1, <3>2, <3>3 DEF D!Of
      <4>2. ASSUME NEW p \in (D!Of(q.owner))', p.primary PROVE p = f[x]
        <5>1. PICK r \in D!Of(q.owner) : p = f[r]  BY <3>2
        <5>2. r \in rows /\ r.app = q.owner  BY DEF D!Of
        <5>3. r.id = q.row.id  BY <2>5, <4>2, <5>1, <5>2
        <5> QED  BY <3>3, <5>1, <5>2, <5>3
      <4> QED  BY <4>1, <4>2
    <3>5. Routing(q.owner)  BY <2>6 DEF DomainInv
    <3>6. \A r \in (D!Of(q.owner))' : r.to # None => (D!TargetOk(q.owner, r.host, r.to))'
      BY <2>5, <3>2, <3>5 DEF Routing, D!TargetOk, D!Of
    <3> QED  BY <3>2, <3>3, <3>4, <3>6 DEF Routing
  <2> QED  BY <1>1, <1>2, <2>3, <2>4, <2>5, <2>6, RemarkKeeps
<1> QED  BY <1>4, <1>5

\* A redirect leads to a domain of the same application that does not redirect.
LEMMA SetRedirectKeeps == ASSUME DomainInv, NEW c \in Editors, D!SetRedirect(c) PROVE DomainInv'
<1>1. PICK q : q = reqs[c]  OBVIOUS
<1>2. /\ q # D!Idle /\ q.op = "redirect" /\ D!Done(c, q.owner) /\ UNCHANGED svc
      /\ FormedRequest(q) /\ GuardHolds(q) /\ RowsKeyed
  BY <1>1 DEF D!SetRedirect, D!Idle, DomainInv
<1>3. /\ \A r \in rows : r.id = q.row.id => r.app = q.owner
      /\ q.to \in D!Hostnames \cup {None} /\ q.owner = q.row.app
  BY <1>2 DEF FormedRequest, RowOps, D!Idle
<1> DEFINE f == [r \in rows |-> IF r.id = q.row.id THEN [r EXCEPT !.to = q.to] ELSE r]
<1>4. rows' = {f[r] : r \in rows}  BY <1>1 DEF D!SetRedirect
<1>5. f \in [rows -> DomainRows]  BY <1>2, <1>3 DEF RowsKeyed, DomainRows
<1>6. \A r \in rows : /\ f[r].id = r.id /\ f[r].host = r.host /\ f[r].app = r.app
                      /\ f[r].primary = r.primary
                      /\ f[r].to = IF r.id = q.row.id THEN q.to ELSE r.to
                      /\ r.app # q.owner => f[r] = r
  BY <1>2, <1>3 DEF RowsKeyed, DomainRows
<1> HIDE DEF f
<1>7. ASSUME q.owner \in Apps \ ghost.raced PROVE Routing(q.owner)'
  <2>1. Routing(q.owner)  BY <1>7 DEF DomainInv
  <2>2. (D!Of(q.owner))' = {f[r] : r \in D!Of(q.owner)}  BY <1>4, <1>6 DEF D!Of
  <2>3. /\ q.row \in D!Of(q.owner) /\ \A r \in rows : r.id = q.row.id => r = q.row
        /\ D!Of(q.owner) \subseteq rows
    BY <1>2, <1>3, <1>7 DEF GuardHolds, RowOps, RowsKeyed, D!Of
  <2>4. PICK x \in D!Of(q.owner) : {p \in D!Of(q.owner) : p.primary} = {x}
    BY <2>1, <2>3 DEF Routing
  <2>5. {p \in (D!Of(q.owner))' : p.primary} = {f[x]}
    <3>1. f[x] \in (D!Of(q.owner))' /\ f[x].primary  BY <1>6, <2>2, <2>3, <2>4
    <3>2. ASSUME NEW p \in (D!Of(q.owner))', p.primary PROVE p = f[x]
      <4>1. PICK r \in D!Of(q.owner) : p = f[r]  BY <2>2
      <4>2. r.primary  BY <1>6, <2>3, <3>2, <4>1
      <4> QED  BY <2>4, <4>1, <4>2
    <3> QED  BY <3>1, <3>2
  <2>6. ASSUME NEW r \in D!Of(q.owner), NEW y, y = f[r], y.to # None
        PROVE  (D!TargetOk(q.owner, y.host, y.to))'
    <3>1. D!TargetOk(q.owner, r.host, f[r].to)
      BY <1>2, <1>6, <1>7, <2>1, <2>3, <2>6 DEF GuardHolds, Routing
    <3>2. PICK t \in D!Of(q.owner) : t.host = f[r].to /\ t.to = None
      BY <3>1 DEF D!TargetOk
    <3>3. f[t].to = None
      <4>1. CASE r.id = q.row.id
        BY <1>2, <1>6, <1>7, <2>3, <2>6, <3>1, <3>2, <4>1 DEF D!TargetOk
      <4>2. CASE r.id # q.row.id
        BY <1>2, <1>6, <1>7, <2>3, <2>6, <3>2, <4>2 DEF GuardHolds
      <4> QED  BY <4>1, <4>2
    <3>4. f[t] \in (D!Of(q.owner))' /\ f[t].host = y.to /\ y.to # y.host
      BY <1>6, <2>2, <2>3, <2>6, <3>1, <3>2 DEF D!TargetOk
    <3> QED  BY <3>3, <3>4 DEF D!TargetOk
  <2>7. \A r \in (D!Of(q.owner))' : r.to # None => (D!TargetOk(q.owner, r.host, r.to))'
    BY <2>2, <2>6
  <2>8. f[x] \in (D!Of(q.owner))'  BY <2>2
  <2> QED  BY <2>5, <2>7, <2>8 DEF Routing
<1> QED  BY <1>1, <1>2, <1>4, <1>5, <1>6, <1>7, RemarkKeeps

\* Of any rows some is the oldest.
LEMMA OldestRow ==
  ASSUME RowsKeyed, NEW S, S \subseteq rows, S # {}
  PROVE  \E x \in S : \A p \in S : x.id <= p.id
<1> DEFINE I == {r.id : r \in S}
<1>1. I \subseteq Nat /\ I # {}  BY DEF RowsKeyed, DomainRows
<1> HIDE DEF I
<1>2. PICK n \in I : \A k \in I : n <= k  BY <1>1, LeastNatural
<1> QED  BY <1>2 DEF I

\* Deleting a domain ends the redirects to it, and the oldest one left becomes primary.
LEMMA DeleteKeeps == ASSUME DomainInv, NEW c \in Editors, D!Delete(c) PROVE DomainInv'
<1>1. PICK q : q = reqs[c]  OBVIOUS
<1>2. /\ q # D!Idle /\ q.op = "delete" /\ D!Done(c, q.owner) /\ UNCHANGED svc
      /\ FormedRequest(q) /\ GuardHolds(q) /\ RowsKeyed
  BY <1>1 DEF D!Delete, D!Idle, DomainInv
<1>3. /\ \A r \in rows : r.id = q.row.id => r.app = q.owner
      /\ q.row \in DomainRows /\ q.owner = q.row.app
  BY <1>2 DEF FormedRequest, RowOps, D!Idle
<1>4. CASE D!RowOf(q.row.id) = {}
  <2> DEFINE f == [r \in rows |-> r]
  <2>1. rows' = rows  BY <1>1, <1>4 DEF D!Delete
  <2>2. q.owner \notin ghost.raced => FALSE
    BY <1>2, <1>4 DEF GuardHolds, RowOps, D!RowOf
  <2>3. /\ f \in [rows -> DomainRows] /\ rows' = {f[r] : r \in rows}
        /\ \A r \in rows : f[r] = r
    BY <1>2, <2>1 DEF RowsKeyed
  <2> HIDE DEF f
  <2> QED  BY <1>1, <1>2, <2>2, <2>3, RemarkKeeps
<1>5. CASE D!RowOf(q.row.id) # {}
  <2> DEFINE left == D!Of(q.owner) \ D!RowOf(q.row.id)
             heir == D!Heir(q.row, left)
             freed(r) == IF r.app = q.owner /\ r.to = q.row.host THEN [r EXCEPT !.to = None]
                         ELSE r
             K == rows \ D!RowOf(q.row.id)
             f == [r \in K |-> IF r \in heir THEN [freed(r) EXCEPT !.primary = TRUE]
                               ELSE freed(r)]
  <2>1. rows' = {f[r] : r \in K}
    <3>1. rows' = {IF r \in heir THEN [freed(r) EXCEPT !.primary = TRUE] ELSE freed(r) : r \in K}
      BY <1>1, <1>5 DEF D!Delete
    <3> HIDE DEF heir, freed, K
    <3> QED  BY <3>1
  <2>2. K \subseteq rows /\ (\A r \in rows \ K : r.app = q.owner) /\ K \subseteq DomainRows
    BY <1>2, <1>3 DEF RowsKeyed, D!RowOf
  <2>3. heir \subseteq left /\ left \subseteq K /\ left = {r \in K : r.app = q.owner}
    BY DEF D!Heir, D!Of
  <2>4. ASSUME NEW r \in K
        PROVE  /\ freed(r) \in DomainRows /\ freed(r).id = r.id /\ freed(r).host = r.host
               /\ freed(r).app = r.app /\ freed(r).primary = r.primary
               /\ freed(r).to = IF r.app = q.owner /\ r.to = q.row.host THEN None ELSE r.to
               /\ r.app # q.owner => freed(r) = r
    BY <2>2 DEF DomainRows
  <2> HIDE DEF heir, freed, K, left
  <2>5. f \in [K -> DomainRows]
    <3>1. ASSUME NEW r \in DomainRows PROVE [r EXCEPT !.primary = TRUE] \in DomainRows
      BY DEF DomainRows
    <3> QED  BY <2>4, <3>1
  <2>6. \A r \in K : /\ f[r].id = r.id /\ f[r].host = r.host /\ f[r].app = r.app
                     /\ f[r].to = freed(r).to
                     /\ f[r].primary <=> r \in heir \/ r.primary
                     /\ r.app # q.owner => f[r] = r
    BY <2>3, <2>4 DEF DomainRows
  <2> HIDE DEF f
  <2>7. ASSUME q.owner \in Apps \ ghost.raced PROVE Routing(q.owner)'
    <3>1. Routing(q.owner)  BY <2>7 DEF DomainInv
    <3>2. (D!Of(q.owner))' = {f[r] : r \in left}  BY <2>1, <2>3, <2>6 DEF D!Of
    <3>3. /\ q.row \in D!Of(q.owner) /\ D!RowOf(q.row.id) = {q.row}
          /\ D!Of(q.owner) \subseteq rows /\ left = D!Of(q.owner) \ {q.row}
      BY <1>2, <1>3, <2>7 DEF GuardHolds, RowOps, RowsKeyed, D!Of, D!RowOf, left
    <3>4. PICK x \in D!Of(q.owner) : {p \in D!Of(q.owner) : p.primary} = {x}
      BY <3>1, <3>3 DEF Routing
    <3>5. ASSUME left # {}
          PROVE  \E y \in left : \A r \in left : (r \in heir \/ r.primary) <=> r = y
      <4>1. CASE q.row.primary
        <5>1. \A r \in left : ~r.primary  BY <3>3, <3>4, <4>1
        <5>2. PICK y \in left : \A p \in left : y.id <= p.id
          BY <1>2, <2>2, <2>3, <3>5, OldestRow
        <5>3. \A p \in left : p.id \in Nat  BY <2>2, <2>3 DEF DomainRows
        <5>4. \A p \in left : p.id = y.id => p = y
          BY <1>2, <2>2, <2>3 DEF RowsKeyed
        <5>5. \A r \in left : r \in heir <=> r = y
          BY <4>1, <5>2, <5>3, <5>4 DEF heir, D!Heir
        <5> QED  BY <5>1, <5>5
      <4>2. CASE ~q.row.primary
        BY <3>3, <3>4, <4>2 DEF heir, D!Heir
      <4> QED  BY <4>1, <4>2
    <3>6. ASSUME left # {}
          PROVE  \E y \in (D!Of(q.owner))' : {p \in (D!Of(q.owner))' : p.primary} = {y}
      <4>1. PICK y \in left : \A r \in left : (r \in heir \/ r.primary) <=> r = y
        BY <3>5, <3>6
      <4>2. f[y] \in (D!Of(q.owner))' /\ f[y].primary  BY <2>3, <2>6, <3>2, <4>1
      <4>3. ASSUME NEW p \in (D!Of(q.owner))', p.primary PROVE p = f[y]
        <5>1. PICK r \in left : p = f[r]  BY <3>2
        <5> QED  BY <2>3, <2>6, <4>1, <4>3, <5>1
      <4> QED  BY <4>2, <4>3
    <3>7. ASSUME NEW r \in left, NEW y, y = f[r], y.to # None
          PROVE  (D!TargetOk(q.owner, y.host, y.to))'
      <4>1. /\ r \in K /\ r.app = q.owner /\ y.host = r.host
            /\ y.to = r.to /\ r.to # None /\ r.to # q.row.host
        BY <2>3, <2>4, <2>6, <3>7
      <4>2. D!TargetOk(q.owner, r.host, r.to)  BY <3>1, <3>3, <3>7, <4>1 DEF Routing
      <4>3. PICK t \in D!Of(q.owner) : t.host = r.to /\ t.to = None
        BY <4>2 DEF D!TargetOk
      <4>4. t \in left  BY <3>3, <4>1, <4>3
      <4>5. f[t] \in (D!Of(q.owner))' /\ f[t].host = y.to /\ f[t].to = None
            /\ y.to # y.host
        BY <2>3, <2>4, <2>6, <3>2, <4>1, <4>2, <4>3, <4>4 DEF D!TargetOk
      <4> QED  BY <4>5 DEF D!TargetOk
    <3>8. \A r \in (D!Of(q.owner))' : r.to # None => (D!TargetOk(q.owner, r.host, r.to))'
      BY <3>2, <3>7
    <3>9. (D!Of(q.owner))' # {} => left # {}  BY <3>2
    <3> QED  BY <3>6, <3>8, <3>9 DEF Routing
  <2> QED  BY <1>1, <1>2, <2>1, <2>2, <2>5, <2>6, <2>7, RemarkKeeps
<1> QED  BY <1>4, <1>5

\* A domain is added to an application under a hostname nobody has.
LEMMA CreateKeeps == ASSUME DomainInv, NEW c \in Editors, D!Create(c) PROVE DomainInv'
<1>1. PICK q : q = reqs[c]  OBVIOUS
<1>2. /\ q # D!Idle /\ q.op = "create" /\ D!Done(c, q.owner) /\ UNCHANGED svc
      /\ FormedRequest(q) /\ GuardHolds(q) /\ HostsFree(q) /\ RowsKeyed /\ DomainShape
  BY <1>1 DEF D!Create, D!Idle, DomainInv
<1>3. /\ q.owner \in Apps /\ q.host \in D!Hostnames \ D!BuiltIn
      /\ q.hosts = {q.host}
      /\ q.to \in D!Hostnames \cup {None} /\ q.primary \in BOOLEAN
  BY <1>2 DEF FormedRequest, RowOps, D!Idle
<1>4. ghost'.next = ghost.next + 1 /\ ghost'.raced = ghost.raced /\ ghost.next \in Nat
  BY <1>2 DEF DomainShape, D!Done
<1>5. CASE q.host \in D!InRows
  <2>1. rows' = rows  BY <1>1, <1>5 DEF D!Create
  <2>2. RowsKeyed'  BY <1>2, <1>4, <2>1 DEF RowsKeyed, DomainRows
  <2>3. \A app : (D!Of(app))' = D!Of(app)  BY <2>1 DEF D!Of
  <2>4. HostsApart'  BY <1>2, <1>4, <2>1 DEF DomainInv, HostsApart, D!InRows, D!InServices
  <2>5. q.owner \in Apps \ ghost.raced => Routing(q.owner)'
    BY <2>3 DEF DomainInv, Routing, D!TargetOk
  <2>6. svc' = [s \in Fronts |-> svc'[s]]  BY <1>2 DEF DomainShape
  <2>7. \A h : h \in (D!InRows)' => h \in D!InRows  BY <2>1 DEF D!InRows
  <2> QED  BY <1>1, <1>2, <2>1, <2>2, <2>3, <2>4, <2>5, <2>6, <2>7, CommitKeeps
<1>6. CASE q.host \notin D!InRows
  <2> DEFINE new == [id |-> ghost.next, app |-> q.owner, host |-> q.host,
                     primary |-> q.primary, to |-> q.to]
             f == [r \in rows |-> IF q.primary /\ r.app = q.owner
                                    THEN [r EXCEPT !.primary = FALSE] ELSE r]
  <2>1. rows' = (IF q.primary THEN D!Demoted(q.owner) ELSE rows) \cup {new}
    BY <1>1, <1>6 DEF D!Create
  <2>2. PICK n : n = new  OBVIOUS
  <2>3. n \in DomainRows /\ n.id = ghost.next /\ n.app = q.owner /\ n.host = q.host
        /\ n.primary = q.primary /\ n.to = q.to
    BY <1>3, <1>4, <2>2 DEF DomainRows
  <2>4. PICK T : T = {f[r] : r \in rows}  OBVIOUS
  <2>5. rows' = T \cup {n}  BY <2>1, <2>2, <2>4 DEF D!Demoted
  <2>6. f \in [rows -> DomainRows]
    <3>1. ASSUME NEW r \in rows PROVE f[r] \in DomainRows
      <4>1. r \in DomainRows  BY <1>2 DEF RowsKeyed
      <4>2. [r EXCEPT !.primary = FALSE] \in DomainRows  BY <4>1 DEF DomainRows
      <4> QED BY <4>1, <4>2
    <3> QED BY <3>1
  <2>7. \A r \in rows : /\ f[r].id = r.id /\ f[r].host = r.host /\ f[r].app = r.app
                        /\ f[r].to = r.to
                        /\ r.app # q.owner => f[r] = r
                        /\ f[r].primary <=> r.primary /\ ~(q.primary /\ r.app = q.owner)
    BY <1>2 DEF RowsKeyed, DomainRows
  <2> HIDE DEF f, new
  <2>8. PICK g : g = f  OBVIOUS
  <2>9. Remarked(rows, g, T)  BY <2>4, <2>6, <2>7, <2>8 DEF Remarked
  <2>10. /\ T \subseteq DomainRows /\ IsFiniteSet(T)
         /\ \A t \in T : t.id < ghost.next
         /\ \A p, r \in T : p.id = r.id \/ p.host = r.host => p = r
         /\ \A t \in T : \E p \in rows : p.id = t.id /\ p.app = t.app /\ p.host = t.host
    BY <1>2, <2>9, RowsRemarked
  <2>11. \A t \in T : t.id \in Nat /\ t.host # q.host
    BY <1>6, <2>10 DEF DomainRows, D!InRows
  <2>12. RowsKeyed'
    <3>1. IsFiniteSet(rows')  BY <2>5, <2>10, FS_AddElement
    <3>2. \A r \in rows' : r.id < ghost'.next
      BY <1>4, <2>3, <2>5, <2>10, <2>11
    <3>3. \A p, r \in rows' : p.id = r.id \/ p.host = r.host => p = r
      BY <1>4, <2>3, <2>5, <2>10, <2>11
    <3> QED  BY <2>3, <2>5, <2>10, <3>1, <3>2, <3>3 DEF RowsKeyed
  <2>13. \A app : app # q.owner => (D!Of(app))' = D!Of(app)
    BY <2>3, <2>4, <2>5, <2>7 DEF D!Of
  <2>14. \A h : h \in (D!InRows)' => h \in D!InRows \/ h \in q.hosts
    BY <1>3, <2>3, <2>5, <2>10 DEF D!InRows
  <2>15. \A r \in rows' : r.id = ghost.next \/ \E p \in rows : p.id = r.id /\ p.app = r.app
    BY <2>3, <2>5, <2>10
  <2>16. HostsApart'
    BY <1>2, <1>3, <1>4, <2>14 DEF DomainInv, HostsApart, HostsFree, D!InServices
  <2>17. svc' = [s \in Fronts |-> svc'[s]]  BY <1>2 DEF DomainShape
  <2>18. ASSUME q.owner \in Apps \ ghost.raced PROVE Routing(q.owner)'
    <3>1. Routing(q.owner)  BY <2>18 DEF DomainInv
    <3>2. (D!Of(q.owner))' = {g[r] : r \in D!Of(q.owner)} \cup {n}
      BY <2>3, <2>4, <2>5, <2>7, <2>8 DEF D!Of
    <3>3. D!Of(q.owner) \subseteq rows /\ \A r \in D!Of(q.owner) : r.app = q.owner
      BY DEF D!Of
    <3>4. CASE q.primary
      <4>1. {p \in (D!Of(q.owner))' : p.primary} = {n}
        <5>1. n.primary /\ n \in (D!Of(q.owner))'  BY <2>3, <3>2, <3>4
        <5>2. \A r \in D!Of(q.owner) : ~g[r].primary  BY <2>7, <2>8, <3>3, <3>4
        <5> QED  BY <3>2, <5>1, <5>2
      <4> QED
        <5>1. n \in (D!Of(q.owner))' /\ q.to = None
          BY <1>2, <2>18, <3>2, <3>4 DEF GuardHolds
        <5>2. \A r \in (D!Of(q.owner))' : r.to # None => (D!TargetOk(q.owner, r.host, r.to))'
          BY <2>3, <2>7, <2>8, <3>1, <3>2, <3>3, <5>1 DEF Routing, D!TargetOk
        <5> QED  BY <4>1, <5>1, <5>2 DEF Routing
    <3>5. CASE ~q.primary
      <4>1. D!Of(q.owner) # {}
        BY <1>2, <2>18, <3>5 DEF GuardHolds, D!TargetOk
      <4>2. PICK x \in D!Of(q.owner) : {p \in D!Of(q.owner) : p.primary} = {x}
        BY <3>1, <4>1 DEF Routing
      <4>3. \A r \in D!Of(q.owner) : g[r].primary <=> r.primary
        BY <2>7, <2>8, <3>3, <3>5
      <4>4. {p \in (D!Of(q.owner))' : p.primary} = {g[x]}
        BY <2>3, <3>2, <3>5, <4>2, <4>3
      <4>5. q.to # None => D!TargetOk(q.owner, q.host, q.to)
        BY <1>2, <2>18 DEF GuardHolds
      <4>6. \A r \in (D!Of(q.owner))' : r.to # None => (D!TargetOk(q.owner, r.host, r.to))'
        BY <2>3, <2>7, <2>8, <3>1, <3>2, <3>3, <4>5 DEF Routing, D!TargetOk
      <4>7. g[x] \in (D!Of(q.owner))'  BY <3>2
      <4> QED  BY <4>4, <4>6, <4>7 DEF Routing
    <3> QED  BY <3>4, <3>5, <1>3
  <2>19. \A s \in Fronts : \A h \in D!Range(svc'[s]) : h \in D!Range(svc[s])
    BY <1>2
  <2> QED
    BY <1>1, <1>2, <2>12, <2>13, <2>14, <2>15, <2>16, <2>17, <2>18, <2>19, CommitKeeps
<1> QED  BY <1>5, <1>6

\* Saving a project replaces the hostnames of its service.
LEMMA ReplaceKeeps == ASSUME DomainInv, NEW c \in Editors, D!Replace(c) PROVE DomainInv'
<1>1. PICK q : q = reqs[c]  OBVIOUS
<1>2. /\ q # D!Idle /\ q.op = "replace" /\ D!Done(c, q.owner) /\ UNCHANGED rows
      /\ FormedRequest(q) /\ HostsFree(q) /\ RowsKeyed /\ DomainShape /\ HostsApart
  BY <1>1 DEF D!Replace, D!Idle, DomainInv
<1>3. q.owner \in Fronts /\ q.hosts = D!Range(q.list)
  BY <1>2 DEF FormedRequest, RowOps, D!Idle
<1>4. ghost'.next = ghost.next + 1 /\ ghost'.raced = ghost.raced /\ ghost.next \in Nat
  BY <1>2 DEF DomainShape, D!Done
<1>5. RowsKeyed'  BY <1>2, <1>4 DEF RowsKeyed, DomainRows
<1>6. \A app : (D!Of(app))' = D!Of(app)  BY <1>2 DEF D!Of
<1>7. /\ svc' = [s \in Fronts |-> svc'[s]]
      /\ \A s \in Fronts : s # q.owner => svc'[s] = svc[s]
      /\ svc'[q.owner] \in {svc[q.owner], q.list}
  BY <1>1, <1>2, <1>3 DEF D!Replace, DomainShape
<1>8. \A s \in Fronts : \A h \in D!Range(svc'[s]) : h \in D!Range(svc[s]) \/ h \in q.hosts
  BY <1>3, <1>7
<1>9. (D!InRows)' = D!InRows  BY <1>2 DEF D!InRows
<1>10. HostsApart'
  <2>1. ASSUME NEW h \in D!Hostnames \ ghost.raced, NEW s \in Fronts, NEW t \in Fronts, s # t,
               h \in D!Range(svc'[s]), h \in D!Range(svc'[t])
        PROVE  FALSE
    <3>1. \A u \in Fronts : h \in D!Range(svc'[u]) =>
             h \in D!Range(svc[u]) \/ (u = q.owner /\ h \in q.hosts)
      <4> SUFFICES ASSUME NEW u \in Fronts, h \in D!Range(svc'[u])
                   PROVE  h \in D!Range(svc[u]) \/ (u = q.owner /\ h \in q.hosts)
        OBVIOUS
      <4>1. CASE u = q.owner  BY <1>8, <4>1
      <4>2. CASE u # q.owner
        <5>1. svc'[u] = svc[u]  BY <1>7, <4>2
        <5> QED  BY <5>1
      <4> QED  BY <4>1, <4>2
    <3>2. h \in q.hosts => \A u \in Fronts : u # q.owner => h \notin D!Range(svc[u])
      BY <1>2, <2>1 DEF HostsFree, D!InServices
    <3> QED  BY <1>2, <2>1, <3>1, <3>2 DEF HostsApart
  <2>2. ASSUME NEW h \in D!Hostnames \ ghost.raced, h \in D!InRows, NEW s \in Fronts,
               h \in D!Range(svc'[s])
        PROVE  FALSE
    BY <1>2, <1>8, <2>2 DEF HostsApart, HostsFree, D!InServices
  <2> QED  BY <1>4, <1>9, <2>1, <2>2 DEF HostsApart, D!InServices
<1>11. q.owner \in Apps \ ghost.raced => Routing(q.owner)'
  BY <1>6 DEF DomainInv, Routing, D!TargetOk
<1> HIDE DEF D!InRows
<1> QED
  BY <1>1, <1>2, <1>5, <1>6, <1>7, <1>8, <1>9, <1>10, <1>11, CommitKeeps

\* Between the start and the end of a request: what a deployment reads and routes.
LEMMA DeployKeeps ==
  ASSUME DomainInv, NEW o \in D!Owners, D!ReadHosts(o) \/ D!RouteHosts(o) PROVE DomainInv'
<1>1. UNCHANGED <<rows, svc, reqs>>  BY DEF D!ReadHosts, D!RouteHosts
<1>2. /\ ghost'.next = ghost.next /\ ghost'.raced = ghost.raced
      /\ ghost' = [edits |-> ghost'.edits, next |-> ghost'.next,
                   raced |-> ghost'.raced, edited |-> ghost'.edited]
  BY DEF DomainInv, DomainShape, D!ReadHosts, D!RouteHosts
<1>3. DomainShape'
  BY <1>1, <1>2 DEF DomainInv, DomainShape, D!ReadHosts, D!RouteHosts, D!Owners
<1>4. RowsKeyed' /\ OverlapsNoted' /\ HostsApart'
  BY <1>1, <1>2 DEF DomainInv, RowsKeyed, OverlapsNoted, HostsApart, D!InRows, D!InServices
<1>5. \A d \in Editors :
        FormedRequest(reqs[d])' /\ GuardHolds(reqs[d])' /\ HostsFree(reqs[d])'
  BY <1>1, <1>2 DEF DomainInv, FormedRequest, GuardHolds, HostsFree, D!Of, D!TargetOk,
                    D!InRows, D!InServices
<1>6. \A app \in Apps \ ghost'.raced : Routing(app)'
  BY <1>1, <1>2 DEF DomainInv, Routing, D!Of, D!TargetOk
<1>7. \A p : (D!PlanHosts(p))' = D!PlanHosts(p)
  BY <1>1 DEF D!PlanHosts, D!Of
<1>8. RoutesFollow'
  <2>1. CASE D!ReadHosts(o)
    <3>1. /\ plan[o] = D!NoPlan /\ plan' = [plan EXCEPT ![o] = D!PlanHosts(o)]
          /\ ghost'.edited = ghost.edited \ {o} /\ routes' = routes
      BY <2>1 DEF D!ReadHosts, DomainInv, DomainShape
    <3>2. D!PlanHosts(o) # D!NoPlan
      BY DEF D!PlanHosts, D!NoPlan
    <3> QED
      BY <1>7, <3>1, <3>2 DEF DomainInv, DomainShape, RoutesFollow, D!NoPlan, D!Owners
  <2>2. CASE D!RouteHosts(o)
    <3>1. /\ plan[o] # D!NoPlan /\ plan' = [plan EXCEPT ![o] = D!NoPlan]
          /\ ghost'.edited = ghost.edited /\ routes' = [routes EXCEPT ![o] = plan[o]]
      BY <2>2 DEF D!RouteHosts
    <3> QED
      BY <1>7, <3>1 DEF DomainInv, DomainShape, RoutesFollow, D!NoPlan, D!Owners
  <2> QED  BY <2>1, <2>2
<1> QED  BY <1>3, <1>4, <1>5, <1>6, <1>8 DEF DomainInv

\* Every request begins with what the invariant asks of it.
LEMMA StartsKeep ==
  ASSUME DomainInv, NEW c \in Editors,
         \/ \E a \in Apps, h \in D!Hostnames, to \in D!Hostnames \cup {None}, p \in BOOLEAN :
              D!StartCreate(c, a, h, to, p)
         \/ \E r \in rows : \/ D!StartPrimary(c, r) \/ D!StartDelete(c, r)
                            \/ \E to \in D!Hostnames \cup {None} : D!StartRedirect(c, r, to)
         \/ \E s \in Fronts : \E list \in D!Lists(s) : D!StartReplace(c, s, list)
  PROVE  DomainInv'
<1>1. ASSUME NEW a \in Apps, NEW h \in D!Hostnames, NEW to \in D!Hostnames \cup {None},
             NEW p \in BOOLEAN,
             D!StartCreate(c, a, h, to, p)
      PROVE  DomainInv'
  <2>1. PICK q : q = [op |-> "create", owner |-> a, hosts |-> {h}, host |-> h, to |-> to,
                      primary |-> to = None /\ (p \/ D!Of(a) = {})]
    OBVIOUS
  <2>2. D!Start(c, q)  BY <1>1, <2>1 DEF D!StartCreate
  <2>3. q # D!Idle /\ q.op = "create" /\ q.owner = a /\ q.host = h /\ q.hosts = {h} /\ q.to = to
        /\ (q.primary <=> to = None /\ (p \/ D!Of(a) = {})) /\ q.primary \in BOOLEAN
    BY <2>1 DEF D!Idle
  <2>4. FormedRequest(q)  BY <1>1, <2>3 DEF D!StartCreate, FormedRequest
  <2>5. GuardHolds(q)  BY <1>1, <2>3 DEF D!StartCreate, GuardHolds, RowOps
  <2>6. HostsFree(q)  BY <1>1, <2>3 DEF D!StartCreate, HostsFree
  <2> QED  BY <2>2, <2>3, <2>4, <2>5, <2>6, StartKeeps
<1>2. ASSUME NEW r \in rows, NEW to \in D!Hostnames \cup {None}, NEW op \in RowOps,
             D!Change(c, op, r, to), op = "redirect" => D!StartRedirect(c, r, to)
      PROVE  DomainInv'
  <2>1. PICK q : q = [op |-> op, owner |-> r.app, hosts |-> {r.host}, row |-> r, to |-> to]
    OBVIOUS
  <2>2. D!Start(c, q)  BY <1>2, <2>1 DEF D!Change
  <2>3. q # D!Idle /\ q.op = op /\ q.owner = r.app /\ q.row = r /\ q.to = to
    BY <2>1 DEF D!Idle
  <2>4. FormedRequest(q)  BY <2>3 DEF FormedRequest, DomainInv, RowsKeyed
  <2>5. GuardHolds(q)  BY <1>2, <2>3 DEF D!StartRedirect, GuardHolds, RowOps
  <2>6. HostsFree(q)  BY <2>3 DEF HostsFree, RowOps
  <2> QED  BY <2>2, <2>3, <2>4, <2>5, <2>6, StartKeeps
<1>3. ASSUME NEW s \in Fronts, NEW list, D!StartReplace(c, s, list)
      PROVE  DomainInv'
  <2>1. PICK q : q = [op |-> "replace", owner |-> s, hosts |-> D!Range(list), list |-> list]
    OBVIOUS
  <2>2. D!Start(c, q)  BY <1>3, <2>1 DEF D!StartReplace
  <2>3. q # D!Idle /\ q.op = "replace" /\ q.owner = s /\ q.hosts = D!Range(list) /\ q.list = list
    BY <2>1 DEF D!Idle
  <2>4. FormedRequest(q)  BY <2>3 DEF FormedRequest
  <2>5. GuardHolds(q)  BY <2>3 DEF GuardHolds, RowOps
  <2>6. HostsFree(q)  BY <1>3, <2>3 DEF D!StartReplace, HostsFree
  <2> QED  BY <2>2, <2>3, <2>4, <2>5, <2>6, StartKeeps
<1> QED  BY <1>1, <1>2, <1>3 DEF D!StartPrimary, D!StartDelete, D!StartRedirect, RowOps

\* Every step of Domains keeps the invariant.
LEMMA DomainsKeep == DomainInv /\ [D!Next]_domainVars => DomainInv'
<1> SUFFICES ASSUME DomainInv, [D!Next]_domainVars PROVE DomainInv'  OBVIOUS
<1>1. CASE UNCHANGED domainVars
  <2>1. DomainShape' /\ RowsKeyed' /\ OverlapsNoted'
    BY <1>1 DEF domainVars, DomainInv, DomainShape, RowsKeyed, OverlapsNoted
  <2>2. HostsApart' /\ RoutesFollow'
    BY <1>1 DEF domainVars, DomainInv, HostsApart, RoutesFollow, D!InRows, D!InServices,
                D!PlanHosts, D!Of
  <2>3. \A d \in Editors :
          FormedRequest(reqs[d])' /\ GuardHolds(reqs[d])' /\ HostsFree(reqs[d])'
    BY <1>1 DEF domainVars, DomainInv, FormedRequest, GuardHolds, HostsFree, D!Of, D!TargetOk,
                D!InRows, D!InServices
  <2>4. \A app \in Apps \ ghost'.raced : Routing(app)'
    BY <1>1 DEF domainVars, DomainInv, Routing, D!Of, D!TargetOk
  <2> QED  BY <2>1, <2>2, <2>3, <2>4 DEF DomainInv
<1>2. CASE D!Next
  BY <1>2, StartsKeep, CreateKeeps, SetPrimaryKeeps, SetRedirectKeeps, DeleteKeeps,
     ReplaceKeeps, DeployKeeps DEF D!Next
<1> QED  BY <1>1, <1>2

\* What SerialKeepsRouting says of one application.
LEMMA DomainsSerial == DomainInv => D!SerialKeepsRouting
<1> SUFFICES ASSUME DomainInv, NEW app \in Apps \ ghost.raced
             PROVE  /\ D!Of(app) # {} => D!Cardinality({r \in D!Of(app) : r.primary}) = 1
                    /\ \A r \in D!Of(app) : r.to # None => D!TargetOk(app, r.host, r.to)
  BY DEF D!SerialKeepsRouting
<1>1. Routing(app)  BY DEF DomainInv
<1> QED  BY <1>1, DomainCardinality DEF Routing

\* Where every deployment has been made, a container answers on what is stored.
LEMMA DomainsAgree == DomainInv => D!DeployedRoutesAgree
<1> SUFFICES ASSUME DomainInv, ghost.edited = {}, \A o \in D!Owners : plan[o] = D!NoPlan
             PROVE  /\ \A h \in D!Hostnames \ ghost.raced :
                         /\ D!Cardinality(D!Answering(h) \cap Apps) <= 1
                         /\ (\A o \in D!Owners : h # D!Address(o)) =>
                              D!Cardinality(D!Answering(h)) <= 1
                    /\ \A app \in Apps \ ghost.raced :
                         \A r \in routes[app].redirects : r[2] \in routes[app].served
  BY DEF D!DeployedRoutesAgree
<1>1. \A o \in D!Owners : routes[o] \in {D!NoPlan, D!PlanHosts(o)}
  BY DEF DomainInv, RoutesFollow
<1>2. ASSUME NEW h \in D!Hostnames \ ghost.raced
      PROVE  /\ D!Cardinality(D!Answering(h) \cap Apps) <= 1
             /\ (\A o \in D!Owners : h # D!Address(o)) => D!Cardinality(D!Answering(h)) <= 1
  <2>1. ASSUME NEW o \in D!Answering(h)
        PROVE  /\ o \in D!Owners
               /\ \/ h = D!Address(o)
                  \/ o \in Fronts /\ h \in D!Range(svc[o])
                  \/ o \in Apps /\ \E r \in rows : r.app = o /\ r.host = h
    <3>1. o \in D!Owners /\ h \in routes[o].served \cup {r[1] : r \in routes[o].redirects}
      BY DEF D!Answering
    <3>2. routes[o] = D!PlanHosts(o)  BY <1>1, <3>1 DEF D!NoPlan
    <3> QED  BY <3>1, <3>2 DEF D!PlanHosts, D!Owners, D!Of
  <2>2. \A r \in rows : r.host = h => h \notin D!BuiltIn
    BY DEF DomainInv, RowsKeyed, DomainRows
  <2>3. \A o, p : D!Address(o) = D!Address(p) => o = p  BY DEF D!Address
  <2>4. ASSUME NEW o \in D!Answering(h) \cap Apps, NEW p \in D!Answering(h) \cap Apps
        PROVE  o = p
    <3>1. o \notin Fronts /\ p \notin Fronts  BY OwnersAssumption
    <3>2. D!Address(o) \in D!BuiltIn /\ D!Address(p) \in D!BuiltIn  BY DEF D!BuiltIn
    <3>3. \/ h = D!Address(o) /\ h = D!Address(p)
          \/ /\ \E r \in rows : r.app = o /\ r.host = h
             /\ \E r \in rows : r.app = p /\ r.host = h
      BY <2>1, <2>2, <3>1, <3>2
    <3> QED  BY <2>3, <3>3 DEF DomainInv, RowsKeyed
  <2>5. ASSUME \A o \in D!Owners : h # D!Address(o),
               NEW o \in D!Answering(h), NEW p \in D!Answering(h)
        PROVE  o = p
    <3>1. ASSUME NEW q \in D!Answering(h)
          PROVE  \/ q \in Fronts /\ h \in D!Range(svc[q])
                 \/ q \in Apps /\ \E r \in rows : r.app = q /\ r.host = h
      BY <2>1, <2>5
    <3>2. /\ \/ o \in Fronts /\ h \in D!Range(svc[o])
             \/ o \in Apps /\ \E r \in rows : r.app = o /\ r.host = h
          /\ \/ p \in Fronts /\ h \in D!Range(svc[p])
             \/ p \in Apps /\ \E r \in rows : r.app = p /\ r.host = h
      BY <3>1
    <3> QED  BY <3>2 DEF DomainInv, HostsApart, RowsKeyed, D!InRows, D!InServices
  <2>6. ASSUME NEW S, \A x, y \in S : x = y PROVE D!Cardinality(S) <= 1
    <3>1. S = {} \/ \E x : S = {x}
      <4>1. ASSUME NEW x \in S PROVE S = {x}  BY <2>6
      <4> QED  BY <4>1
    <3>2. D!Cardinality(S) \in {0, 1}  BY <3>1, DomainCardinality
    <3> QED  BY <3>2
  <2>7. D!Cardinality(D!Answering(h) \cap Apps) <= 1  BY <2>4, <2>6
  <2>8. (\A o \in D!Owners : h # D!Address(o)) => D!Cardinality(D!Answering(h)) <= 1
    BY <2>5, <2>6
  <2> QED  BY <2>7, <2>8
<1>3. ASSUME NEW app \in Apps \ ghost.raced, NEW r \in routes[app].redirects
      PROVE  r[2] \in routes[app].served
  <2>1. app \in D!Owners /\ routes[app] = D!PlanHosts(app)
    BY <1>1, <1>3 DEF D!NoPlan, D!Owners
  <2>2. app \notin Fronts  BY <1>3, <2>1 DEF D!PlanHosts
  <2>3. PICK x \in D!Of(app) : x.to # None /\ r = <<x.host, x.to>>
    BY <1>3, <2>1, <2>2 DEF D!PlanHosts
  <2>4. D!TargetOk(app, x.host, x.to)  BY <2>3 DEF DomainInv, Routing
  <2> QED  BY <2>1, <2>2, <2>3, <2>4 DEF D!TargetOk, D!PlanHosts
<1> QED  BY <1>2, <1>3

\* The invariant of Domains in a behaviour that follows the domains.
LEMMA DomainsInvariant == ConfigurationSpec => []DomainPart
<1>1. ConfigurationInit => DomainPart
  BY DomainsBegin DEF ConfigurationInit, DomainPart
<1>2. DomainPart /\ [ConfigurationNext]_allVars => DomainPart'
  <2> SUFFICES ASSUME DomainPart, [ConfigurationNext]_allVars, part' = "domains"
               PROVE  DomainInv'
    BY DEF DomainPart
  <2>1. part = "domains" /\ [D!Next]_domainVars
    BY DEF ConfigurationNext, allVars, domainVars
  <2> QED  BY <2>1, DomainsKeep DEF DomainPart
<1> QED  BY <1>1, <1>2, PTL DEF ConfigurationSpec

\* An application no two requests of which overlapped has one primary domain, and its
\* redirects land on domains that serve, whatever is created, deleted, redirected or made
\* primary in between (routes/domains.ts).
THEOREM ConfigurationRouting == ConfigurationSpec => []SerialKeepsRouting
<1>1. DomainPart => SerialKeepsRouting  BY DomainsSerial DEF DomainPart, SerialKeepsRouting
<1> QED  BY <1>1, DomainsInvariant, PTL

\* Once everything has been deployed, a hostname that no overlapping requests named is
\* answered by one application at most, and by one application or service at most if it is
\* no address Sohwe made itself; and redirects lead to what their container serves.
THEOREM ConfigurationRoutes == ConfigurationSpec => []DeployedRoutesAgree
<1>1. DomainPart => DeployedRoutesAgree  BY DomainsAgree DEF DomainPart, DeployedRoutesAgree
<1> QED  BY <1>1, DomainsInvariant, PTL

-----------------------------------------------------------------------------
(***************************************************************************)
(* Variables.                                                              *)
(***************************************************************************)
MapEntries == [V!Maps -> Values \cup {None}]
Listing(entries) == {k \in Keys : V!Listed(entries[k])}

\* An open panel has the list as it was shown, and rows for the same keys.
FormedPanel(p) ==
  \/ p = V!Locked
  \/ /\ p = [rows |-> p.rows, seen |-> p.seen, shown |-> p.shown]
     /\ p.seen \in [Keys -> MapEntries]
     /\ p.shown = [k \in Listing(p.seen) |-> V!RowOfEntry(p.seen[k])]
     /\ p.rows \in [Listing(p.seen) -> V!Rows]

\* What a request that has read the maps is going to write of a key, and where.
Written(q, k) ==
  IF q.op = "patch" THEN V!Patched(q.read[k], k, q.patch)
  ELSE IF q.op = "map" THEN V!PatchedMap(q.read[k], k, q.map, q.patch)
  ELSE IF k \in DOMAIN q.rows THEN V!Placed(V!Unset, q.rows[k]) ELSE V!Unset
MapsOf(q) == IF q.op = "map" THEN {q.map} ELSE V!Scoped

\* It writes what its author asked for, and what it has read of everything else, but on
\* keys that were overwritten unseen before its author looked.
ReadsAndWrites(q) ==
  /\ q.op \in {"replace", "patch", "map"} /\ (q.op = "map" => q.map \in V!Maps)
  /\ q.read \in [Keys -> MapEntries]
  /\ \A k \in Keys : Written(q, k) \in MapEntries
  /\ \A k \in DOMAIN q.wants : DOMAIN q.wants[k] \subseteq MapsOf(q)
  /\ \A k \in Keys \ lost, m \in MapsOf(q) :
       Written(q, k)[m] = IF k \in DOMAIN q.wants /\ m \in DOMAIN q.wants[k]
                          THEN q.wants[k][m] ELSE q.read[k][m]

ReplacesMap(q) ==
  /\ q.op = "mapReplace" /\ q.map \in V!Maps /\ q.to \in [Keys -> Values \cup {None}]
  /\ q.read = None /\ q.wants = [k \in Keys |-> [m \in {q.map} |-> q.to[k]]]

VariablesInv ==
  /\ vals \in [Keys -> MapEntries] /\ due = [k \in Keys |-> [m \in V!Maps |-> due[k][m]]]
  /\ panel = [e \in Editors |-> panel[e]] /\ request = [e \in Editors |-> request[e]]
  /\ \A e \in Editors :
       /\ FormedPanel(panel[e])
       /\ request[e] = V!NoRequest \/ ReadsAndWrites(request[e]) \/ ReplacesMap(request[e])
  /\ V!EditsKept

VariablesPart == part = "variables" => VariablesInv

\* No key has a value before the first request.
LEMMA VariablesBegin == V!Init => VariablesInv
<1> SUFFICES ASSUME V!Init PROVE VariablesInv  OBVIOUS
<1>1. vals \in [Keys -> MapEntries] /\ due = [k \in Keys |-> [m \in V!Maps |-> due[k][m]]]
  BY DEF V!Init, V!Unset, MapEntries
<1>2. panel = [e \in Editors |-> panel[e]] /\ request = [e \in Editors |-> request[e]]
  BY DEF V!Init
<1>3. \A e \in Editors : panel[e] = V!Locked /\ request[e] = V!NoRequest
  BY DEF V!Init
<1>4. V!EditsKept  BY DEF V!Init, V!EditsKept
<1> QED  BY <1>1, <1>2, <1>3, <1>4 DEF VariablesInv, FormedPanel

\* What a request promises stays, whatever other requests overwrite.
LEMMA PromiseStays ==
  ASSUME NEW q, lost \subseteq lost', ReadsAndWrites(q) PROVE ReadsAndWrites(q)'
BY DEF ReadsAndWrites, Written

\* What is said of the value of a request is said of the request.
LEMMA PromiseOf ==
  ASSUME NEW d, NEW p, p = request'[d],
         p = V!NoRequest \/ ReadsAndWrites(p)' \/ ReplacesMap(p)
  PROVE  (request[d] = V!NoRequest \/ ReadsAndWrites(request[d]) \/ ReplacesMap(request[d]))'
<1>1. CASE p = V!NoRequest  BY <1>1 DEF V!NoRequest
<1>2. CASE ReadsAndWrites(p)'
  <2>1. /\ p.op \in {"replace", "patch", "map"} /\ (p.op = "map" => p.map \in V!Maps)
        /\ p.read \in [Keys -> MapEntries]
    BY <1>2 DEF ReadsAndWrites
  <2>2. \A k \in Keys : Written(p, k) \in MapEntries
    BY <1>2 DEF ReadsAndWrites, Written
  <2>3. \A k \in DOMAIN p.wants : DOMAIN p.wants[k] \subseteq MapsOf(p)
    BY <1>2 DEF ReadsAndWrites, MapsOf
  <2>4. \A k \in Keys \ lost', m \in MapsOf(p) :
          Written(p, k)[m] = IF k \in DOMAIN p.wants /\ m \in DOMAIN p.wants[k]
                             THEN p.wants[k][m] ELSE p.read[k][m]
    BY <1>2 DEF ReadsAndWrites, MapsOf, Written
  <2>5. ReadsAndWrites(request[d])'
    BY <2>1, <2>2, <2>3, <2>4, Zenon DEF ReadsAndWrites, MapsOf, Written
  <2> QED  BY <2>5
<1>3. CASE ReplacesMap(p)
  <2>1. ReplacesMap(request[d])'  BY <1>3, Zenon DEF ReplacesMap
  <2> QED  BY <2>1
<1> QED  BY <1>1, <1>2, <1>3

\* The invariant when the requests and the maps stay, or requests only go.
LEMMA RequestsStay ==
  ASSUME VariablesInv, UNCHANGED <<vals, due, lost>>,
         request' = [d \in Editors |-> request'[d]],
         \A d \in Editors : request'[d] \in {request[d], V!NoRequest},
         panel' = [d \in Editors |-> panel'[d]], \A d \in Editors : FormedPanel(panel'[d])
  PROVE  VariablesInv'
<1>1. \A p : ReadsAndWrites(p) => ReadsAndWrites(p)'  BY PromiseStays
<1>2. ASSUME NEW d \in Editors
      PROVE  (request[d] = V!NoRequest \/ ReadsAndWrites(request[d]) \/ ReplacesMap(request[d]))'
  <2>1. PICK p : p = request'[d]  OBVIOUS
  <2>2. p = V!NoRequest \/ ReadsAndWrites(p) \/ ReplacesMap(p)
    BY <2>1 DEF VariablesInv
  <2>3. p = V!NoRequest \/ ReadsAndWrites(p)' \/ ReplacesMap(p)
    BY <1>1, <2>2
  <2> QED  BY <2>1, <2>3, PromiseOf
<1> QED  BY <1>2 DEF VariablesInv, FormedPanel, V!EditsKept, V!Locked

\* A request that is answered keeps the invariant if it writes what was asked for, and
\* what is stored of everything else, on the keys it does not overwrite unseen.
LEMMA WriteKeeps ==
  ASSUME VariablesInv, NEW e \in Editors, NEW q, q = request[e], NEW maps, maps \subseteq V!Maps,
         NEW after, V!Write(e, maps, after),
         \A k \in Keys, m \in maps : after[k][m] \in Values \cup {None},
         \A k \in DOMAIN q.wants : DOMAIN q.wants[k] \subseteq maps,
         \A k \in Keys \ lost, m \in maps :
           q.read = None \/ q.read[k][m] = vals[k][m] =>
             after[k][m] = IF k \in DOMAIN q.wants /\ m \in DOMAIN q.wants[k]
                           THEN q.wants[k][m] ELSE vals[k][m],
         panel' = [d \in Editors |-> panel'[d]], \A d \in Editors : FormedPanel(panel'[d])
  PROVE  VariablesInv'
<1>1. /\ vals' = [k \in Keys |-> [m \in V!Maps |->
                   IF m \in maps THEN after[k][m] ELSE vals[k][m]]]
      /\ lost' = lost \cup {k \in Keys : \E m \in maps :
                              q.read # None /\ q.read[k][m] # vals[k][m]}
      /\ due' = [k \in Keys |-> [m \in V!Maps |->
                   IF k \in DOMAIN q.wants /\ m \in DOMAIN q.wants[k]
                   THEN q.wants[k][m] ELSE due[k][m]]]
      /\ request' = [request EXCEPT ![e] = V!NoRequest]
  BY DEF V!Write
<1>2. /\ vals \in [Keys -> MapEntries] /\ request = [d \in Editors |-> request[d]]
      /\ due = [k \in Keys |-> [m \in V!Maps |-> due[k][m]]] /\ V!EditsKept
      /\ \A d \in Editors :
           request[d] = V!NoRequest \/ ReadsAndWrites(request[d]) \/ ReplacesMap(request[d])
  BY DEF VariablesInv
<1>3. vals' \in [Keys -> MapEntries]
  <2>1. \A k \in Keys, m \in V!Maps :
          (IF m \in maps THEN after[k][m] ELSE vals[k][m]) \in Values \cup {None}
    BY <1>2 DEF MapEntries
  <2> QED  BY <1>1, <2>1 DEF MapEntries
<1>4. due' = [k \in Keys |-> [m \in V!Maps |-> due'[k][m]]]
  BY <1>1
<1>5. request' = [d \in Editors |-> request'[d]]
      /\ \A d \in Editors : request'[d] = IF d = e THEN V!NoRequest ELSE request[d]
  BY <1>1, <1>2
<1>6. lost \subseteq lost'  BY <1>1
<1>7. ASSUME NEW d \in Editors
      PROVE  (request[d] = V!NoRequest \/ ReadsAndWrites(request[d]) \/ ReplacesMap(request[d]))'
  <2>1. CASE request'[d] = V!NoRequest  BY <2>1 DEF V!NoRequest
  <2>2. CASE request'[d] # V!NoRequest
    <3>1. PICK p : p = request[d]  OBVIOUS
    <3>2. request'[d] = p /\ (ReadsAndWrites(p) \/ ReplacesMap(p))
      BY <1>2, <1>5, <2>2, <3>1
    <3>3. ReadsAndWrites(p) => ReadsAndWrites(p)'  BY <1>6, PromiseStays
    <3>4. p = request'[d] /\ (ReadsAndWrites(p)' \/ ReplacesMap(p))  BY <3>2, <3>3
    <3> QED  BY <3>4, PromiseOf
  <2> QED  BY <2>1, <2>2
<1>8. V!EditsKept'
  <2> SUFFICES ASSUME NEW k \in Keys \ lost' PROVE vals'[k] = due'[k]
    BY DEF V!EditsKept
  <2>1. k \notin lost /\ vals[k] = due[k]  BY <1>2, <1>6 DEF V!EditsKept
  <2>2. \A m \in maps : q.read = None \/ q.read[k][m] = vals[k][m]  BY <1>1
  <2>3. ASSUME NEW m \in V!Maps PROVE vals'[k][m] = due'[k][m]
    <3>1. CASE m \in maps
      BY <1>1, <2>1, <2>2, <3>1
    <3>2. CASE m \notin maps
      BY <1>1, <2>1, <3>2
    <3> QED  BY <3>1, <3>2
  <2>4. /\ vals'[k] = [m \in V!Maps |-> vals'[k][m]]
        /\ due'[k] = [m \in V!Maps |-> due'[k][m]]
    BY <1>3, <1>4 DEF MapEntries
  <2> QED  BY <2>3, <2>4
<1> QED
  BY <1>3, <1>4, <1>5, <1>7, <1>8 DEF VariablesInv, FormedPanel, V!Locked

\* A request that is sent keeps the invariant if it promises what it is to do.
LEMMA SendKeeps ==
  ASSUME VariablesInv, NEW e \in Editors, NEW q, V!Send(e, q), ReadsAndWrites(q) \/ ReplacesMap(q)
  PROVE  VariablesInv'
<1>1. request' = [request EXCEPT ![e] = q] /\ UNCHANGED <<vals, panel, due, lost>>
  BY DEF V!Send
<1>2. request' = [d \in Editors |-> request'[d]]
      /\ \A d \in Editors : request'[d] = IF d = e THEN q ELSE request[d]
  BY <1>1 DEF VariablesInv
<1>3. \A p : ReadsAndWrites(p) => ReadsAndWrites(p)'  BY <1>1, PromiseStays
<1>4. ASSUME NEW d \in Editors
      PROVE  (request[d] = V!NoRequest \/ ReadsAndWrites(request[d]) \/ ReplacesMap(request[d]))'
  <2>1. PICK p : p = request'[d]  OBVIOUS
  <2>2. p = V!NoRequest \/ ReadsAndWrites(p) \/ ReplacesMap(p)
    BY <1>2, <2>1 DEF VariablesInv
  <2>3. p = V!NoRequest \/ ReadsAndWrites(p)' \/ ReplacesMap(p)
    BY <1>3, <2>2
  <2> QED  BY <2>1, <2>3, PromiseOf
<1> QED  BY <1>1, <1>2, <1>4 DEF VariablesInv, FormedPanel, V!EditsKept, V!Locked

\* An entry without values.
LEMMA UnsetEntry == V!Unset \in MapEntries /\ \A m \in V!Maps : V!Unset[m] = None
BY DEF V!Unset, MapEntries

\* A placed row has its value where its scope says, and none elsewhere.
LEMMA PlacedRow ==
  ASSUME NEW entry \in MapEntries, NEW r \in V!Rows
  PROVE  /\ V!Placed(entry, r) \in MapEntries
         /\ DOMAIN V!AsRow(r) = V!Scoped
         /\ \A m \in V!Scoped : V!Placed(entry, r)[m] = V!AsRow(r)[m]
<1>1. r.scope \in V!Scopes /\ r.value \in Values  BY DEF V!Rows
<1>2. V!Placed(entry, r) \in MapEntries  BY <1>1 DEF MapEntries, V!Placed, V!Maps
<1>3. DOMAIN V!AsRow(r) = V!Scoped  BY DEF V!AsRow, V!Scoped
<1>4. /\ V!Placed(entry, r).env = V!AsRow(r).env
      /\ V!Placed(entry, r).build = V!AsRow(r).build
  BY DEF MapEntries, V!Placed, V!AsRow, V!Maps
<1> QED  BY <1>2, <1>3, <1>4 DEF V!Scoped

\* A row that is shown and placed again is what it was read from, but for the build value
\* of a variable whose two values differ.
LEMMA RowPlacedAgain ==
  ASSUME NEW entry \in MapEntries, V!Listed(entry), NEW r, r = V!RowOfEntry(entry)
  PROVE  /\ r \in V!Rows
         /\ V!AsRow(r).env = entry.env
         /\ r.scope # "both" \/ entry.env = entry.build => V!AsRow(r).build = entry.build
<1>1. entry["env"] \in Values \cup {None} /\ entry["build"] \in Values \cup {None}
  BY DEF MapEntries, V!Maps
<1> QED  BY <1>1 DEF V!Rows, V!Scopes, V!AsRow, V!RowOfEntry, V!Listed

\* "Save all" promises the rows its author edited, and what was shown of the others.
LEMMA SendReplaceKeeps ==
  ASSUME VariablesInv, NEW e \in Editors, V!SendReplace(e) PROVE VariablesInv'
<1>1. PICK p : p = panel[e]  OBVIOUS
<1>2. p # V!Locked /\ FormedPanel(p)  BY <1>1 DEF V!SendReplace, VariablesInv
<1>3. /\ p.seen \in [Keys -> MapEntries]
      /\ p.shown = [k \in Listing(p.seen) |-> V!RowOfEntry(p.seen[k])]
      /\ p.rows \in [Listing(p.seen) -> V!Rows]
  BY <1>2 DEF FormedPanel
<1> DEFINE edited == {k \in DOMAIN p.rows : \/ p.rows[k] # p.shown[k]
                                            \/ p.seen[k].env # p.seen[k].build
                                               /\ p.rows[k].scope = "both"}
<1>4. PICK q : q = [op |-> "replace", rows |-> p.rows, read |-> p.seen,
                    wants |-> [k \in edited |-> V!AsRow(p.rows[k])]]
  OBVIOUS
<1>5. V!Send(e, q)  BY <1>1, <1>4 DEF V!SendReplace
<1>6. /\ q.op = "replace" /\ q.rows = p.rows /\ q.read = p.seen
      /\ q.wants = [k \in edited |-> V!AsRow(p.rows[k])]
  BY <1>4
<1>7. /\ MapsOf(q) = V!Scoped
      /\ \A k : Written(q, k) = IF k \in DOMAIN p.rows THEN V!Placed(V!Unset, p.rows[k])
                               ELSE V!Unset
  BY <1>6 DEF MapsOf, Written
<1>8. DOMAIN p.rows = Listing(p.seen) /\ \A k \in DOMAIN p.rows : p.rows[k] \in V!Rows
  BY <1>3
<1>9. \A k \in Keys : Written(q, k) \in MapEntries
  BY <1>7, <1>8, UnsetEntry, PlacedRow
<1>10. \A k \in DOMAIN q.wants : DOMAIN q.wants[k] = V!Scoped /\ q.wants[k] = V!AsRow(p.rows[k])
  BY <1>6, <1>8, UnsetEntry, PlacedRow
<1>11. ASSUME NEW k \in Keys, NEW m \in V!Scoped
       PROVE  Written(q, k)[m] = IF k \in DOMAIN q.wants /\ m \in DOMAIN q.wants[k]
                                 THEN q.wants[k][m] ELSE q.read[k][m]
  <2>1. m \in V!Maps  BY DEF V!Scoped, V!Maps
  <2>2. p.seen[k] \in MapEntries  BY <1>3
  <2>3. CASE k \in edited
    BY <1>6, <1>7, <1>8, <1>10, <2>3, UnsetEntry, PlacedRow
  <2>4. CASE k \in DOMAIN p.rows /\ k \notin edited
    <3>1. V!Listed(p.seen[k]) /\ p.rows[k] = V!RowOfEntry(p.seen[k])
      <4>1. k \in Listing(p.seen) /\ p.rows[k] = p.shown[k]  BY <1>8, <2>4
      <4>2. p.shown[k] = V!RowOfEntry(p.seen[k])  BY <1>3, <4>1
      <4> QED  BY <4>1, <4>2 DEF Listing
    <3>2. p.rows[k].scope # "both" \/ p.seen[k].env = p.seen[k].build  BY <2>4
    <3>3. V!AsRow(p.rows[k])[m] = p.seen[k][m]
      BY <2>2, <3>1, <3>2, RowPlacedAgain DEF V!Scoped
    <3> QED  BY <1>6, <1>7, <1>8, <2>4, <3>3, UnsetEntry, PlacedRow
  <2>5. CASE k \notin DOMAIN p.rows
    <3>1. ~V!Listed(p.seen[k])  BY <1>8, <2>5 DEF Listing
    <3>2. p.seen[k][m] = None  BY <3>1 DEF V!Listed, V!Scoped
    <3> QED  BY <1>6, <1>7, <2>1, <2>5, <3>2, UnsetEntry
  <2> QED  BY <2>3, <2>4, <2>5
<1> HIDE DEF edited
<1>12. ReadsAndWrites(q)
  BY <1>3, <1>6, <1>7, <1>9, <1>10, <1>11 DEF ReadsAndWrites
<1> QED  BY <1>5, <1>12, SendKeeps

\* A patch of one map promises the key it names.
LEMMA SendMapPatchKeeps ==
  ASSUME VariablesInv, NEW e \in Editors, NEW map \in V!Maps, NEW k \in Keys,
         NEW to \in Values \cup {None}, V!SendMapPatch(e, map, k, to)
  PROVE  VariablesInv'
<1>1. PICK q : q = [op |-> "map", map |-> map, read |-> vals,
                    patch |-> [set |-> [x \in IF to = None THEN {} ELSE {k} |-> to],
                               unset |-> IF to = None THEN {k} ELSE {}],
                    wants |-> [x \in {k} |-> [m \in {map} |-> to]]]
  OBVIOUS
<1>2. V!Send(e, q)  BY <1>1 DEF V!SendMapPatch
<1>3. /\ q.op = "map" /\ q.map = map /\ q.read = vals
      /\ q.patch.set = [x \in IF to = None THEN {} ELSE {k} |-> to]
      /\ q.patch.unset = IF to = None THEN {k} ELSE {}
      /\ q.wants = [x \in {k} |-> [m \in {map} |-> to]]
  BY <1>1
<1>4. vals \in [Keys -> MapEntries]  BY DEF VariablesInv
<1>5. \A x \in Keys : Written(q, x) = [vals[x] EXCEPT ![map] = IF x = k THEN to ELSE @]
  BY <1>3 DEF Written, V!PatchedMap
<1>6. \A x \in Keys : Written(q, x) \in MapEntries
  BY <1>4, <1>5 DEF MapEntries
<1>7. \A x \in Keys : Written(q, x)[map] = IF x = k THEN to ELSE vals[x][map]
  BY <1>4, <1>5 DEF MapEntries
<1>8. ReadsAndWrites(q)  BY <1>3, <1>4, <1>6, <1>7 DEF ReadsAndWrites, MapsOf
<1> QED  BY <1>2, <1>8, SendKeeps

\* A replaced map is written as it was sent, whatever is stored.
LEMMA SendMapReplaceKeeps ==
  ASSUME VariablesInv, NEW e \in Editors, NEW map \in V!Maps,
         NEW to \in [Keys -> Values \cup {None}], V!SendMapReplace(e, map, to)
  PROVE  VariablesInv'
<1>1. PICK q : q = [op |-> "mapReplace", map |-> map, to |-> to, read |-> None,
                    wants |-> [x \in Keys |-> [m \in {map} |-> to[x]]]]
  OBVIOUS
<1>2. V!Send(e, q)  BY <1>1 DEF V!SendMapReplace
<1>3. ReplacesMap(q)  BY <1>1 DEF ReplacesMap
<1> QED  BY <1>2, <1>3, SendKeeps

\* A patch of rows with known scopes, and no key both set and rescoped.
FormedPatch(p) ==
  /\ \A k \in DOMAIN p.set : p.set[k] \in V!Rows /\ k \notin DOMAIN p.rescope
  /\ \A k \in DOMAIN p.rescope : p.rescope[k] \in V!Scopes
  /\ DOMAIN p.set \subseteq Keys /\ DOMAIN p.rescope \subseteq Keys
  /\ p.unset \subseteq Keys

\* The three forms of a patch in Patches.
SetPatch(k, r, u) == [set |-> [x \in {k} |-> r], rescope |-> V!Nothing, unset |-> u]
RescopePatch(k, s) == [set |-> V!Nothing, rescope |-> [x \in {k} |-> s], unset |-> {}]
UnsetPatch(k) == [set |-> V!Nothing, rescope |-> V!Nothing, unset |-> {k}]

\* The patches the panel sends are of that form.
LEMMA PatchesAreFormed == \A p \in V!Patches : FormedPatch(p)
<1>1. ASSUME NEW k \in Keys, NEW r \in V!Rows, NEW u \in {{}} \cup {{j} : j \in Keys}, NEW p,
             p = [set |-> [x \in {k} |-> r], rescope |-> V!Nothing, unset |-> u]
      PROVE  FormedPatch(p)
  <2>1. p.set = [x \in {k} |-> r] /\ p.rescope = V!Nothing /\ p.unset = u  BY <1>1
  <2>2. u \subseteq Keys  OBVIOUS
  <2> QED  BY <2>1, <2>2 DEF V!Nothing, FormedPatch
<1>2. ASSUME NEW k \in Keys, NEW s \in V!Scopes, NEW p,
             p = [set |-> V!Nothing, rescope |-> [x \in {k} |-> s], unset |-> {}]
      PROVE  FormedPatch(p)
  <2>1. p.set = V!Nothing /\ p.rescope = [x \in {k} |-> s] /\ p.unset = {}  BY <1>2
  <2> QED  BY <2>1 DEF V!Nothing, FormedPatch
<1>3. ASSUME NEW k \in Keys, NEW p,
             p = [set |-> V!Nothing, rescope |-> V!Nothing, unset |-> {k}]
      PROVE  FormedPatch(p)
  <2>1. p.set = V!Nothing /\ p.rescope = V!Nothing /\ p.unset = {k}  BY <1>3
  <2> QED  BY <2>1 DEF V!Nothing, FormedPatch
<1>4. V!Patches = {SetPatch(k, r, u) : k \in Keys, r \in V!Rows,
                                       u \in {{}} \cup {{j} : j \in Keys}}
                  \cup {RescopePatch(k, s) : k \in Keys, s \in V!Scopes}
                  \cup {UnsetPatch(k) : k \in Keys}
  BY DEF V!Patches, SetPatch, RescopePatch, UnsetPatch
<1>5. /\ \A k \in Keys, r \in V!Rows, u \in {{}} \cup {{j} : j \in Keys} :
           FormedPatch(SetPatch(k, r, u))
      /\ \A k \in Keys, s \in V!Scopes : FormedPatch(RescopePatch(k, s))
      /\ \A k \in Keys : FormedPatch(UnsetPatch(k))
  BY <1>1, <1>2, <1>3 DEF SetPatch, RescopePatch, UnsetPatch
<1> QED  BY <1>4, <1>5

\* Unsetting a key takes both its values.
LEMMA UnsetRow ==
  ASSUME NEW entry \in MapEntries, NEW after,
         after = [entry EXCEPT !.env = None, !.build = None]
  PROVE  /\ after \in MapEntries
         /\ DOMAIN V!Gone = V!Scoped
         /\ \A m \in V!Scoped : after[m] = V!Gone[m]
<1>1. after \in MapEntries  BY DEF MapEntries, V!Maps
<1>2. after.env = None /\ after.build = None  BY DEF MapEntries, V!Maps
<1>3. DOMAIN V!Gone = V!Scoped /\ V!Gone.env = None /\ V!Gone.build = None
  BY DEF V!Gone, V!Scoped
<1> QED  BY <1>1, <1>2, <1>3 DEF V!Scoped

\* A patch of the list promises the keys it sets, rescopes and unsets.
LEMMA SendPatchKeeps ==
  ASSUME VariablesInv, NEW e \in Editors, NEW p \in V!Patches, V!SendPatch(e, p)
  PROVE  VariablesInv'
<1>1. PICK w : w = V!PatchWants(p)  OBVIOUS
<1>2. PICK q : q = [op |-> "patch", patch |-> p, read |-> vals, wants |-> w]  OBVIOUS
<1>3. V!Send(e, q) /\ \A k \in DOMAIN p.rescope : V!Listed(vals[k])
  BY <1>1, <1>2 DEF V!SendPatch
<1>4. q.op = "patch" /\ q.patch = p /\ q.read = vals /\ q.wants = w  BY <1>2
<1>5. vals \in [Keys -> MapEntries] /\ V!EditsKept  BY DEF VariablesInv
<1>6. /\ DOMAIN w = DOMAIN p.set \cup DOMAIN p.rescope \cup p.unset
      /\ \A k \in DOMAIN w :
           w[k] = IF k \in p.unset THEN V!Gone
                  ELSE IF k \in DOMAIN p.set THEN V!AsRow(p.set[k])
                  ELSE V!AsRow([scope |-> p.rescope[k],
                                value |-> IF due[k].env # None THEN due[k].env ELSE due[k].build])
  BY <1>1 DEF V!PatchWants
<1>7. \A k \in DOMAIN w : DOMAIN w[k] = V!Scoped
  <2>1. DOMAIN V!Gone = V!Scoped  BY DEF V!Gone, V!Scoped
  <2>2. \A r : DOMAIN V!AsRow(r) = V!Scoped  BY DEF V!AsRow, V!Scoped
  <2> QED  BY <1>6, <2>1, <2>2
<1>8. ASSUME NEW k \in Keys
      PROVE  /\ Written(q, k) \in MapEntries
             /\ k \notin lost => \A m \in V!Scoped :
                  Written(q, k)[m] = IF k \in DOMAIN w THEN w[k][m] ELSE vals[k][m]
  <2>1. vals[k] \in MapEntries /\ Written(q, k) = V!Patched(vals[k], k, p)
    BY <1>4, <1>5 DEF Written
  <2> DEFINE moved == [scope |-> p.rescope[k], value |-> V!RowOfEntry(vals[k]).value]
  <2>3. ASSUME k \in DOMAIN p.rescope, k \notin DOMAIN p.set
        PROVE  /\ moved \in V!Rows /\ V!Listed(vals[k])
               /\ k \notin lost => w[k] = IF k \in p.unset THEN V!Gone ELSE V!AsRow(moved)
    <3>1. V!Listed(vals[k])  BY <1>3, <2>3
    <3>2. V!RowOfEntry(vals[k]).value \in Values  BY <2>1, <3>1, RowPlacedAgain DEF V!Rows
    <3>3. moved \in V!Rows  BY <2>3, <3>2, PatchesAreFormed DEF V!Rows, FormedPatch
    <3>4. V!RowOfEntry(vals[k]).value = IF vals[k].env # None THEN vals[k].env ELSE vals[k].build
      BY DEF V!RowOfEntry
    <3>5. k \notin lost => due[k] = vals[k]  BY <1>5 DEF V!EditsKept
    <3> QED  BY <1>6, <2>3, <3>1, <3>3, <3>4, <3>5
  <2>4. ASSUME NEW x \in MapEntries, NEW y,
               Written(q, k) = IF k \in p.unset
                               THEN [x EXCEPT !.env = None, !.build = None] ELSE x,
               \A m \in V!Scoped : x[m] = y[m],
               k \notin lost => IF k \in DOMAIN w
                                THEN w[k] = IF k \in p.unset THEN V!Gone ELSE y
                                ELSE k \notin p.unset /\ y = vals[k]
        PROVE  /\ Written(q, k) \in MapEntries
               /\ k \notin lost => \A m \in V!Scoped :
                    Written(q, k)[m] = IF k \in DOMAIN w THEN w[k][m] ELSE vals[k][m]
    <3>1. PICK after : after = [x EXCEPT !.env = None, !.build = None]  OBVIOUS
    <3>2. after \in MapEntries /\ \A m \in V!Scoped : after[m] = V!Gone[m]
      BY <3>1, UnsetRow
    <3>3. CASE k \in p.unset  BY <2>4, <3>1, <3>2, <3>3
    <3>4. CASE k \notin p.unset  BY <2>4, <3>4
    <3> QED  BY <3>3, <3>4
  <2>5. CASE k \in DOMAIN p.set
    <3>1. k \notin DOMAIN p.rescope /\ p.set[k] \in V!Rows
      BY <2>5, PatchesAreFormed DEF FormedPatch
    <3>2. Written(q, k) = IF k \in p.unset
                          THEN [V!Placed(vals[k], p.set[k]) EXCEPT !.env = None, !.build = None]
                          ELSE V!Placed(vals[k], p.set[k])
      BY <2>1, <2>5, <3>1 DEF V!Patched
    <3>3. k \in DOMAIN w /\ w[k] = IF k \in p.unset THEN V!Gone ELSE V!AsRow(p.set[k])
      BY <1>6, <2>5
    <3>4. /\ V!Placed(vals[k], p.set[k]) \in MapEntries
          /\ \A m \in V!Scoped : V!Placed(vals[k], p.set[k])[m] = V!AsRow(p.set[k])[m]
      BY <2>1, <3>1, PlacedRow
    <3> QED  BY <2>4, <3>2, <3>3, <3>4
  <2>6. CASE k \notin DOMAIN p.set /\ k \in DOMAIN p.rescope
    <3>1. Written(q, k) = IF k \in p.unset
                          THEN [V!Placed(vals[k], moved) EXCEPT !.env = None, !.build = None]
                          ELSE V!Placed(vals[k], moved)
      BY <2>1, <2>3, <2>6 DEF V!Patched
    <3>2. k \in DOMAIN w  BY <1>6, <2>6
    <3> HIDE DEF moved
    <3>3. /\ moved \in V!Rows
          /\ k \notin lost => w[k] = IF k \in p.unset THEN V!Gone ELSE V!AsRow(moved)
      BY <2>3, <2>6
    <3>4. /\ V!Placed(vals[k], moved) \in MapEntries
          /\ \A m \in V!Scoped : V!Placed(vals[k], moved)[m] = V!AsRow(moved)[m]
      BY <2>1, <3>3, PlacedRow
    <3> QED  BY <2>4, <3>1, <3>2, <3>3, <3>4
  <2>7. CASE k \notin DOMAIN p.set /\ k \notin DOMAIN p.rescope
    <3>1. Written(q, k) = IF k \in p.unset
                          THEN [vals[k] EXCEPT !.env = None, !.build = None] ELSE vals[k]
      BY <2>1, <2>7 DEF V!Patched
    <3>2. /\ k \in DOMAIN w <=> k \in p.unset
          /\ k \in p.unset => w[k] = V!Gone
      BY <1>6, <2>7
    <3> QED  BY <2>1, <2>4, <3>1, <3>2
  <2> QED  BY <2>5, <2>6, <2>7
<1>9. MapsOf(q) = V!Scoped  BY <1>4 DEF MapsOf
<1>10. ReadsAndWrites(q)
  BY <1>4, <1>5, <1>7, <1>8, <1>9 DEF ReadsAndWrites
<1> QED  BY <1>3, <1>10, SendKeeps

\* A request that is refused goes.
LEMMA RefuseKeeps ==
  ASSUME VariablesInv, NEW e \in Editors, V!Refuse(e) PROVE VariablesInv'
<1>1. request' = [request EXCEPT ![e] = V!NoRequest] /\ UNCHANGED <<vals, panel, due, lost>>
  BY DEF V!Refuse
<1>2. request' = [d \in Editors |-> request'[d]]
      /\ \A d \in Editors : request'[d] = IF d = e THEN V!NoRequest ELSE request[d]
  BY <1>1 DEF VariablesInv
<1>3. panel' = [d \in Editors |-> panel'[d]] /\ \A d \in Editors : FormedPanel(panel'[d])
  BY <1>1 DEF VariablesInv, FormedPanel
<1> QED  BY <1>1, <1>2, <1>3, RequestsStay

\* The three requests that write what they made of their reading.
LEMMA AnswerKeeps ==
  ASSUME VariablesInv, NEW e \in Editors, V!Replace(e) \/ V!Patch(e) \/ V!MapPatch(e)
  PROVE  VariablesInv'
<1>1. PICK q : q = request[e]  OBVIOUS
<1>2. q.op \in {"replace", "patch", "map"}
  BY <1>1 DEF V!Replace, V!Patch, V!MapPatch
<1>3. ReadsAndWrites(q)
  BY <1>1, <1>2 DEF VariablesInv, ReplacesMap, V!NoRequest
<1>4. PICK after : after = [k \in Keys |-> Written(q, k)]  OBVIOUS
<1>5. V!Refuse(e) \/ ( /\ V!Write(e, MapsOf(q), after)
                       /\ panel' \in {panel, [panel EXCEPT ![e] = V!Locked]})
  <2>1. CASE V!Replace(e)
    <3>1. after = [k \in Keys |-> IF k \in DOMAIN q.rows
                                  THEN V!Placed(V!Unset, q.rows[k]) ELSE V!Unset]
          /\ MapsOf(q) = V!Scoped
      BY <1>1, <1>4, <2>1 DEF V!Replace, Written, MapsOf
    <3> QED  BY <1>1, <2>1, <3>1 DEF V!Replace
  <2>2. CASE V!Patch(e)
    <3>1. after = [k \in Keys |-> V!Patched(q.read[k], k, q.patch)] /\ MapsOf(q) = V!Scoped
      BY <1>1, <1>4, <2>2 DEF V!Patch, Written, MapsOf
    <3> QED  BY <1>1, <2>2, <3>1 DEF V!Patch
  <2>3. CASE V!MapPatch(e)
    <3>1. after = [k \in Keys |-> V!PatchedMap(q.read[k], k, q.map, q.patch)]
          /\ MapsOf(q) = {q.map}
      BY <1>1, <1>4, <2>3 DEF V!MapPatch, Written, MapsOf
    <3> QED  BY <1>1, <2>3, <3>1 DEF V!MapPatch
  <2> QED  BY <2>1, <2>2, <2>3
<1>6. /\ MapsOf(q) \subseteq V!Maps
      /\ \A k \in Keys, m \in MapsOf(q) : after[k][m] \in Values \cup {None}
  BY <1>3, <1>4 DEF MapsOf, V!Scoped, V!Maps, ReadsAndWrites, MapEntries
<1>7. q.read # None  BY <1>3, NoneAssumption DEF ReadsAndWrites, MapEntries, V!Maps
<1>8. \A k \in Keys \ lost, m \in MapsOf(q) :
        q.read = None \/ q.read[k][m] = vals[k][m] =>
          after[k][m] = IF k \in DOMAIN q.wants /\ m \in DOMAIN q.wants[k]
                        THEN q.wants[k][m] ELSE vals[k][m]
  BY <1>3, <1>4, <1>7 DEF ReadsAndWrites
<1>9. CASE panel' \in {panel, [panel EXCEPT ![e] = V!Locked]}
  <2>1. /\ panel' = [d \in Editors |-> panel'[d]]
        /\ \A d \in Editors : panel'[d] \in {panel[d], V!Locked}
    BY <1>9 DEF VariablesInv
  <2>2. \A d \in Editors : FormedPanel(panel'[d])
    BY <2>1 DEF VariablesInv, FormedPanel
  <2>3. \A k \in DOMAIN q.wants : DOMAIN q.wants[k] \subseteq MapsOf(q)
    BY <1>3 DEF ReadsAndWrites
  <2>4. PICK maps : maps = MapsOf(q)  OBVIOUS
  <2> QED
    BY <1>1, <1>5, <1>6, <1>8, <2>1, <2>2, <2>3, <2>4, WriteKeeps, RefuseKeeps
<1> QED  BY <1>5, <1>9, RefuseKeeps

\* A map is replaced: every key of it gets what was sent.
LEMMA MapReplaceKeeps ==
  ASSUME VariablesInv, NEW e \in Editors, V!MapReplace(e) PROVE VariablesInv'
<1>1. PICK q : q = request[e]  OBVIOUS
<1>2. ReplacesMap(q)
  BY <1>1 DEF V!MapReplace, VariablesInv, ReadsAndWrites, V!NoRequest
<1>3. PICK after : after = [k \in Keys |-> [vals[k] EXCEPT ![q.map] = q.to[k]]]  OBVIOUS
<1>4. V!Write(e, {q.map}, after) /\ panel' = panel  BY <1>1, <1>3 DEF V!MapReplace
<1>5. \A k \in Keys : after[k][q.map] = q.to[k]
  BY <1>2, <1>3 DEF ReplacesMap, VariablesInv, MapEntries
<1>6. panel' = [d \in Editors |-> panel'[d]] /\ \A d \in Editors : FormedPanel(panel'[d])
  BY <1>4 DEF VariablesInv, FormedPanel
<1>7. PICK maps : maps = {q.map}  OBVIOUS
<1>8. /\ maps \subseteq V!Maps
      /\ \A k \in Keys, m \in maps : after[k][m] \in Values \cup {None}
      /\ \A k \in DOMAIN q.wants : DOMAIN q.wants[k] \subseteq maps
  BY <1>2, <1>5, <1>7 DEF ReplacesMap
<1>9. \A k \in Keys, m \in maps :
        k \in DOMAIN q.wants /\ m \in DOMAIN q.wants[k] /\ q.wants[k][m] = after[k][m]
  BY <1>2, <1>5, <1>7 DEF ReplacesMap
<1> QED  BY <1>1, <1>4, <1>6, <1>7, <1>8, <1>9, WriteKeeps

\* What is done to a panel before anything is sent.
LEMMA PanelKeeps ==
  ASSUME VariablesInv, NEW e \in Editors,
         \/ V!Reveal(e) \/ V!Cancel(e)
         \/ \E k \in Keys, r \in V!Rows : V!EditRow(e, k, r)
  PROVE  VariablesInv'
<1>1. UNCHANGED <<vals, request, due, lost>>  BY DEF V!Reveal, V!Cancel, V!EditRow
<1>2. ASSUME NEW p, FormedPanel(p), panel' = [panel EXCEPT ![e] = p]
      PROVE  VariablesInv'
  <2>1. /\ panel' = [d \in Editors |-> panel'[d]]
        /\ \A d \in Editors : panel'[d] = IF d = e THEN p ELSE panel[d]
    BY <1>2 DEF VariablesInv
  <2>2. \A d \in Editors : FormedPanel(panel'[d])
    BY <1>2, <2>1 DEF VariablesInv
  <2>3. request' = [d \in Editors |-> request'[d]]
        /\ \A d \in Editors : request'[d] \in {request[d], V!NoRequest}
    BY <1>1 DEF VariablesInv
  <2> QED  BY <1>1, <2>1, <2>2, <2>3, RequestsStay
<1>3. CASE V!Reveal(e)
  <2>1. PICK list : list = [k \in Listing(vals) |-> V!RowOfEntry(vals[k])]  OBVIOUS
  <2>2. PICK p : p = [rows |-> list, seen |-> vals, shown |-> list]  OBVIOUS
  <2>3. panel' = [panel EXCEPT ![e] = p]
    BY <1>3, <2>1, <2>2 DEF V!Reveal, Listing
  <2>4. vals \in [Keys -> MapEntries]  BY DEF VariablesInv
  <2>5. \A k \in Listing(vals) : V!RowOfEntry(vals[k]) \in V!Rows
    BY <2>4, RowPlacedAgain DEF Listing
  <2>6. FormedPanel(p)  BY <2>1, <2>2, <2>4, <2>5 DEF FormedPanel
  <2> QED  BY <1>2, <2>3, <2>6
<1>4. CASE V!Cancel(e)
  <2>1. FormedPanel(V!Locked)  BY DEF FormedPanel
  <2> QED  BY <1>2, <1>4, <2>1 DEF V!Cancel
<1>5. ASSUME NEW k \in Keys, NEW r \in V!Rows, V!EditRow(e, k, r)
      PROVE  VariablesInv'
  <2>1. PICK p : p = panel[e]  OBVIOUS
  <2>2. p # V!Locked /\ FormedPanel(p) /\ k \in DOMAIN p.rows
        /\ panel' = [panel EXCEPT ![e].rows[k] = r]
    BY <1>5, <2>1 DEF V!EditRow, VariablesInv
  <2>3. PICK n : n = [rows |-> [p.rows EXCEPT ![k] = r], seen |-> p.seen, shown |-> p.shown]
    OBVIOUS
  <2>4. panel' = [panel EXCEPT ![e] = n]
    <3>1. p = [rows |-> p.rows, seen |-> p.seen, shown |-> p.shown]
      BY <2>2 DEF FormedPanel
    <3>2. [p EXCEPT !.rows = [p.rows EXCEPT ![k] = r]] = n  BY <2>3, <3>1
    <3> QED  BY <2>1, <2>2, <3>2
  <2>5. FormedPanel(n)  BY <2>2, <2>3 DEF FormedPanel
  <2> QED  BY <1>2, <2>4, <2>5
<1> QED  BY <1>3, <1>4, <1>5

\* Every step of Variables keeps the invariant.
LEMMA VariablesKeep == VariablesInv /\ [V!Next]_varVars => VariablesInv'
<1> SUFFICES ASSUME VariablesInv, [V!Next]_varVars PROVE VariablesInv'  OBVIOUS
<1>1. CASE UNCHANGED varVars
  <2>1. UNCHANGED <<vals, panel, request, due, lost>>  BY <1>1 DEF varVars
  <2>2. /\ request' = [d \in Editors |-> request'[d]]
        /\ \A d \in Editors : request'[d] \in {request[d], V!NoRequest}
        /\ panel' = [d \in Editors |-> panel'[d]]
        /\ \A d \in Editors : FormedPanel(panel'[d])
    BY <2>1 DEF VariablesInv, FormedPanel
  <2> QED  BY <2>1, <2>2, RequestsStay
<1>2. ASSUME NEW e \in Editors, NEW map \in V!Maps, NEW k \in Keys, NEW v \in Values \cup {None},
             V!SendMapReplace(e, map, [x \in Keys |-> IF x = k THEN v ELSE None])
      PROVE  VariablesInv'
  <2>1. PICK to : to = [x \in Keys |-> IF x = k THEN v ELSE None]  OBVIOUS
  <2>2. to \in [Keys -> Values \cup {None}]  BY <2>1
  <2> QED  BY <1>2, <2>1, <2>2, SendMapReplaceKeeps
<1>3. CASE V!Next
  BY <1>2, <1>3, SendPatchKeeps, SendMapPatchKeeps, SendReplaceKeeps, AnswerKeeps,
     MapReplaceKeeps, PanelKeeps DEF V!Next
<1> QED  BY <1>1, <1>3

\* What Variables keeps in every behaviour that follows it.
LEMMA VariablesInvariant == ConfigurationSpec => []VariablesPart
<1>1. ConfigurationInit => VariablesPart
  BY VariablesBegin DEF ConfigurationInit, VariablesPart
<1>2. VariablesPart /\ [ConfigurationNext]_allVars => VariablesPart'
  <2> SUFFICES ASSUME VariablesPart, [ConfigurationNext]_allVars, part' = "variables"
               PROVE  VariablesInv'
    BY DEF VariablesPart
  <2>1. part = "variables" /\ [V!Next]_varVars
    BY DEF ConfigurationNext, allVars, varVars
  <2> QED  BY <2>1, VariablesKeep DEF VariablesPart
<1> QED  BY <1>1, <1>2, PTL DEF ConfigurationSpec

\* Whatever the keys, values, editors and bounds: a key that no request overwrote unseen has
\* what the requests that named it asked for last (variables.ts, variable-store.ts).
THEOREM ConfigurationEdits == ConfigurationSpec => []EditsKept
<1>1. VariablesPart => EditsKept  BY DEF VariablesPart, VariablesInv, EditsKept
<1> QED  BY <1>1, VariablesInvariant, PTL

-----------------------------------------------------------------------------
(***************************************************************************)
(* Dns.                                                                    *)
(***************************************************************************)
ZoneRecords == [a : SUBSET N!Addresses, cname : N!Addresses \cup {None}, proxied : BOOLEAN]

\* An address has no records beside a CNAME, and the zone above has nameservers.
NetFormed ==
  /\ net = [recs |-> net.recs, ns |-> net.ns, configured |-> net.configured,
            base |-> net.base, wildcard |-> net.wildcard]
  /\ net.recs \in [N!Places -> ZoneRecords]
  /\ net.ns \in [N!Zones -> Providers \cup {None}] /\ net.ns["apex"] \in Providers
  /\ {net.configured, net.base, net.wildcard} \subseteq N!Addresses \cup {None}
  /\ \A at \in N!Places : net.recs[at].cname # None => net.recs[at].a = {}

\* What resolvers remember of the base domain and of the nameservers was in force.
MemoFormed ==
  memo.base \subseteq N!Addresses \cup {None} /\ memo.at \subseteq N!Places

\* While the record in force is the one Sohwe wrote, it is the one a check expects, and a
\* check that began on it expects it.
DnsInv ==
  /\ NetFormed /\ MemoFormed
  /\ dnsLog = [edits |-> dnsLog.edits, requests |-> dnsLog.requests, written |-> dnsLog.written]
  /\ dnsLog.written \in BOOLEAN
  /\ dnsLog.written => N!ExpectedIp \in net.recs[N!Authority].a
  /\ check # N!NoTask =>
       /\ check = [pc |-> "resolve", expected |-> check.expected, since |-> check.since]
       /\ check.since \in BOOLEAN
       /\ check.since => check.expected = N!ExpectedIp
  /\ apply.pc # "idle" => apply.at \in N!Places /\ apply.ip \in N!Addresses
  /\ row.ours \in BOOLEAN /\ N!AppliedRecordVerifies

DnsPart == part = "dns" => DnsInv

\* What is expected of a check is an address of this server or of another one.
LEMMA ExpectedAddress ==
  ASSUME NetFormed, NEW b \in N!Addresses \cup {None}, NEW w \in N!Addresses \cup {None}
  PROVE  N!Expected(b, w) \in N!Addresses \cup {None}
BY DEF NetFormed, N!Expected

\* The hostname is answered for by a zone of a provider.
LEMMA AuthorityPlace == ASSUME NetFormed PROVE N!Authority \in N!Places
<1>1. net.ns["sub"] \in Providers \cup {None} /\ net.ns["apex"] \in Providers
  BY DEF NetFormed, N!Zones
<1> QED  BY <1>1 DEF N!Authority, N!Places, N!Zones

\* Nothing is written and no check is under way.
LEMMA DnsBegins == N!Init => DnsInv
<1> SUFFICES ASSUME N!Init PROVE DnsInv  OBVIOUS
<1>1. PICK configured \in N!Addresses \cup {None}, base \in N!Addresses \cup {None},
           wildcard \in N!Addresses \cup {None}, p \in Providers :
        net = [recs |-> [at \in N!Places |-> N!NoRecords],
               ns |-> [z \in N!Zones |-> IF z = "apex" THEN p ELSE None],
               configured |-> configured, base |-> base, wildcard |-> wildcard]
  BY DEF N!Init
<1>2. N!NoRecords \in ZoneRecords /\ N!NoRecords.a = {}  BY DEF N!NoRecords, ZoneRecords
<1>3. [z \in N!Zones |-> IF z = "apex" THEN p ELSE None] \in [N!Zones -> Providers \cup {None}]
  OBVIOUS
<1>4. NetFormed  BY <1>1, <1>2, <1>3 DEF NetFormed, N!Zones
<1>5. MemoFormed  BY DEF N!Init, MemoFormed
<1>6. DnsInv  BY <1>4, <1>5 DEF N!Init, DnsInv, N!NoTask, N!AppliedRecordVerifies
<1> QED  BY <1>6

\* What was in force is remembered.
LEMMA RememberKeeps == ASSUME NetFormed, MemoFormed, N!Remember PROVE MemoFormed'
<1>1. memo'.base = memo.base \cup {net.base} /\ memo'.at = memo.at \cup {N!Authority}
  BY DEF N!Remember
<1>2. net.base \in N!Addresses \cup {None}  BY DEF NetFormed
<1> QED  BY <1>1, <1>2, AuthorityPlace DEF MemoFormed

\* An edit of the operator: what is in force, or expected, is no longer what was written.
LEMMA OperatorKeeps ==
  ASSUME DnsInv, NEW n, N!Operator(n),
         NetFormed'
  PROVE  DnsInv'
<1>1. /\ UNCHANGED <<token, apply, row>>
      /\ dnsLog' = [edits |-> dnsLog.edits + 1, requests |-> dnsLog.requests, written |-> FALSE]
      /\ check' = IF check = N!NoTask THEN check ELSE [check EXCEPT !.since = FALSE]
  <2>1. PICK e, r, w : e = dnsLog.edits /\ r = dnsLog.requests /\ w = dnsLog.written  OBVIOUS
  <2>2. dnsLog = [edits |-> e, requests |-> r, written |-> w]  BY <2>1 DEF DnsInv
  <2>3. dnsLog' = [dnsLog EXCEPT !.edits = e + 1, !.written = FALSE]
    BY <2>1 DEF N!Operator, N!Edited
  <2>4. dnsLog' = [edits |-> e + 1, requests |-> r, written |-> FALSE]  BY <2>2, <2>3
  <2> QED  BY <2>1, <2>4 DEF N!Operator
<1>2. check' # N!NoTask =>
        /\ check' = [pc |-> "resolve", expected |-> check'.expected, since |-> check'.since]
        /\ check'.since = FALSE
  <2> SUFFICES ASSUME check # N!NoTask
               PROVE  /\ check' = [pc |-> "resolve", expected |-> check'.expected,
                                   since |-> check'.since]
                      /\ check'.since = FALSE
    BY <1>1
  <2>1. PICK e, w : e = check.expected /\ w = check.since  OBVIOUS
  <2>2. check = [pc |-> "resolve", expected |-> e, since |-> w]  BY <2>1 DEF DnsInv
  <2>3. check' = [pc |-> "resolve", expected |-> e, since |-> FALSE]  BY <1>1, <2>2
  <2> QED  BY <2>3
<1>3. MemoFormed'  BY RememberKeeps DEF DnsInv, N!Operator
<1> QED  BY <1>1, <1>2, <1>3 DEF DnsInv, N!AppliedRecordVerifies, N!NoTask

\* The three edits leave the records formed.
LEMMA OperatorStepsKeep ==
  ASSUME DnsInv, (\E at \in N!Places : N!EditRecords(at)) \/ N!Delegate \/ N!Repoint
  PROVE  DnsInv'
<1>0. NetFormed  BY DEF DnsInv
<1>1. ASSUME NEW at \in N!Places, N!EditRecords(at) PROVE DnsInv'
  <2>1. PICK a \in SUBSET {Here, Other}, c \in {None, Other}, p \in BOOLEAN :
          /\ c # None => a = {} /\ ~p
          /\ N!Operator([net EXCEPT !.recs[at] = [a |-> a, cname |-> c, proxied |-> p]])
    BY <1>1 DEF N!EditRecords
  <2>2. PICK r : r = [a |-> a, cname |-> c, proxied |-> p]  OBVIOUS
  <2>3. r \in ZoneRecords /\ (r.cname # None => r.a = {})
    BY <2>1, <2>2 DEF ZoneRecords, N!Addresses
  <2>4. N!Operator([net EXCEPT !.recs[at] = r])  BY <2>1, <2>2
  <2>5. net' = [net EXCEPT !.recs[at] = r]  BY <2>4 DEF N!Operator
  <2>6. /\ net' = [recs |-> net'.recs, ns |-> net'.ns,
                   configured |-> net'.configured, base |-> net'.base,
                   wildcard |-> net'.wildcard]
        /\ net'.recs = [net.recs EXCEPT ![at] = r]
        /\ net'.configured = net.configured /\ net'.base = net.base
        /\ net'.wildcard = net.wildcard /\ net'.ns = net.ns
    BY <1>0, <2>5 DEF NetFormed
  <2>7. NetFormed'  BY <1>0, <2>3, <2>6 DEF NetFormed
  <2> QED  BY <2>4, <2>7, OperatorKeeps
<1>2. CASE N!Delegate
  <2>1. PICK z \in N!Zones, p \in Providers \cup {None} :
          (z = "apex" => p \in Providers) /\ N!Operator([net EXCEPT !.ns[z] = p])
    BY <1>2 DEF N!Delegate, N!Zones
  <2>2. net' = [net EXCEPT !.ns[z] = p]  BY <2>1 DEF N!Operator
  <2>3. /\ net' = [recs |-> net'.recs, ns |-> net'.ns,
                   configured |-> net'.configured, base |-> net'.base,
                   wildcard |-> net'.wildcard]
        /\ net'.ns = [net.ns EXCEPT ![z] = p] /\ net'.recs = net.recs
        /\ net'.configured = net.configured /\ net'.base = net.base
        /\ net'.wildcard = net.wildcard
    BY <1>0, <2>2 DEF NetFormed
  <2>4. net'.ns \in [N!Zones -> Providers \cup {None}] /\ net'.ns["apex"] \in Providers
    BY <1>0, <2>1, <2>3 DEF NetFormed
  <2>5. NetFormed'  BY <1>0, <2>3, <2>4 DEF NetFormed
  <2> QED  BY <2>1, <2>5, OperatorKeeps
<1>3. CASE N!Repoint
  <2>1. PICK b \in N!Addresses \cup {None} : N!Operator([net EXCEPT !.base = b])
    BY <1>3 DEF N!Repoint
  <2>2. net' = [net EXCEPT !.base = b]  BY <2>1 DEF N!Operator
  <2>3. NetFormed'  BY <1>0, <2>2 DEF NetFormed
  <2> QED  BY <2>1, <2>3, OperatorKeeps
<1> QED  BY <1>1, <1>2, <1>3

\* What a request or a check leaves alone.
LEMMA SameNet ==
  ASSUME UNCHANGED net PROVE N!ExpectedIp' = N!ExpectedIp /\ N!Authority' = N!Authority
BY DEF N!ExpectedIp, N!Expected, N!Authority

\* A request is counted.
LEMMA RequestCounted ==
  ASSUME DnsInv, N!Requested
  PROVE  /\ dnsLog' = [edits |-> dnsLog'.edits, requests |-> dnsLog'.requests,
                       written |-> dnsLog'.written]
         /\ dnsLog'.written = dnsLog.written
<1>1. PICK e, r, w : e = dnsLog.edits /\ r = dnsLog.requests /\ w = dnsLog.written  OBVIOUS
<1>2. dnsLog = [edits |-> e, requests |-> r, written |-> w]  BY <1>1 DEF DnsInv
<1>3. dnsLog' = [dnsLog EXCEPT !.requests = r + 1]  BY <1>1 DEF N!Requested
<1>4. dnsLog' = [edits |-> e, requests |-> r + 1, written |-> w]  BY <1>2, <1>3
<1> QED  BY <1>1, <1>4

\* A check that begins on the record Sohwe wrote expects its address.
LEMMA StartCheckKeeps == ASSUME DnsInv, N!StartCheck PROVE DnsInv'
<1>1. UNCHANGED <<net, memo, token, apply, row>> /\ N!Requested  BY DEF N!StartCheck
<1>2. PICK ip, w : /\ check' = [pc |-> "resolve", expected |-> ip, since |-> w]
                   /\ w \in BOOLEAN /\ (w => ip = N!ExpectedIp)
  <2>1. PICK ip : check' = [pc |-> "resolve", expected |-> ip,
                            since |-> dnsLog.written /\ ip = N!ExpectedIp]
    BY DEF N!StartCheck
  <2>2. PICK w : w = (dnsLog.written /\ ip = N!ExpectedIp)  OBVIOUS
  <2> QED  BY <2>1, <2>2
<1>3. N!ExpectedIp' = N!ExpectedIp /\ N!Authority' = N!Authority  BY <1>1, SameNet
<1> QED
  BY <1>1, <1>2, <1>3, RequestCounted
     DEF DnsInv, NetFormed, MemoFormed, N!AppliedRecordVerifies

\* A check that began on the record and ends on it finds its address, or the proxy before it.
LEMMA RecordCheckKeeps == ASSUME DnsInv, N!RecordCheck PROVE DnsInv'
<1>1. UNCHANGED <<net, memo, token, apply, dnsLog>> /\ check # N!NoTask /\ check' = N!NoTask
  BY DEF N!RecordCheck
<1>2. PICK found : /\ row'.status = N!InspectStatus(check.expected, found)
                   /\ row'.ours = (check.since /\ dnsLog.written /\ found = N!Answers)
  BY DEF N!RecordCheck
<1>3. N!ExpectedIp' = N!ExpectedIp /\ N!Authority' = N!Authority  BY <1>1, SameNet
<1>4. ASSUME row'.ours PROVE row'.status \in {"verified", "proxied"}
  <2>1. PICK r : r = net.recs[N!Authority]  OBVIOUS
  <2>2. N!Authority \in N!Places  BY AuthorityPlace DEF DnsInv
  <2>3. check.expected \in r.a /\ found = N!Answers
    BY <1>1, <1>2, <1>4, <2>1 DEF DnsInv
  <2>4. r.cname = None  BY <2>1, <2>2, <2>3 DEF DnsInv, NetFormed
  <2>5. N!Answers = IF r.proxied THEN {Edge} ELSE r.a
    BY <2>1, <2>3, <2>4 DEF N!Answers
  <2>6. ASSUME NEW answers, answers = {Edge} \/ answers = r.a
        PROVE  N!InspectStatus(check.expected, answers) \in {"verified", "proxied"}
    <3>1. answers # {}  BY <2>3, <2>6
    <3>2. CASE check.expected \in answers  BY <3>1, <3>2 DEF N!InspectStatus
    <3>3. CASE check.expected \notin answers
      <4>1. answers = {Edge}  BY <2>3, <2>6, <3>3
      <4> QED  BY <3>1, <3>3, <4>1 DEF N!InspectStatus
    <3> QED  BY <3>2, <3>3
  <2> QED  BY <1>2, <2>3, <2>5, <2>6
<1>5. row'.ours \in BOOLEAN  BY <1>1, <1>2 DEF DnsInv
<1> QED  BY <1>1, <1>3, <1>4, <1>5 DEF DnsInv, NetFormed, MemoFormed, N!AppliedRecordVerifies

\* A request for a record is for an address expected, in a zone of the provider found.
LEMMA ApplyKeeps ==
  ASSUME DnsInv,
         \/ N!StartApply \/ N!ListRecords \/ N!ApplyFails
         \/ \E p \in Providers, zones \in SUBSET N!Zones : N!SetCredential(p, zones)
  PROVE  DnsInv'
<1>1. UNCHANGED <<net, memo, check, row>>
  BY DEF N!StartApply, N!ListRecords, N!ApplyFails, N!SetCredential
<1>2. /\ dnsLog' = [edits |-> dnsLog'.edits, requests |-> dnsLog'.requests,
                    written |-> dnsLog'.written]
      /\ dnsLog'.written = dnsLog.written
  <2>1. CASE N!StartApply  BY <2>1, RequestCounted DEF N!StartApply
  <2>2. CASE dnsLog' = dnsLog  BY <2>2 DEF DnsInv
  <2>3. CASE \E p \in Providers, zones \in SUBSET N!Zones : N!SetCredential(p, zones)
    <3>1. PICK e, r, w : e = dnsLog.edits /\ r = dnsLog.requests /\ w = dnsLog.written  OBVIOUS
    <3>2. dnsLog = [edits |-> e, requests |-> r, written |-> w]  BY <3>1 DEF DnsInv
    <3>3. dnsLog' = [dnsLog EXCEPT !.edits = e + 1, !.written = w]
      BY <2>3, <3>1 DEF N!SetCredential, N!Edited
    <3>4. dnsLog' = [edits |-> e + 1, requests |-> r, written |-> w]  BY <3>2, <3>3
    <3> QED  BY <3>1, <3>4
  <2> QED  BY <2>1, <2>2, <2>3 DEF N!ListRecords, N!ApplyFails
<1>3. N!ExpectedIp' = N!ExpectedIp /\ N!Authority' = N!Authority  BY <1>1, SameNet
<1>4. apply'.pc # "idle" => apply'.at \in N!Places /\ apply'.ip \in N!Addresses
  <2>1. CASE N!StartApply
    <3>1. PICK ip \in N!ExpectedIps \ {None}, at \in N!FoundAt :
            apply' = [pc |-> "list", ip |-> ip, at |-> <<at[1], N!FindZone(token[at[1]])>>]
      BY <2>1 DEF N!StartApply
    <3>2. N!ExpectedIps \subseteq N!Addresses \cup {None}
      <4>1. /\ {net.base, None} \cup memo.base \subseteq N!Addresses \cup {None}
            /\ {net.wildcard, None} \subseteq N!Addresses \cup {None}
        BY DEF DnsInv, NetFormed, MemoFormed
      <4> QED  BY <4>1, ExpectedAddress DEF N!ExpectedIps, DnsInv
    <3>3. at \in N!Places
      <4>1. <<net.ns["apex"], "apex">> \in N!Places
        BY DEF DnsInv, NetFormed, N!Places, N!Zones
      <4> QED  BY <4>1, AuthorityPlace DEF N!FoundAt, DnsInv, MemoFormed
    <3>4. N!FindZone(token[at[1]]) \in N!Zones  BY DEF N!FindZone, N!Zones
    <3> QED  BY <3>1, <3>2, <3>3, <3>4 DEF N!Places
  <2>2. CASE N!ListRecords
    BY <2>2 DEF DnsInv, N!ListRecords, N!NoTask
  <2>3. CASE N!ApplyFails
    BY <2>3 DEF N!ApplyFails, N!NoTask
  <2>4. CASE \E p \in Providers, zones \in SUBSET N!Zones : N!SetCredential(p, zones)
    BY <2>4 DEF DnsInv, N!SetCredential
  <2> QED  BY <2>1, <2>2, <2>3, <2>4
<1> QED  BY <1>1, <1>2, <1>3, <1>4 DEF DnsInv, NetFormed, MemoFormed, N!AppliedRecordVerifies

\* The record that is written is in force if its zone answers.
LEMMA WriteRecordKeeps == ASSUME DnsInv, N!WriteRecord PROVE DnsInv'
<1>1. UNCHANGED <<token, check, row>> /\ apply.pc = "write" /\ apply' = N!NoTask
  BY DEF N!WriteRecord
<1>2. PICK z, ip : z = apply.at /\ ip = apply.ip  OBVIOUS
<1>3. z \in N!Places /\ ip \in N!Addresses  BY <1>1, <1>2 DEF DnsInv
<1>4. PICK r : r = net.recs[z]  OBVIOUS
<1>5. r \in ZoneRecords /\ (r.cname # None => r.a = {})  BY <1>3, <1>4 DEF DnsInv, NetFormed
<1>6. PICK a \in SUBSET N!Addresses :
        ip \in a /\ r.cname = None /\ net' = [net EXCEPT !.recs[z].a = a]
  <2>1. CASE apply.existing = {}
    <3>1. r.cname = None /\ net' = [net EXCEPT !.recs[z].a = r.a \cup {ip}]
      BY <1>2, <1>4, <2>1 DEF N!WriteRecord
    <3>2. r.a \cup {ip} \in SUBSET N!Addresses  BY <1>3, <1>5 DEF ZoneRecords
    <3> QED  BY <3>1, <3>2
  <2>2. CASE apply.existing # {}
    <3>1. \E old \in r.a : net' = [net EXCEPT !.recs[z].a = (r.a \ {old}) \cup {ip}]
      BY <1>2, <1>4, <2>2 DEF N!WriteRecord
    <3>2. \A old : (r.a \ {old}) \cup {ip} \in SUBSET N!Addresses
      BY <1>3, <1>5 DEF ZoneRecords
    <3>3. r.a # {} => r.cname = None  BY <1>5
    <3> QED  BY <3>1, <3>2, <3>3
  <2> QED  BY <2>1, <2>2
<1>7. dnsLog' = [dnsLog EXCEPT !.written = z = N!Authority /\ ip = N!ExpectedIp]
  BY <1>2 DEF N!WriteRecord
<1>8. PICK q : q = [r EXCEPT !.a = a]  OBVIOUS
<1>9. q \in ZoneRecords /\ q.a = a /\ q.cname = None  BY <1>5, <1>6, <1>8 DEF ZoneRecords
<1>10. net' = [net EXCEPT !.recs = [net.recs EXCEPT ![z] = q]]
  BY <1>4, <1>6, <1>8 DEF DnsInv, NetFormed
<1>11. /\ net' = [recs |-> net'.recs, ns |-> net'.ns,
                  configured |-> net'.configured, base |-> net'.base,
                  wildcard |-> net'.wildcard]
       /\ net'.recs = [net.recs EXCEPT ![z] = q]
       /\ net'.configured = net.configured /\ net'.base = net.base
       /\ net'.wildcard = net.wildcard /\ net'.ns = net.ns
  BY <1>10 DEF DnsInv, NetFormed
<1>12. NetFormed'  BY <1>3, <1>9, <1>11 DEF DnsInv, NetFormed
<1>13. N!ExpectedIp' = N!ExpectedIp /\ N!Authority' = N!Authority
  BY <1>11 DEF N!ExpectedIp, N!Expected, N!Authority
<1>14. PICK w : w = (z = N!Authority /\ ip = N!ExpectedIp)  OBVIOUS
<1>15. /\ dnsLog' = [edits |-> dnsLog'.edits, requests |-> dnsLog'.requests,
                     written |-> dnsLog'.written]
       /\ dnsLog'.written = w
  <2>1. PICK e, k, v : e = dnsLog.edits /\ k = dnsLog.requests /\ v = dnsLog.written  OBVIOUS
  <2>2. dnsLog = [edits |-> e, requests |-> k, written |-> v]  BY <2>1 DEF DnsInv
  <2>3. dnsLog' = [dnsLog EXCEPT !.written = w]  BY <1>7, <1>14
  <2>4. dnsLog' = [edits |-> e, requests |-> k, written |-> w]  BY <2>2, <2>3
  <2> QED  BY <2>4
<1>16. w \in BOOLEAN  BY <1>14
<1>17. w => N!ExpectedIp' \in net'.recs[N!Authority'].a
  <2>1. net'.recs[z].a = a  BY <1>3, <1>9, <1>11 DEF DnsInv, NetFormed
  <2> QED  BY <1>6, <1>13, <1>14, <2>1
<1>18. MemoFormed'  BY RememberKeeps DEF DnsInv, N!WriteRecord
<1> QED
  BY <1>1, <1>12, <1>13, <1>15, <1>16, <1>17, <1>18
     DEF DnsInv, N!AppliedRecordVerifies, N!NoTask

\* Every step of Dns keeps the invariant.
LEMMA DnsKeeps == DnsInv /\ [N!Next]_dnsVars => DnsInv'
<1> SUFFICES ASSUME DnsInv, [N!Next]_dnsVars PROVE DnsInv'  OBVIOUS
<1>1. CASE UNCHANGED dnsVars
  <2>1. N!ExpectedIp' = N!ExpectedIp /\ N!Authority' = N!Authority
    BY <1>1, SameNet DEF dnsVars
  <2> QED  BY <1>1, <2>1 DEF dnsVars, DnsInv, NetFormed, MemoFormed, N!AppliedRecordVerifies
<1>2. CASE N!Next
  BY <1>2, OperatorStepsKeep, StartCheckKeeps, RecordCheckKeeps, ApplyKeeps, WriteRecordKeeps
     DEF N!Next
<1> QED  BY <1>1, <1>2

\* What Dns keeps in every behaviour that follows it.
LEMMA DnsInvariant == ConfigurationSpec => []DnsPart
<1>1. ConfigurationInit => DnsPart
  BY DnsBegins DEF ConfigurationInit, DnsPart
<1>2. DnsPart /\ [ConfigurationNext]_allVars => DnsPart'
  <2> SUFFICES ASSUME DnsPart, [ConfigurationNext]_allVars, part' = "dns" PROVE DnsInv'
    BY DEF DnsPart
  <2>1. part = "dns" /\ [N!Next]_dnsVars
    BY DEF ConfigurationNext, allVars, dnsVars
  <2> QED  BY <2>1, DnsKeeps DEF DnsPart
<1> QED  BY <1>1, <1>2, PTL DEF ConfigurationSpec

\* Whatever the addresses, providers and bounds: a check that began on the record Sohwe wrote,
\* ends before anything changed and whose lookups are answered with what is in force finds the
\* record or a proxy in front of it (domains.ts, dns/). Lookups that fail, or are answered with
\* what was in force earlier, are steps of the model; of what they find nothing is said.
THEOREM ConfigurationRecords == ConfigurationSpec => []AppliedRecordVerifies
<1>1. DnsPart => AppliedRecordVerifies  BY DEF DnsPart, DnsInv, AppliedRecordVerifies
<1> QED  BY <1>1, DnsInvariant, PTL

-----------------------------------------------------------------------------
(***************************************************************************)
(* ServiceLog.                                                             *)
(***************************************************************************)
LineRows == [id : Nat, src : Sources, line : Nat \ {0}]

\* Ids that were drawn, each for one row, whether it is still in the table or not.
RowsDrawn ==
  /\ L!Ever \subseteq LineRows /\ IsFiniteSet(table)
  /\ None \notin L!Ever /\ serial \in Nat
  /\ \A r \in L!Ever : r.id <= serial
  /\ \A r, q \in L!Ever : r.id = q.id => r = q
  /\ \A c \in Sources : storing[c] # None =>
       /\ storing[c] \in LineRows
       /\ storing[c].src = c /\ storing[c].id <= serial
       /\ \A r \in L!Ever : r.id = storing[c].id => r = storing[c]
       /\ \A d \in Sources : storing[d] # None /\ storing[d].id = storing[c].id => d = c

\* For a container whose tail reads line t next, on which the lines q wait and the row s is
\* being stored: the lines are successive, and the tail reads the one after them.
InOrder(t, q, s) ==
  /\ q \in Seq(Nat \ {0}) /\ t \in Nat
  /\ \A i \in 1..Len(q) - 1 : q[i + 1] = q[i] + 1
  /\ t # 0 /\ q # <<>> => t = q[Len(q)] + 1
  /\ s # None => q # <<>> /\ s.line = Head(q)

\* A row that is being inserted comes after all that the container ever had; one whose
\* persist is further was stored.
Staged(s, g, E) ==
  /\ s = None => g = "insert"
  /\ s # None => IF g = "insert" THEN \A r \in E : r.id < s.id ELSE s \in E

\* The lines ever stored are the first ones, and the next to be stored is one of them or
\* comes right after them.
NoGap(t, q, E) ==
  \E n \in Nat : /\ {r.line : r \in E} = 1..n
                 /\ q # <<>> => Head(q) <= n + 1
                 /\ q = <<>> => t <= n + 1

\* They are in the order of the ids, and what is being inserted is later than all.
Ordered(s, g, E) ==
  /\ \A r, p \in E : r.id < p.id => r.line < p.line
  /\ s # None /\ g = "insert" => \A r \in E : r.line < s.line

\* What was removed is older than what is left.
Older(E, K) == \A r \in E \ K, p \in K : r.id < p.id

\* All this of one container, where the containers X lost a line and those of A read one again.
Whole(c, t, q, s, g, E, K, X, A) ==
  /\ InOrder(t, q, s) /\ Staged(s, g, E) /\ Older(E, K)
  /\ c \in X \/ NoGap(t, q, E)
  /\ c \in X \cup A \/ Ordered(s, g, E)

Contained(c) ==
  Whole(c, tail[c], chain[c], storing[c], stage[c], L!EverOf(c), L!RowsOf(c),
        slog.dropped, slog.again)

\* The variables of ServiceLog are functions and records.
ContainersShape ==
  /\ tail = [c \in Sources |-> tail[c]] /\ chain = [c \in Sources |-> chain[c]]
  /\ storing = [c \in Sources |-> storing[c]] /\ stage = [c \in Sources |-> stage[c]]

SlogShape ==
  slog = [crashes |-> slog.crashes, faults |-> slog.faults, dropped |-> slog.dropped,
          silent |-> slog.silent, pruned |-> slog.pruned, again |-> slog.again,
          cut |-> slog.cut, started |-> slog.started]

PageShape ==
  /\ page = [shown |-> page.shown, cursor |-> page.cursor, open |-> page.open]
  /\ stream = [at |-> stream.at, after |-> stream.after, kept |-> stream.kept,
               seen |-> stream.seen]

LogShape == ContainersShape /\ SlogShape /\ PageShape

\* What the handler holds are rows that were stored, what it sent is shown, and nothing was
\* sent before the replay.
Handed ==
  /\ channel \in Seq(L!Ever) /\ stream.kept \in Seq(L!Ever)
  /\ stream.at \in {"off", "subscribed", "live"}
  /\ stream.at # "live" => stream.seen = {}
  /\ stream.at # "off" => page.open
  /\ \A i \in stream.seen : \E q \in L!Ever \cap page.shown : q.id = i

LogInv ==
  /\ LogShape /\ RowsDrawn
  /\ \A c \in Sources : Contained(c)
  /\ Handed /\ L!HandoffWithoutGap

LogPart == part = "logs" => LogInv

-----------------------------------------------------------------------------
\* The lines that wait, without the first.
LEMMA NextLine ==
  ASSUME NEW q \in Seq(Nat \ {0}), q # <<>>, \A i \in 1..Len(q) - 1 : q[i + 1] = q[i] + 1
  PROVE  /\ Head(q) \in Nat \ {0} /\ Tail(q) \in Seq(Nat \ {0})
         /\ \A i \in 1..Len(Tail(q)) - 1 : Tail(q)[i + 1] = Tail(q)[i] + 1
         /\ Tail(q) # <<>> => Head(Tail(q)) = Head(q) + 1 /\ Tail(q)[Len(Tail(q))] = q[Len(q)]
         /\ Tail(q) = <<>> => q[Len(q)] = Head(q)
<1>1. Head(q) = q[1] /\ Head(q) \in Nat \ {0} /\ Tail(q) \in Seq(Nat \ {0})  OBVIOUS
<1>2. Len(Tail(q)) = Len(q) - 1 /\ \A i \in 1..Len(Tail(q)) : Tail(q)[i] = q[i + 1]
  OBVIOUS
<1>3. \A i \in 1..Len(Tail(q)) - 1 : Tail(q)[i + 1] = Tail(q)[i] + 1
  BY <1>2
<1>4. Tail(q) # <<>> => Head(Tail(q)) = Head(q) + 1 /\ Tail(q)[Len(Tail(q))] = q[Len(q)]
  BY <1>1, <1>2
<1>5. Tail(q) = <<>> => q[Len(q)] = Head(q)
  <2>1. PICK r : r = Tail(q)  OBVIOUS
  <2>2. Len(r) = Len(q) - 1 /\ Len(q) \in Nat  BY <1>2, <2>1
  <2>3. r = <<>> => Len(r) = 0  OBVIOUS
  <2>4. Tail(q) = <<>> => Len(q) = 1  BY <2>1, <2>2, <2>3
  <2> QED  BY <1>1, <2>4
<1> QED  BY <1>1, <1>3, <1>4, <1>5

\* Tailing reads a line.
LEMMA ReadLine ==
  ASSUME NEW t, NEW q, NEW s, NEW E, InOrder(t, q, s), t # 0
  PROVE  /\ InOrder(t + 1, Append(q, t), s)
         /\ NoGap(t, q, E) => NoGap(t + 1, Append(q, t), E)
<1>1. q \in Seq(Nat \ {0}) /\ t \in Nat \ {0}  BY DEF InOrder
<1>2. /\ Append(q, t) \in Seq(Nat \ {0}) /\ Append(q, t) # <<>>
      /\ Len(Append(q, t)) = Len(q) + 1 /\ Append(q, t)[Len(q) + 1] = t
      /\ \A i \in 1..Len(q) : Append(q, t)[i] = q[i]
      /\ Head(Append(q, t)) = IF q = <<>> THEN t ELSE Head(q)
  <2>1. PICK p : p = Append(q, t)  OBVIOUS
  <2>2. /\ p \in Seq(Nat \ {0}) /\ Len(p) = Len(q) + 1 /\ p[Len(q) + 1] = t
        /\ \A i \in 1..Len(q) : p[i] = q[i]
    BY <1>1, <2>1
  <2>3. Len(q) \in Nat /\ (q = <<>> <=> Len(q) = 0)  BY <1>1
  <2>4. p # <<>> /\ Head(p) = p[1]  BY <2>2, <2>3
  <2>5. q # <<>> => Head(q) = q[1] /\ 1 \in 1..Len(q)  BY <1>1, <2>3
  <2> QED  BY <2>1, <2>2, <2>3, <2>4, <2>5
<1>3. \A i \in 1..Len(q) : Append(q, t)[i + 1] = Append(q, t)[i] + 1
  <2> SUFFICES ASSUME NEW i \in 1..Len(q) PROVE Append(q, t)[i + 1] = Append(q, t)[i] + 1
    OBVIOUS
  <2>1. CASE i = Len(q)
    BY <1>1, <1>2, <2>1 DEF InOrder
  <2>2. CASE i # Len(q)
    <3>1. i \in 1..Len(q) - 1 /\ i + 1 \in 1..Len(q)  BY <1>1, <2>2
    <3> QED  BY <1>2, <3>1 DEF InOrder
  <2> QED  BY <2>1, <2>2
<1>4. InOrder(t + 1, Append(q, t), s)
  <2>1. Len(Append(q, t)) - 1 = Len(q)  BY <1>1, <1>2
  <2> QED  BY <1>1, <1>2, <1>3, <2>1 DEF InOrder
<1> QED  BY <1>2, <1>4 DEF NoGap

\* A line that was stored is passed over or done with.
LEMMA DoneLine ==
  ASSUME NEW t, NEW q, NEW s, NEW E, InOrder(t, q, s), q # <<>>
  PROVE  /\ InOrder(t, Tail(q), None)
         /\ NoGap(t, q, E) /\ (\E r \in E : r.line = Head(q)) => NoGap(t, Tail(q), E)
<1>1. /\ q \in Seq(Nat \ {0}) /\ t \in Nat
      /\ \A i \in 1..Len(q) - 1 : q[i + 1] = q[i] + 1
      /\ t # 0 => t = q[Len(q)] + 1
  BY DEF InOrder
<1>2. /\ Head(q) \in Nat \ {0} /\ Tail(q) \in Seq(Nat \ {0})
      /\ \A i \in 1..Len(Tail(q)) - 1 : Tail(q)[i + 1] = Tail(q)[i] + 1
      /\ Tail(q) # <<>> => Head(Tail(q)) = Head(q) + 1 /\ Tail(q)[Len(Tail(q))] = q[Len(q)]
      /\ Tail(q) = <<>> => q[Len(q)] = Head(q)
  BY <1>1, NextLine
<1>3. InOrder(t, Tail(q), None)  BY <1>1, <1>2 DEF InOrder
<1>4. ASSUME NEW n \in Nat, {r.line : r \in E} = 1..n, NEW r \in E, r.line = Head(q)
      PROVE  /\ Tail(q) # <<>> => Head(Tail(q)) <= n + 1
             /\ Tail(q) = <<>> => t <= n + 1
  <2>1. PICK h, l : h = Head(q) /\ l = q[Len(q)]  OBVIOUS
  <2>2. h \in 1..n  BY <1>4, <2>1
  <2>3. Tail(q) # <<>> => Head(Tail(q)) = h + 1  BY <1>2, <2>1
  <2>4. Tail(q) = <<>> => l = h /\ (t # 0 => t = l + 1)  BY <1>1, <1>2, <2>1
  <2>5. t \in Nat  BY <1>1
  <2>6. ASSUME Tail(q) # <<>> PROVE Head(Tail(q)) <= n + 1  BY <2>2, <2>3, <2>6
  <2>7. ASSUME Tail(q) = <<>> PROVE t <= n + 1  BY <2>2, <2>4, <2>5, <2>7
  <2> QED  BY <2>6, <2>7
<1> QED  BY <1>3, <1>4 DEF NoGap

\* A line that was never stored is the one after those that were.
LEMMA NewLine ==
  ASSUME NEW t, NEW q, NEW E, InOrder(t, q, None), q # <<>>, NoGap(t, q, E),
         \A r \in E : r.line # Head(q)
  PROVE  \A r \in E : r.line < Head(q)
<1>1. PICK n \in Nat : {r.line : r \in E} = 1..n /\ Head(q) <= n + 1  BY DEF NoGap
<1>2. Head(q) \in Nat \ {0}  BY DEF InOrder
<1>3. Head(q) \notin 1..n  BY <1>1
<1>4. \A r \in E : r.line \in 1..n  BY <1>1
<1> QED  BY <1>1, <1>2, <1>3, <1>4

\* A row is committed: its line is one of those, or the next.
LEMMA CommitLine ==
  ASSUME NEW c, NEW t, NEW q, NEW s \in LineRows, NEW g, NEW E, NEW K, NEW X, NEW A,
         E \subseteq LineRows, s # None, g # "insert", Whole(c, t, q, s, "insert", E, K, X, A)
  PROVE  Whole(c, t, q, s, g, E \cup {s}, K \cup {s}, X, A)
<1>1. /\ InOrder(t, q, s) /\ \A r \in E : r.id < s.id
      /\ Older(E, K)
  BY DEF Whole, Staged
<1>2. q # <<>> /\ s.line = Head(q) /\ s.line \in Nat \ {0}  BY <1>1 DEF InOrder, LineRows
<1>3. Staged(s, g, E \cup {s})  BY DEF Staged
<1>4. Older(E \cup {s}, K \cup {s})
  <2>1. (E \cup {s}) \ (K \cup {s}) \subseteq E \ K  OBVIOUS
  <2> QED  BY <1>1, <2>1 DEF Older
<1>5. ASSUME NoGap(t, q, E) PROVE NoGap(t, q, E \cup {s})
  <2>1. PICK n \in Nat : {r.line : r \in E} = 1..n /\ Head(q) <= n + 1  BY <1>2, <1>5 DEF NoGap
  <2>2. {r.line : r \in E \cup {s}} = {r.line : r \in E} \cup {s.line}  OBVIOUS
  <2>3. CASE s.line = n + 1
    <3>1. {r.line : r \in E \cup {s}} = 1..n + 1  BY <2>1, <2>2, <2>3
    <3>2. n + 1 \in Nat /\ Head(q) <= n + 1 + 1  BY <1>2, <2>1
    <3> QED  BY <1>2, <3>1, <3>2 DEF NoGap
  <2>4. CASE s.line # n + 1
    <3>1. s.line \in 1..n  BY <1>2, <2>1, <2>4
    <3>2. {r.line : r \in E \cup {s}} = 1..n  BY <2>1, <2>2, <3>1
    <3> QED  BY <1>2, <2>1, <3>2 DEF NoGap
  <2> QED  BY <2>3, <2>4
<1>6. ASSUME Ordered(s, "insert", E) PROVE Ordered(s, g, E \cup {s})
  <2> SUFFICES ASSUME NEW r \in E \cup {s}, NEW p \in E \cup {s}, r.id < p.id
               PROVE  r.line < p.line
    BY DEF Ordered
  <2>0. r.id \in Nat /\ p.id \in Nat  BY DEF LineRows
  <2>1. CASE r \in E /\ p \in E  BY <1>6, <2>1 DEF Ordered
  <2>2. CASE r \in E /\ p = s  BY <1>6, <2>2 DEF Ordered
  <2>3. CASE r = s  BY <1>1, <2>0, <2>3
  <2> QED  BY <2>1, <2>2, <2>3
<1> QED  BY <1>1, <1>3, <1>4, <1>5, <1>6 DEF Whole

\* A row that was stored is done with.
LEMMA PublishLine ==
  ASSUME NEW c, NEW t, NEW q, NEW s, NEW g, NEW E, NEW K, NEW X, NEW A,
         s # None, g # "insert", Whole(c, t, q, s, g, E, K, X, A)
  PROVE  Whole(c, t, Tail(q), None, "insert", E, K, X, A)
<1>1. s \in E /\ InOrder(t, q, s) /\ q # <<>> /\ s.line = Head(q)
  BY DEF Whole, Staged, InOrder
<1>2. /\ InOrder(t, Tail(q), None)
      /\ NoGap(t, q, E) => NoGap(t, Tail(q), E)
  BY <1>1, DoneLine
<1>3. Ordered(s, g, E) => Ordered(None, "insert", E)  BY DEF Ordered
<1> QED  BY <1>2, <1>3 DEF Whole, Staged

\* A container without a tail and with nothing waiting.
LEMMA StoppedLine ==
  ASSUME NEW c, NEW t, NEW q, NEW s, NEW g, NEW E, NEW K, NEW X, NEW A,
         Whole(c, t, q, s, g, E, K, X, A)
  PROVE  Whole(c, 0, <<>>, None, "insert", E, K, X, A)
<1>1. InOrder(0, <<>>, None)  BY DEF InOrder
<1>2. NoGap(t, q, E) => NoGap(0, <<>>, E)
  <2>1. \A n \in Nat : 0 <= n + 1  OBVIOUS
  <2> QED  BY <2>1 DEF NoGap
<1>3. Ordered(s, g, E) => Ordered(None, "insert", E)  BY DEF Ordered
<1> QED  BY <1>1, <1>2, <1>3 DEF Whole, Staged

\* The last stored row of a container.
LEMMA LastRow ==
  ASSUME NEW S, S # {}, S \subseteq LineRows, NEW n \in Nat, \A r \in S : r.id <= n
  PROVE  L!LastOfRows(S) \in S
<1> DEFINE Below == {n - r.id : r \in S}
<1>1. \A r \in S : r.id \in Nat /\ n - r.id \in Nat  BY DEF LineRows
<1>2. Below \subseteq Nat /\ \E b : b \in Below  BY <1>1
<1>3. PICK b \in Below : \A a \in Below : b <= a
  <2> HIDE DEF Below
  <2> QED  BY <1>2, LeastNatural
<1>4. PICK r \in S : b = n - r.id  BY <1>3
<1>5. \A p \in S : n - r.id <= n - p.id  BY <1>3, <1>4
<1>6. \A p \in S : p.id <= r.id  BY <1>1, <1>5
<1> QED  BY <1>6 DEF L!LastOfRows

\* Later lines are not of an earlier second.
LEMMA SecondsPass ==
  ASSUME NEW j \in Nat \ {0}, NEW k \in Nat \ {0}, j <= k
  PROVE  L!Second(j) \in Nat /\ L!Second(k) \in Nat /\ L!Second(j) <= L!Second(k)
<1>1. LinesPerSecond \in Nat \ {0} /\ j - 1 \in Nat /\ k - 1 \in Nat /\ j - 1 <= k - 1
  BY LinesAssumption
<1>2. \A a, b, d : d \in Nat \ {0} /\ a \in Nat /\ b \in Nat /\ a <= b
                   => a \div d \in Nat /\ b \div d \in Nat /\ a \div d <= b \div d
  OBVIOUS
<1>3. L!Second(j) = (j - 1) \div LinesPerSecond /\ L!Second(k) = (k - 1) \div LinesPerSecond
  BY DEF L!Second
<1> QED  BY <1>1, <1>2, <1>3

\* Of the lines that may be read next there is a first of a second or later.
LEMMA FirstLate ==
  ASSUME NEW since \in Nat
  PROVE  \E i \in 1..MaxPrinted + 1 : /\ i = MaxPrinted + 1 \/ L!Second(i) >= since
                                      /\ \A j \in 1..i - 1 : L!Second(j) < since
<1> DEFINE Late == {i \in 1..MaxPrinted + 1 : i = MaxPrinted + 1 \/ L!Second(i) >= since}
<1>1. MaxPrinted + 1 \in Late /\ Late \subseteq Nat  BY LinesAssumption
<1>2. PICK i \in Late : \A j \in Late : i <= j
  <2> HIDE DEF Late
  <2> QED  BY <1>1, LeastNatural
<1>3. ASSUME NEW j \in 1..i - 1 PROVE L!Second(j) < since
  <2>1. j \notin Late  BY <1>1, <1>2, <1>3
  <2>2. j \in 1..MaxPrinted + 1  BY <1>2, <1>3, LinesAssumption
  <2>3. ~(L!Second(j) >= since) /\ L!Second(j) \in Nat  BY <2>1, <2>2, SecondsPass
  <2> QED  BY <2>3
<1> QED  BY <1>2, <1>3

\* A recovered tail starts no later than the first line that was never stored.
LEMMA RecoverLine ==
  ASSUME NEW c \in Sources, NEW E, NEW S, S = L!RowsOf(c), S \subseteq E, S \subseteq LineRows,
         \A r \in S : r.id <= serial, serial \in Nat, NEW k,
         k = CHOOSE i \in 1..MaxPrinted + 1 : /\ i = MaxPrinted + 1 \/ L!Second(i) >= L!Since(c)
                                              /\ \A j \in 1..i - 1 : L!Second(j) < L!Since(c)
  PROVE  k \in Nat /\ \A n \in Nat : {r.line : r \in E} = 1..n => k <= n + 1
<1>1. PICK since : since = L!Since(c)  OBVIOUS
<1>2. /\ since \in Nat
      /\ \A n \in Nat : {r.line : r \in E} = 1..n => since <= L!Second(n + 1)
  <2>1. CASE S = {}
    <3>1. since = 0  BY <1>1, <2>1 DEF L!Since
    <3>2. \A n \in Nat : n + 1 \in Nat \ {0}  OBVIOUS
    <3> QED  BY <3>1, <3>2, SecondsPass
  <2>2. CASE S # {}
    <3>1. PICK l : l = L!LastOfRows(S).line  OBVIOUS
    <3>2. L!LastOfRows(S) \in S  BY <2>2, LastRow
    <3>3. l \in Nat \ {0} /\ l \in {r.line : r \in E}  BY <3>1, <3>2 DEF LineRows
    <3>4. since = IF L!Second(l) = 0 THEN 0 ELSE L!Second(l) - 1
      BY <1>1, <2>2, <3>1 DEF L!Since
    <3>5. L!Second(l) \in Nat  BY <3>3, SecondsPass
    <3>6. ASSUME NEW n \in Nat, {r.line : r \in E} = 1..n PROVE since <= L!Second(n + 1)
      <4>1. l <= n + 1 /\ n + 1 \in Nat \ {0}  BY <3>3, <3>6
      <4>2. L!Second(n + 1) \in Nat /\ L!Second(l) <= L!Second(n + 1)
        BY <3>3, <4>1, SecondsPass
      <4> QED  BY <3>4, <3>5, <4>2
    <3> QED  BY <3>4, <3>5, <3>6
  <2> QED  BY <2>1, <2>2
<1>3. PICK i \in 1..MaxPrinted + 1 : /\ i = MaxPrinted + 1 \/ L!Second(i) >= since
                                     /\ \A j \in 1..i - 1 : L!Second(j) < since
  BY <1>2, FirstLate
<1>4. k \in 1..MaxPrinted + 1 /\ \A j \in 1..k - 1 : L!Second(j) < since
  BY <1>1, <1>3
<1>5. k \in Nat  BY <1>4, LinesAssumption
<1>6. ASSUME NEW n \in Nat, {r.line : r \in E} = 1..n PROVE k <= n + 1
  <2> SUFFICES ASSUME k > n + 1 PROVE FALSE  BY <1>5
  <2>1. n + 1 \in 1..k - 1  BY <1>5
  <2>2. L!Second(n + 1) < since  BY <1>4, <2>1
  <2>3. L!Second(n + 1) \in Nat  BY SecondsPass
  <2>4. since <= L!Second(n + 1)  BY <1>2, <1>6
  <2> QED  BY <1>2, <2>2, <2>3, <2>4
<1> QED  BY <1>5, <1>6

-----------------------------------------------------------------------------
\* Rows of a container.
LEMMA RowsOfOne ==
  ASSUME RowsDrawn, NEW c \in Sources
  PROVE  /\ L!RowsOf(c) \subseteq L!EverOf(c) /\ L!EverOf(c) \subseteq LineRows
         /\ L!RowsOf(c) = L!EverOf(c) \cap table
         /\ \A r \in L!EverOf(c) : r.id \in Nat /\ r.id <= serial
BY DEF RowsDrawn, L!RowsOf, L!EverOf, L!Ever, LineRows

\* The initial state: a page that was never opened, and containers that printed nothing.
LEMMA LogBegins == L!Init => LogInv
<1> SUFFICES ASSUME L!Init PROVE LogInv  OBVIOUS
<1>1. LogShape
  BY DEF L!Init, LogShape, ContainersShape, SlogShape, PageShape, L!NoStream, L!NotOpen
<1>2. L!Ever = {}  BY DEF L!Init, L!Ever
<1>3. RowsDrawn  BY <1>2, FS_EmptySet DEF L!Init, RowsDrawn
<1>4. ASSUME NEW c \in Sources PROVE Contained(c)
  <2>1. /\ tail[c] = 1 /\ chain[c] = <<>> /\ storing[c] = None /\ stage[c] = "insert"
        /\ L!EverOf(c) = {} /\ L!RowsOf(c) = {}
    BY <1>2 DEF L!Init, L!RowsOf, L!EverOf
  <2>2. InOrder(1, <<>>, None) /\ Staged(None, "insert", {}) /\ Older({}, {})
    BY DEF InOrder, Staged, Older
  <2>3. NoGap(1, <<>>, {})
    <3>1. 0 \in Nat /\ 1..0 = {} /\ 1 <= 0 + 1  OBVIOUS
    <3> QED  BY <3>1 DEF NoGap
  <2>4. Ordered(None, "insert", {})  BY DEF Ordered
  <2> QED  BY <2>1, <2>2, <2>3, <2>4 DEF Contained, Whole
<1>5. Handed /\ L!HandoffWithoutGap
  BY DEF L!Init, Handed, L!HandoffWithoutGap, L!NoStream, L!NotOpen
<1> QED  BY <1>1, <1>3, <1>4, <1>5 DEF LogInv

\* A step about one container's lines leaves the other containers as they are.
LEMMA OneContainer ==
  ASSUME LogInv, NEW c \in Sources, NEW t, NEW q, NEW s, NEW g,
         tail' = [tail EXCEPT ![c] = t], chain' = [chain EXCEPT ![c] = q],
         storing' = [storing EXCEPT ![c] = s], stage' = [stage EXCEPT ![c] = g],
         \A d \in Sources \ {c} : L!RowsOf(d)' = L!RowsOf(d) /\ L!EverOf(d)' = L!EverOf(d),
         slog.dropped \subseteq slog'.dropped, slog.again \subseteq slog'.again,
         Whole(c, t, q, s, g, L!EverOf(c)', L!RowsOf(c)', slog'.dropped, slog'.again)
  PROVE  ContainersShape' /\ \A d \in Sources : Contained(d)'
<1>1. ContainersShape  BY DEF LogInv, LogShape
<1>2. ContainersShape'  BY <1>1 DEF ContainersShape
<1>3. tail'[c] = t /\ chain'[c] = q /\ storing'[c] = s /\ stage'[c] = g
  BY <1>1 DEF ContainersShape
<1>4. ASSUME NEW d \in Sources PROVE Contained(d)'
  <2>1. CASE d = c  BY <1>3, <2>1 DEF Contained
  <2>2. CASE d # c
    <3>1. PICK T, Q, S, G, E, K :
            /\ T = tail[d] /\ Q = chain[d] /\ S = storing[d] /\ G = stage[d]
            /\ E = L!EverOf(d) /\ K = L!RowsOf(d)
      OBVIOUS
    <3>2. /\ tail'[d] = T /\ chain'[d] = Q /\ storing'[d] = S /\ stage'[d] = G
          /\ L!EverOf(d)' = E /\ L!RowsOf(d)' = K
      BY <1>1, <2>2, <3>1 DEF ContainersShape
    <3>3. Whole(d, T, Q, S, G, E, K, slog.dropped, slog.again)
      BY <3>1 DEF LogInv, Contained
    <3>4. Whole(d, T, Q, S, G, E, K, slog'.dropped, slog'.again)  BY <3>3 DEF Whole
    <3> QED  BY <3>2, <3>4 DEF Contained
  <2> QED  BY <2>1, <2>2
<1> QED  BY <1>2, <1>4

\* The rows stay when the table and what was removed from it do.
LEMMA RowsStay ==
  ASSUME table' = table, slog'.pruned = slog.pruned
  PROVE  L!Ever' = L!Ever /\ \A d : L!RowsOf(d)' = L!RowsOf(d) /\ L!EverOf(d)' = L!EverOf(d)
BY DEF L!Ever, L!RowsOf, L!EverOf

\* Rows keep their ids when rows are done with.
LEMMA DrawnStay ==
  ASSUME RowsDrawn, L!Ever' = L!Ever, IsFiniteSet(table'), serial' = serial,
         \A d \in Sources : storing'[d] \in {storing[d], None}
  PROVE  RowsDrawn'
<1>1. PICK E : E = L!Ever  OBVIOUS
<1>2. L!Ever' = E  BY <1>1
<1> QED  BY <1>1, <1>2 DEF RowsDrawn

\* What the page and the stream have stays right when rows are added or removed, as long as
\* those added are under way, and rows under way get on the channel or are given up.
LEMMA HandoffStays ==
  ASSUME LogInv, UNCHANGED <<stream, page>>, L!Ever \subseteq L!Ever',
         channel' \in Seq(L!Ever'), slog'.cut = slog.cut, slog.silent \subseteq slog'.silent,
         stream.at = "live" =>
           \A r \in table' : r \notin table \/ L!Underway(r) => L!Underway(r)' \/ r \in slog'.silent
  PROVE  Handed' /\ L!HandoffWithoutGap'
<1>1. Handed /\ L!HandoffWithoutGap  BY DEF LogInv
<1>2. PICK E, F : E = L!Ever /\ F = L!Ever'  OBVIOUS
<1>3. E \subseteq F /\ stream.kept \in Seq(E) /\ channel' \in Seq(F)
  BY <1>1, <1>2 DEF Handed
<1>4. stream.kept \in Seq(F)  BY <1>3
<1>5. Handed'  BY <1>1, <1>2, <1>3, <1>4 DEF Handed
<1>6. L!HandoffWithoutGap'
  <2> SUFFICES ASSUME stream.at = "live", NEW r \in table',
                      r \notin slog'.cut, r \notin slog'.silent,
                      r.id > stream.after, ~L!Underway(r)'
               PROVE  r \in page.shown
    BY DEF L!HandoffWithoutGap
  <2>1. r \in table /\ ~L!Underway(r)  OBVIOUS
  <2> QED  BY <1>1, <2>1 DEF L!HandoffWithoutGap
<1> QED  BY <1>5, <1>6

\* Steps of the tail alone.
LEMMA TailKeeps ==
  ASSUME LogInv, NEW c \in Sources, L!Read(c) \/ L!StreamEnds(c) \/ L!Recover(c)
  PROVE  LogInv'
<1>1. UNCHANGED <<storing, stage, table, serial, channel, stream, page>>
  BY DEF L!Read, L!StreamEnds, L!Recover
<1>2. LogShape /\ RowsDrawn /\ Contained(c)  BY DEF LogInv
<1>3. /\ SlogShape' /\ slog'.dropped = slog.dropped /\ slog'.cut = slog.cut
      /\ slog'.silent = slog.silent /\ slog'.pruned = slog.pruned /\ slog'.again = slog.again
  BY <1>2 DEF L!Read, L!StreamEnds, L!Recover, LogShape, SlogShape
<1>4. L!Ever' = L!Ever /\ \A d : L!RowsOf(d)' = L!RowsOf(d) /\ L!EverOf(d)' = L!EverOf(d)
  BY <1>1, <1>3, RowsStay
<1>5. PICK t, q, s, g, E, K, X, A :
        /\ t = tail[c] /\ q = chain[c] /\ s = storing[c] /\ g = stage[c]
        /\ E = L!EverOf(c) /\ K = L!RowsOf(c) /\ X = slog.dropped /\ A = slog.again
  OBVIOUS
<1>6. Whole(c, t, q, s, g, E, K, X, A)  BY <1>2, <1>5 DEF Contained
<1>7. \E u, p : /\ tail' = [tail EXCEPT ![c] = u] /\ chain' = [chain EXCEPT ![c] = p]
                /\ Whole(c, u, p, s, g, E, K, X, A)
  <2>1. CASE L!Read(c)
    <3>1. /\ t # 0 /\ tail' = [tail EXCEPT ![c] = t + 1]
          /\ chain' = [chain EXCEPT ![c] = Append(q, t)]
      BY <1>2, <1>5, <2>1 DEF L!Read, L!Down, LogShape, ContainersShape
    <3>2. /\ InOrder(t + 1, Append(q, t), s)
          /\ NoGap(t, q, E) => NoGap(t + 1, Append(q, t), E)
      BY <1>6, <3>1, ReadLine DEF Whole
    <3>3. Whole(c, t + 1, Append(q, t), s, g, E, K, X, A)  BY <1>6, <3>2 DEF Whole
    <3> QED  BY <3>1, <3>3
  <2>2. CASE L!StreamEnds(c)
    <3>1. tail' = [tail EXCEPT ![c] = 0] /\ chain' = [chain EXCEPT ![c] = q]
      BY <1>2, <1>5, <2>2 DEF L!StreamEnds, L!Down, LogShape, ContainersShape
    <3>2. InOrder(0, q, s)  BY <1>6 DEF Whole, InOrder
    <3>3. NoGap(t, q, E) => NoGap(0, q, E)
      <4>1. \A n \in Nat : 0 <= n + 1  OBVIOUS
      <4> QED  BY <4>1 DEF NoGap
    <3>4. Whole(c, 0, q, s, g, E, K, X, A)  BY <1>6, <3>2, <3>3 DEF Whole
    <3> QED  BY <3>1, <3>4
  <2>3. CASE L!Recover(c)
    <3>1. PICK k : k = CHOOSE i \in 1..MaxPrinted + 1 :
                         /\ i = MaxPrinted + 1 \/ L!Second(i) >= L!Since(c)
                         /\ \A j \in 1..i - 1 : L!Second(j) < L!Since(c)
      OBVIOUS
    <3>2. /\ tail' = [tail EXCEPT ![c] = k] /\ chain' = [chain EXCEPT ![c] = <<>>]
          /\ q = <<>> /\ s = None
      BY <1>2, <1>5, <2>3, <3>1 DEF L!Recover, LogShape, ContainersShape
    <3>3. k \in Nat /\ \A n \in Nat : {r.line : r \in E} = 1..n => k <= n + 1
      <4>1. serial \in Nat /\ K \subseteq E /\ K \subseteq LineRows /\ \A r \in K : r.id <= serial
        BY <1>2, <1>5, RowsOfOne DEF RowsDrawn
      <4> QED  BY <1>5, <3>1, <4>1, RecoverLine
    <3>4. InOrder(k, <<>>, None)  BY <3>3 DEF InOrder
    <3>5. NoGap(t, q, E) => NoGap(k, <<>>, E)  BY <3>3 DEF NoGap
    <3>6. Whole(c, k, <<>>, s, g, E, K, X, A)  BY <1>6, <3>2, <3>4, <3>5 DEF Whole
    <3> QED  BY <3>2, <3>6
  <2> QED  BY <2>1, <2>2, <2>3
<1>8. PICK u, p : /\ tail' = [tail EXCEPT ![c] = u] /\ chain' = [chain EXCEPT ![c] = p]
                  /\ Whole(c, u, p, s, g, E, K, X, A)
  BY <1>7
<1>9. ContainersShape' /\ \A d \in Sources : Contained(d)'
  <2>1. storing' = [storing EXCEPT ![c] = s] /\ stage' = [stage EXCEPT ![c] = g]
    BY <1>1, <1>2, <1>5 DEF LogShape, ContainersShape
  <2>2. Whole(c, u, p, s, g, L!EverOf(c)', L!RowsOf(c)', slog'.dropped, slog'.again)
    BY <1>3, <1>4, <1>5, <1>8
  <2> QED  BY <1>3, <1>4, <1>8, <2>1, <2>2, OneContainer
<1>10. RowsDrawn'  BY <1>1, <1>2, <1>4, DrawnStay DEF RowsDrawn
<1>11. Handed' /\ L!HandoffWithoutGap'
  <2>1. channel' \in Seq(L!Ever')  BY <1>1, <1>4 DEF LogInv, Handed
  <2>2. \A r : L!Underway(r)' <=> L!Underway(r)  BY <1>1 DEF L!Underway
  <2> QED  BY <1>1, <1>3, <1>4, <2>1, <2>2, HandoffStays
<1> QED  BY <1>1, <1>2, <1>3, <1>9, <1>10, <1>11 DEF LogInv, LogShape, PageShape

\* A container prints: nothing of it is read yet.
LEMMA NothingRead ==
  ASSUME LogInv,
         UNCHANGED <<tail, chain, storing, stage, table, serial, channel, stream, page, slog>>
  PROVE  LogInv'
<1>1. L!Ever' = L!Ever /\ \A d : L!RowsOf(d)' = L!RowsOf(d) /\ L!EverOf(d)' = L!EverOf(d)
  BY RowsStay
<1>2. \A c \in Sources : Contained(c)'  BY <1>1 DEF LogInv, Contained
<1>3. RowsDrawn'  BY <1>1, DrawnStay DEF LogInv, RowsDrawn
<1>4. LogShape'  BY DEF LogInv, LogShape, ContainersShape, SlogShape, PageShape
<1>5. Handed' /\ L!HandoffWithoutGap'
  BY <1>1 DEF LogInv, Handed, L!HandoffWithoutGap, L!Underway
<1> QED  BY <1>2, <1>3, <1>4, <1>5 DEF LogInv

\* An insert draws an id: the line is stored and passed over, or it gets a row of its own -
\* which notes a line that is read again.
LEMMA InsertKeeps ==
  ASSUME LogInv, NEW c \in Sources, L!Insert(c) PROVE LogInv'
<1>1. /\ UNCHANGED <<tail, stage, table, channel, stream, page>>
      /\ storing[c] = None /\ chain[c] # <<>> /\ serial' = serial + 1
  BY DEF L!Insert
<1>2. LogShape /\ RowsDrawn /\ Contained(c)  BY DEF LogInv
<1>3. PICK t, q, g, E, K, X, A :
        /\ t = tail[c] /\ q = chain[c] /\ g = stage[c]
        /\ E = L!EverOf(c) /\ K = L!RowsOf(c) /\ X = slog.dropped /\ A = slog.again
  OBVIOUS
<1>4. g = "insert" /\ q # <<>> /\ Whole(c, t, q, None, "insert", E, K, X, A)
  BY <1>1, <1>2, <1>3 DEF Contained, Whole, Staged
<1>5. InOrder(t, q, None) /\ Head(q) \in Nat \ {0}  BY <1>4 DEF Whole, InOrder
<1>6. serial \in Nat /\ K \subseteq E /\ \A r \in E : r.id \in Nat /\ r.id <= serial
  BY <1>2, <1>3, RowsOfOne DEF RowsDrawn
<1>7. PICK drawn : drawn = [id |-> serial + 1, src |-> c, line |-> Head(q)]  OBVIOUS
<1>8. /\ drawn \in LineRows /\ drawn.id = serial + 1 /\ drawn.src = c /\ drawn.line = Head(q)
  BY <1>5, <1>6, <1>7 DEF LineRows
<1>9. /\ SlogShape' /\ slog'.dropped = X /\ slog'.cut = slog.cut
      /\ slog'.silent = slog.silent /\ slog'.pruned = slog.pruned
      /\ A \subseteq slog'.again
      /\ (~ \E r \in K : r.line = Head(q)) /\ (\E r \in E : r.line = Head(q)) => c \in slog'.again
  BY <1>2, <1>3 DEF L!Insert, LogShape, SlogShape
<1>10. \E p, s : /\ chain' = [chain EXCEPT ![c] = p] /\ storing' = [storing EXCEPT ![c] = s]
                 /\ s \in {None, drawn}
                 /\ Whole(c, t, p, s, "insert", E, K, X, slog'.again)
  <2>1. CASE \E r \in K : r.line = Head(q)
    <3>1. /\ chain' = [chain EXCEPT ![c] = Tail(q)]
          /\ storing' = [storing EXCEPT ![c] = None]
      BY <1>1, <1>2, <1>3, <2>1 DEF L!Insert, LogShape, ContainersShape
    <3>2. /\ InOrder(t, Tail(q), None)
          /\ NoGap(t, q, E) => NoGap(t, Tail(q), E)
      BY <1>4, <1>5, <1>6, <2>1, DoneLine
    <3>3. Whole(c, t, Tail(q), None, "insert", E, K, X, slog'.again)
      BY <1>4, <1>9, <3>2 DEF Whole
    <3> QED  BY <3>1, <3>3
  <2>2. CASE ~ \E r \in K : r.line = Head(q)
    <3>1. /\ chain' = [chain EXCEPT ![c] = q] /\ storing' = [storing EXCEPT ![c] = drawn]
      BY <1>1, <1>2, <1>3, <1>7, <2>2 DEF L!Insert, LogShape, ContainersShape
    <3>2. drawn # None => InOrder(t, q, drawn)  BY <1>4, <1>5, <1>8 DEF InOrder
    <3>3. InOrder(t, q, drawn)  BY <1>4, <1>5, <1>8 DEF InOrder
    <3>4. \A r \in E : r.id < drawn.id  BY <1>6, <1>8
    <3>5. Staged(drawn, "insert", E)  BY <3>4 DEF Staged
    <3>6. ASSUME c \notin X, c \notin slog'.again PROVE Ordered(drawn, "insert", E)
      <4>1. c \notin A /\ \A r \in E : r.line # Head(q)  BY <1>9, <2>2, <3>6
      <4>2. NoGap(t, q, E) /\ Ordered(None, "insert", E)  BY <1>4, <3>6, <4>1 DEF Whole
      <4>3. \A r \in E : r.line < Head(q)  BY <1>4, <1>5, <4>1, <4>2, NewLine
      <4> QED  BY <1>8, <4>2, <4>3 DEF Ordered
    <3>7. Whole(c, t, q, drawn, "insert", E, K, X, slog'.again)
      BY <1>4, <3>3, <3>5, <3>6 DEF Whole
    <3> QED  BY <3>1, <3>7
  <2> QED  BY <2>1, <2>2
<1>11. PICK p, s : /\ chain' = [chain EXCEPT ![c] = p] /\ storing' = [storing EXCEPT ![c] = s]
                   /\ s \in {None, drawn}
                   /\ Whole(c, t, p, s, "insert", E, K, X, slog'.again)
  BY <1>10
<1>12. L!Ever' = L!Ever /\ \A d : L!RowsOf(d)' = L!RowsOf(d) /\ L!EverOf(d)' = L!EverOf(d)
  BY <1>1, <1>9, RowsStay
<1>13. ContainersShape' /\ \A d \in Sources : Contained(d)'
  <2>1. tail' = [tail EXCEPT ![c] = t] /\ stage' = [stage EXCEPT ![c] = "insert"]
    BY <1>1, <1>2, <1>3, <1>4 DEF LogShape, ContainersShape
  <2>2. Whole(c, t, p, s, "insert", L!EverOf(c)', L!RowsOf(c)', slog'.dropped, slog'.again)
    BY <1>3, <1>9, <1>11, <1>12
  <2> QED  BY <1>3, <1>9, <1>11, <1>12, <2>1, <2>2, OneContainer
<1>14. RowsDrawn'
  <2>1. \A d \in Sources : storing'[d] = IF d = c THEN s ELSE storing[d]
    BY <1>2, <1>11 DEF LogShape, ContainersShape
  <2>2. \A d \in Sources : storing[d] # None => storing[d].id \in Nat /\ storing[d].id <= serial
    BY <1>2 DEF RowsDrawn, LineRows
  <2>3. serial' \in Nat /\ \A r \in L!Ever : r.id \in Nat /\ r.id <= serial /\ r.id <= serial'
    BY <1>1, <1>2, <1>6 DEF RowsDrawn, LineRows
  <2>4. ASSUME NEW d \in Sources, storing'[d] # None
        PROVE  /\ storing'[d] \in LineRows
               /\ storing'[d].src = d /\ storing'[d].id <= serial'
               /\ \A r \in L!Ever : r.id = storing'[d].id => r = storing'[d]
               /\ \A e \in Sources : storing'[e] # None /\ storing'[e].id = storing'[d].id => e = d
    <3>1. CASE d = c
      <4>1. storing'[d] = drawn  BY <1>11, <2>1, <2>4, <3>1
      <4>2. \A r \in L!Ever : r.id # serial + 1  BY <1>6, <2>3
      <4>3. \A e \in Sources \ {c} : storing'[e] # None => storing'[e].id # serial + 1
        BY <1>6, <2>1, <2>2
      <4> QED  BY <1>1, <1>6, <1>8, <3>1, <4>1, <4>2, <4>3
    <3>2. CASE d # c
      <4>1. storing'[d] = storing[d]  BY <2>1, <3>2
      <4>2. storing'[c] # None => storing'[c].id = serial + 1  BY <1>8, <1>11, <2>1
      <4>3. storing[d].id # serial + 1  BY <1>6, <2>2, <2>4, <4>1
      <4>4. /\ storing[d] \in LineRows /\ storing[d].src = d /\ storing[d].id <= serial'
            /\ \A r \in L!Ever : r.id = storing[d].id => r = storing[d]
            /\ \A e \in Sources : storing[e] # None /\ storing[e].id = storing[d].id => e = d
        BY <1>1, <1>2, <1>6, <2>2, <2>4, <4>1 DEF RowsDrawn
      <4> QED  BY <2>1, <4>1, <4>2, <4>3, <4>4
    <3> QED  BY <3>1, <3>2
  <2> QED  BY <1>1, <1>2, <1>12, <2>3, <2>4 DEF RowsDrawn
<1>15. Handed' /\ L!HandoffWithoutGap'
  <2>1. channel' \in Seq(L!Ever')  BY <1>1, <1>12 DEF LogInv, Handed
  <2>2. \A d \in Sources : storing[d] # None => storing'[d] = storing[d]
    BY <1>1, <1>2, <1>11 DEF LogShape, ContainersShape
  <2>3. \A r \in table : r # None  BY <1>2 DEF RowsDrawn, L!Ever
  <2>4. \A r \in table' : L!Underway(r) => L!Underway(r)'
    BY <1>1, <2>2, <2>3 DEF L!Underway
  <2> QED  BY <1>1, <1>9, <1>12, <2>1, <2>4, HandoffStays
<1> QED  BY <1>1, <1>2, <1>9, <1>13, <1>14, <1>15 DEF LogInv, LogShape, PageShape

\* A refused insert gives the container up.
LEMMA InsertFailsKeeps ==
  ASSUME LogInv, NEW c \in Sources, L!InsertFails(c) PROVE LogInv'
<1>1. /\ UNCHANGED <<tail, table, serial, channel, stream, page>>
      /\ storing[c] # None /\ stage[c] = "insert"
  BY DEF L!InsertFails
<1>2. LogShape /\ RowsDrawn /\ Contained(c)  BY DEF LogInv
<1>3. /\ SlogShape' /\ slog'.dropped = slog.dropped \cup {c} /\ slog'.cut = slog.cut
      /\ slog'.silent = slog.silent /\ slog'.pruned = slog.pruned /\ slog'.again = slog.again
  BY <1>2 DEF L!InsertFails, LogShape, SlogShape
<1>4. PICK t, q, s, E, K, X, A :
        /\ t = tail[c] /\ q = chain[c] /\ s = storing[c]
        /\ E = L!EverOf(c) /\ K = L!RowsOf(c) /\ X = slog'.dropped /\ A = slog'.again
  OBVIOUS
<1>5. /\ tail' = [tail EXCEPT ![c] = t] /\ chain' = [chain EXCEPT ![c] = Tail(q)]
      /\ storing' = [storing EXCEPT ![c] = None] /\ stage' = [stage EXCEPT ![c] = "insert"]
  BY <1>1, <1>2, <1>4 DEF L!InsertFails, L!LineDone, LogShape, ContainersShape
<1>6. InOrder(t, q, s) /\ Older(E, K) /\ q # <<>> /\ \A r \in E : r.id < s.id
  BY <1>1, <1>2, <1>4 DEF Contained, Whole, InOrder, Staged
<1>7. InOrder(t, Tail(q), None)  BY <1>6, DoneLine
<1>8. Whole(c, t, Tail(q), None, "insert", E, K, X, A)
  BY <1>3, <1>4, <1>6, <1>7 DEF Whole, Staged
<1>9. L!Ever' = L!Ever /\ \A d : L!RowsOf(d)' = L!RowsOf(d) /\ L!EverOf(d)' = L!EverOf(d)
  BY <1>1, <1>3, RowsStay
<1>10. ContainersShape' /\ \A d \in Sources : Contained(d)'
  <2>1. Whole(c, t, Tail(q), None, "insert", L!EverOf(c)', L!RowsOf(c)', slog'.dropped, slog'.again)
    BY <1>4, <1>8, <1>9
  <2> QED  BY <1>3, <1>5, <1>9, <2>1, OneContainer
<1>11. \A d \in Sources : storing'[d] = IF d = c THEN None ELSE storing[d]
  BY <1>2, <1>5 DEF LogShape, ContainersShape
<1>12. RowsDrawn'  BY <1>1, <1>2, <1>9, <1>11, DrawnStay DEF RowsDrawn
<1>13. Handed' /\ L!HandoffWithoutGap'
  <2>1. channel' \in Seq(L!Ever')  BY <1>1, <1>9 DEF LogInv, Handed
  <2>2. s \notin table
    <3>1. s \in table => s \in E
      BY <1>1, <1>2, <1>4 DEF RowsDrawn, L!EverOf, L!Ever
    <3>2. s.id \in Nat  BY <1>1, <1>2, <1>4 DEF RowsDrawn, LineRows
    <3> QED  BY <1>6, <3>1, <3>2
  <2>3. \A r \in table' : L!Underway(r) => L!Underway(r)'
    BY <1>1, <1>4, <1>11, <2>2 DEF L!Underway
  <2> QED  BY <1>1, <1>3, <1>9, <2>1, <2>3, HandoffStays
<1> QED  BY <1>1, <1>2, <1>3, <1>10, <1>12, <1>13 DEF LogInv, LogShape, PageShape

\* A row is stored under its id.
LEMMA StoreKeeps ==
  ASSUME LogInv, NEW c \in Sources, L!Commit(c) PROVE LogInv'
<1>1. PICK t, q, s, E, K, X, A :
        /\ t = tail[c] /\ q = chain[c] /\ s = storing[c]
        /\ E = L!EverOf(c) /\ K = L!RowsOf(c) /\ X = slog.dropped /\ A = slog.again
  OBVIOUS
<1>2. /\ UNCHANGED <<tail, chain, storing, serial, channel, stream, page, slog>>
      /\ s # None /\ stage[c] = "insert" /\ table' = table \cup {s}
  BY <1>1 DEF L!Commit
<1>3. PICK g \in {"prune", "publish"} : stage' = [stage EXCEPT ![c] = g]
  BY DEF L!Commit
<1>4. LogShape /\ RowsDrawn /\ Contained(c)  BY DEF LogInv
<1>5. s \in LineRows /\ s.src = c /\ s.id <= serial
      /\ \A r \in L!Ever : r.id = s.id => r = s
  BY <1>1, <1>2, <1>4 DEF RowsDrawn
<1>6. /\ L!Ever' = L!Ever \cup {s} /\ L!RowsOf(c)' = K \cup {s} /\ L!EverOf(c)' = E \cup {s}
      /\ \A d \in Sources \ {c} : L!RowsOf(d)' = L!RowsOf(d) /\ L!EverOf(d)' = L!EverOf(d)
  BY <1>1, <1>2, <1>5 DEF L!RowsOf, L!EverOf, L!Ever
<1>7. Whole(c, t, q, s, "insert", E, K, X, A)  BY <1>1, <1>2, <1>4 DEF Contained
<1>8. E \subseteq LineRows /\ g # "insert"  BY <1>1, <1>4, RowsOfOne
<1>9. Whole(c, t, q, s, g, E \cup {s}, K \cup {s}, X, A)
  BY <1>2, <1>5, <1>7, <1>8, CommitLine
<1>10. ContainersShape' /\ \A d \in Sources : Contained(d)'
  <2>1. /\ tail' = [tail EXCEPT ![c] = t] /\ chain' = [chain EXCEPT ![c] = q]
        /\ storing' = [storing EXCEPT ![c] = s]
    BY <1>1, <1>2, <1>4 DEF LogShape, ContainersShape
  <2>2. Whole(c, t, q, s, g, L!EverOf(c)', L!RowsOf(c)', slog'.dropped, slog'.again)
    BY <1>1, <1>2, <1>6, <1>9
  <2> QED  BY <1>2, <1>3, <1>6, <2>1, <2>2, OneContainer
<1>11. RowsDrawn'
  <2>1. IsFiniteSet(table')  BY <1>2, <1>4, FS_AddElement DEF RowsDrawn
  <2>2. \A d \in Sources : storing[d] # None /\ storing[d].id = s.id => storing[d] = s
    BY <1>1, <1>2, <1>4 DEF RowsDrawn
  <2>3. PICK F : F = L!Ever  OBVIOUS
  <2>4. L!Ever' = F \cup {s}  BY <1>6, <2>3
  <2>5. /\ F \cup {s} \subseteq LineRows /\ None \notin F \cup {s}
        /\ \A r \in F \cup {s} : r.id <= serial
        /\ \A r, p \in F \cup {s} : r.id = p.id => r = p
    BY <1>2, <1>4, <1>5, <2>3 DEF RowsDrawn
  <2>6. ASSUME NEW d \in Sources, storing[d] # None
        PROVE  \A r \in F \cup {s} : r.id = storing[d].id => r = storing[d]
    BY <1>4, <2>2, <2>3, <2>6 DEF RowsDrawn
  <2> QED  BY <1>2, <1>4, <2>1, <2>4, <2>5, <2>6 DEF RowsDrawn
<1>12. Handed' /\ L!HandoffWithoutGap'
  <2>1. channel' \in Seq(L!Ever')  BY <1>2, <1>6 DEF LogInv, Handed
  <2>2. \A r \in table' : r \notin table \/ L!Underway(r) => L!Underway(r)'
    BY <1>1, <1>2 DEF L!Underway
  <2> QED  BY <1>2, <1>6, <2>1, <2>2, HandoffStays
<1> QED  BY <1>2, <1>4, <1>10, <1>11, <1>12 DEF LogInv, LogShape, SlogShape, PageShape

\* The rows with the greatest ids stay: what is removed is older than what is left.
LEMMA NewestLeft ==
  ASSUME NEW T, IsFiniteSet(T), T \subseteq LineRows, \A r, q \in T : r.id = q.id => r = q,
         NEW r \in T, r \notin L!Newest(T, MaxPersisted), NEW p \in L!Newest(T, MaxPersisted)
  PROVE  r.id < p.id
<1> DEFINE Newer(x) == {y \in T : y.id > x.id}
<1>1. p \in T /\ r.id \in Nat /\ p.id \in Nat /\ r # p  BY DEF L!Newest, LineRows
<1>2. /\ Cardinality(Newer(p)) < MaxPersisted
      /\ ~(Cardinality(Newer(r)) < MaxPersisted)
  <2>1. \A S : L!Cardinality(S) = Cardinality(S)  BY DEF L!Cardinality, Cardinality
  <2> QED  BY <2>1 DEF L!Newest
<1>3. \A x : IsFiniteSet(Newer(x)) /\ Cardinality(Newer(x)) \in Nat
  BY FS_Subset, FS_CardinalityType
<1>4. ASSUME p.id < r.id PROVE FALSE
  <2>1. Newer(r) \subseteq Newer(p)  BY <1>1, <1>4 DEF LineRows
  <2>2. Cardinality(Newer(r)) <= Cardinality(Newer(p))  BY <1>3, <2>1, FS_Subset
  <2> HIDE DEF Newer
  <2> QED  BY <1>2, <1>3, <2>2, LinesAssumption
<1>5. p.id # r.id  BY <1>1
<1> QED  BY <1>1, <1>4, <1>5

\* Old rows are removed.
LEMMA PruneKeeps ==
  ASSUME LogInv, NEW c \in Sources, L!Prune(c) PROVE LogInv'
<1>1. PICK M : M = L!Newest(table, MaxPersisted)  OBVIOUS
<1>2. /\ UNCHANGED <<tail, chain, storing, serial, channel, stream, page>>
      /\ table' = M /\ M \subseteq table
      /\ stage[c] = "prune" /\ stage' = [stage EXCEPT ![c] = "publish"]
  BY <1>1 DEF L!Prune, L!Newest
<1>3. LogShape /\ RowsDrawn  BY DEF LogInv
<1>4. /\ SlogShape' /\ slog'.pruned = slog.pruned \cup (table \ M)
      /\ slog'.dropped = slog.dropped /\ slog'.again = slog.again
      /\ slog'.cut = slog.cut /\ slog'.silent = slog.silent
  BY <1>1, <1>3 DEF L!Prune, LogShape, SlogShape
<1>5. L!Ever' = L!Ever /\ \A d : L!EverOf(d)' = L!EverOf(d)
  BY <1>2, <1>4 DEF L!Ever, L!EverOf
<1>6. ContainersShape'  BY <1>2, <1>3 DEF LogShape, ContainersShape
<1>7. ASSUME NEW d \in Sources PROVE Contained(d)'
  <2>1. PICK t, q, s, g, E, K, X, A :
          /\ t = tail[d] /\ q = chain[d] /\ s = storing[d] /\ g = stage[d]
          /\ E = L!EverOf(d) /\ K = L!RowsOf(d) /\ X = slog.dropped /\ A = slog.again
    OBVIOUS
  <2>2. Whole(d, t, q, s, g, E, K, X, A)  BY <2>1 DEF LogInv, Contained
  <2>3. PICK h, P : h = stage'[d] /\ P = L!RowsOf(d)'  OBVIOUS
  <2>4. h # g => g # "insert" /\ h # "insert"
    BY <1>2, <1>3, <2>1, <2>3 DEF LogShape, ContainersShape
  <2>5. K = E \cap table /\ P = E \cap M  BY <1>2, <2>1, <2>3 DEF L!RowsOf, L!EverOf, L!Ever
  <2>6. Older(E, P)
    <3> SUFFICES ASSUME NEW r \in E \ P, NEW p \in P PROVE r.id < p.id  BY DEF Older
    <3>1. CASE r \in table
      <4>1. /\ IsFiniteSet(table) /\ table \subseteq LineRows
            /\ \A x, y \in table : x.id = y.id => x = y
        BY <1>3 DEF RowsDrawn, L!Ever
      <4>2. r \notin M /\ p \in M  BY <2>5
      <4> QED  BY <1>1, <3>1, <4>1, <4>2, NewestLeft
    <3>2. CASE r \notin table
      <4>1. r \in E \ K /\ p \in K  BY <1>2, <2>5, <3>2
      <4> QED  BY <2>2, <4>1 DEF Whole, Older
    <3> QED  BY <3>1, <3>2
  <2>7. Whole(d, t, q, s, h, E, P, X, A)
    BY <2>2, <2>4, <2>6 DEF Whole, Staged, Ordered
  <2> QED  BY <1>2, <1>4, <1>5, <2>1, <2>3, <2>7 DEF Contained
<1>8. RowsDrawn'
  <2>1. IsFiniteSet(table')  BY <1>2, <1>3, FS_Subset DEF RowsDrawn
  <2> QED  BY <1>2, <1>3, <1>5, <2>1, DrawnStay
<1>9. Handed' /\ L!HandoffWithoutGap'
  <2>1. channel' \in Seq(L!Ever')  BY <1>2, <1>5 DEF LogInv, Handed
  <2>2. \A r \in table' : r \in table
    BY <1>2
  <2>3. \A r \in table' : L!Underway(r) => L!Underway(r)'  BY <1>2 DEF L!Underway
  <2> QED  BY <1>2, <1>4, <1>5, <2>1, <2>2, <2>3, HandoffStays
<1> QED  BY <1>2, <1>3, <1>4, <1>6, <1>7, <1>8, <1>9 DEF LogInv, LogShape, PageShape

\* A stored row is handed to the stream that is subscribed, or given up.
LEMMA PublishKeeps ==
  ASSUME LogInv, NEW c \in Sources, L!Publish(c) \/ L!NeverPublished(c) PROVE LogInv'
<1>1. PICK t, q, s, g, E, K, X, A :
        /\ t = tail[c] /\ q = chain[c] /\ s = storing[c] /\ g = stage[c]
        /\ E = L!EverOf(c) /\ K = L!RowsOf(c) /\ X = slog.dropped /\ A = slog.again
  OBVIOUS
<1>2. UNCHANGED <<tail, table, serial, stream, page>> /\ g # "insert"
  BY <1>1 DEF L!Publish, L!NeverPublished
<1>3. LogShape /\ RowsDrawn /\ Contained(c)  BY DEF LogInv
<1>4. s # None /\ Whole(c, t, q, s, g, E, K, X, A)
  BY <1>1, <1>2, <1>3 DEF Contained, Whole, Staged
<1>5. Whole(c, t, Tail(q), None, "insert", E, K, X, A)
  BY <1>2, <1>4, PublishLine
<1>6. /\ tail' = [tail EXCEPT ![c] = t] /\ chain' = [chain EXCEPT ![c] = Tail(q)]
      /\ storing' = [storing EXCEPT ![c] = None] /\ stage' = [stage EXCEPT ![c] = "insert"]
  BY <1>1, <1>2, <1>3 DEF L!Publish, L!NeverPublished, L!LineDone, LogShape, ContainersShape
<1>7. /\ SlogShape' /\ slog'.dropped = X /\ slog'.again = A
      /\ slog'.pruned = slog.pruned /\ slog'.cut = slog.cut
      /\ slog.silent \subseteq slog'.silent
  BY <1>1, <1>3 DEF L!Publish, L!NeverPublished, LogShape, SlogShape
<1>8. L!Ever' = L!Ever /\ \A d : L!RowsOf(d)' = L!RowsOf(d) /\ L!EverOf(d)' = L!EverOf(d)
  BY <1>2, <1>7, RowsStay
<1>9. ContainersShape' /\ \A d \in Sources : Contained(d)'
  <2>1. Whole(c, t, Tail(q), None, "insert", L!EverOf(c)', L!RowsOf(c)', slog'.dropped, slog'.again)
    BY <1>1, <1>5, <1>7, <1>8
  <2> QED  BY <1>1, <1>6, <1>7, <1>8, <2>1, OneContainer
<1>10. \A d \in Sources : storing'[d] = IF d = c THEN None ELSE storing[d]
  BY <1>3, <1>6 DEF LogShape, ContainersShape
<1>11. RowsDrawn'  BY <1>2, <1>3, <1>8, <1>10, DrawnStay DEF RowsDrawn
<1>12. PICK F : F = L!Ever  OBVIOUS
<1>13. channel \in Seq(F) /\ s \in F
  BY <1>1, <1>2, <1>3, <1>4, <1>12 DEF LogInv, Handed, Whole, Staged, L!EverOf
<1>14. Handed' /\ L!HandoffWithoutGap'
  <2>1. CASE L!Publish(c)
    <3>1. channel' = IF stream.at = "off" THEN channel ELSE Append(channel, s)
      BY <1>1, <2>1 DEF L!Publish
    <3>2. channel' \in Seq(F)  BY <1>13, <3>1
    <3>3. stream.at = "live" => \A r \in table' : L!Underway(r) => L!Underway(r)'
      <4> SUFFICES ASSUME stream.at = "live", NEW r \in table', L!Underway(r) PROVE L!Underway(r)'
        OBVIOUS
      <4>1. channel' = Append(channel, s)  BY <3>1
      <4>2. /\ s \in L!Range(channel')
            /\ \A p \in L!Range(channel) : p \in L!Range(channel')
        BY <1>13, <4>1 DEF L!Range
      <4>3. CASE r \in L!Range(channel)  BY <4>2, <4>3 DEF L!Underway
      <4>4. CASE \E d \in Sources : storing[d] = r
        BY <1>1, <1>10, <4>2, <4>4 DEF L!Underway
      <4> QED  BY <4>3, <4>4 DEF L!Underway
    <3> QED  BY <1>2, <1>7, <1>8, <1>12, <3>2, <3>3, HandoffStays
  <2>2. CASE L!NeverPublished(c)
    <3>1. channel' = channel /\ s \in slog'.silent
      BY <1>1, <1>3, <2>2 DEF L!NeverPublished, LogShape, SlogShape
    <3>2. \A r \in table' : L!Underway(r) => L!Underway(r)' \/ r \in slog'.silent
      BY <1>1, <1>10, <3>1 DEF L!Underway
    <3> QED  BY <1>2, <1>7, <1>8, <1>12, <1>13, <3>1, <3>2, HandoffStays
  <2> QED  BY <2>1, <2>2
<1> QED  BY <1>2, <1>3, <1>7, <1>9, <1>11, <1>14 DEF LogInv, LogShape, PageShape

\* A crash forgets what waits, and may or may not have stored what was being stored.
LEMMA CrashKeeps ==
  ASSUME LogInv, L!WorkerCrash PROVE LogInv'
<1>1. /\ UNCHANGED <<serial, channel, stream, page>>
      /\ tail' = [c \in Sources |-> 0] /\ chain' = [c \in Sources |-> <<>>]
      /\ storing' = [c \in Sources |-> None] /\ stage' = [c \in Sources |-> "insert"]
  BY DEF L!WorkerCrash, L!Down
<1>2. LogShape /\ RowsDrawn  BY DEF LogInv
<1>3. /\ SlogShape' /\ slog'.dropped = slog.dropped /\ slog'.again = slog.again
      /\ slog'.pruned = slog.pruned /\ slog'.cut = slog.cut
      /\ slog'.silent = slog.silent \cup {storing[c] : c \in {d \in Sources : storing[d] # None}}
  BY <1>2 DEF L!WorkerCrash, LogShape, SlogShape
<1>4. PICK done \in SUBSET {c \in Sources : storing[c] # None /\ stage[c] = "insert"} :
        table' = table \cup {storing[c] : c \in done}
  BY DEF L!WorkerCrash
<1>5. PICK old : old = storing  OBVIOUS
<1>6. PICK F : F = L!Ever  OBVIOUS
<1>7. table' = table \cup {old[c] : c \in done} /\ L!Ever' = F \cup {old[c] : c \in done}
  BY <1>3, <1>4, <1>5, <1>6 DEF L!Ever
<1>8. \A c \in done :
        /\ c \in Sources /\ old[c] # None /\ stage[c] = "insert"
        /\ old[c] \in LineRows /\ old[c].src = c
        /\ old[c].id <= serial /\ \A r \in F : r.id = old[c].id => r = old[c]
        /\ \A d \in done : old[d].id = old[c].id => d = c
  BY <1>2, <1>4, <1>5, <1>6 DEF RowsDrawn
<1>9. ASSUME NEW c \in Sources, NEW K, K = L!RowsOf(c), NEW E, E = L!EverOf(c)
      PROVE  /\ L!RowsOf(c)' = IF c \in done THEN K \cup {old[c]} ELSE K
             /\ L!EverOf(c)' = IF c \in done THEN E \cup {old[c]} ELSE E
  BY <1>6, <1>7, <1>8, <1>9 DEF L!RowsOf, L!EverOf
<1>10. ASSUME NEW c \in Sources PROVE Contained(c)'
  <2>1. PICK t, q, s, g, E, K, X, A :
          /\ t = tail[c] /\ q = chain[c] /\ s = old[c] /\ g = stage[c]
          /\ E = L!EverOf(c) /\ K = L!RowsOf(c) /\ X = slog.dropped /\ A = slog.again
    OBVIOUS
  <2>2. PICK T, P : T = L!EverOf(c)' /\ P = L!RowsOf(c)'  OBVIOUS
  <2>3. Whole(c, t, q, s, g, E, K, X, A)  BY <1>5, <2>1 DEF LogInv, Contained
  <2>4. /\ T = IF c \in done THEN E \cup {s} ELSE E
        /\ P = IF c \in done THEN K \cup {s} ELSE K
    BY <1>9, <2>1, <2>2
  <2>5. \E h : Whole(c, t, q, s, h, T, P, X, A)
    <3>1. CASE c \in done
      <4>1. E \subseteq LineRows  BY <1>2, <2>1, RowsOfOne
      <4>2. s \in LineRows /\ s # None /\ g = "insert"  BY <1>8, <2>1, <3>1
      <4>3. Whole(c, t, q, s, "insert", E, K, X, A)  BY <2>3, <4>2
      <4>4. Whole(c, t, q, s, "publish", E \cup {s}, K \cup {s}, X, A)
        BY <4>1, <4>2, <4>3, CommitLine
      <4> QED  BY <2>4, <3>1, <4>4
    <3>2. CASE c \notin done  BY <2>3, <2>4, <3>2
    <3> QED  BY <3>1, <3>2
  <2>6. Whole(c, 0, <<>>, None, "insert", T, P, X, A)  BY <2>5, StoppedLine
  <2>7. /\ tail'[c] = 0 /\ chain'[c] = <<>> /\ storing'[c] = None /\ stage'[c] = "insert"
        /\ slog'.dropped = X /\ slog'.again = A
    BY <1>1, <1>3, <2>1
  <2> QED  BY <2>2, <2>6, <2>7 DEF Contained
<1>11. RowsDrawn'
  <2>1. L!Ever' \subseteq LineRows /\ None \notin L!Ever' /\ serial' \in Nat
    BY <1>1, <1>2, <1>6, <1>7, <1>8 DEF RowsDrawn
  <2>2. \A r \in L!Ever' : r.id <= serial'  BY <1>1, <1>2, <1>6, <1>7, <1>8 DEF RowsDrawn
  <2>3. \A r, p \in L!Ever' : r.id = p.id => r = p
    BY <1>2, <1>6, <1>7, <1>8 DEF RowsDrawn
  <2>4. IsFiniteSet(table')
    <3>1. IsFiniteSet(done)  BY <1>4, LinesAssumption, FS_Subset
    <3>2. [c \in done |-> old[c]] \in Surjection(done, {old[c] : c \in done})
      BY DEF Surjection
    <3>3. IsFiniteSet({old[c] : c \in done})  BY <3>1, <3>2, FS_Surjection
    <3> QED  BY <1>2, <1>7, <3>3, FS_Union DEF RowsDrawn
  <2> QED  BY <1>1, <2>1, <2>2, <2>3, <2>4 DEF RowsDrawn
<1>12. Handed' /\ L!HandoffWithoutGap'
  <2>1. L!Ever \subseteq L!Ever'  BY <1>6, <1>7
  <2>2. channel' \in Seq(L!Ever')  BY <1>1, <2>1 DEF LogInv, Handed
  <2>3. \A r \in table' : r \notin table \/ L!Underway(r) => L!Underway(r)' \/ r \in slog'.silent
    <3> SUFFICES ASSUME NEW r \in table', r \notin table \/ L!Underway(r)
                 PROVE  L!Underway(r)' \/ r \in slog'.silent
      OBVIOUS
    <3>1. CASE r \in L!Range(channel)  BY <1>1, <3>1 DEF L!Underway
    <3>2. CASE \E d \in Sources : storing[d] = r
      <4>1. PICK d \in Sources : storing[d] = r  BY <3>2
      <4>2. r # None  BY <1>11 DEF RowsDrawn, L!Ever
      <4> QED  BY <1>3, <4>1, <4>2
    <3>3. CASE r \notin table  BY <1>3, <1>4, <3>3
    <3> QED  BY <3>1, <3>2, <3>3 DEF L!Underway
  <2> QED  BY <1>1, <1>3, <2>1, <2>2, <2>3, HandoffStays
<1>13. ContainersShape'  BY <1>1 DEF ContainersShape
<1> QED  BY <1>1, <1>2, <1>3, <1>10, <1>11, <1>12, <1>13 DEF LogInv, LogShape, PageShape

-----------------------------------------------------------------------------
\* A step of the page or its stream leaves the containers as they are.
LEMMA ContainersStay ==
  ASSUME LogInv, UNCHANGED <<tail, chain, storing, stage, table, serial>>,
         slog'.dropped = slog.dropped, slog'.pruned = slog.pruned, slog'.again = slog.again
  PROVE  /\ ContainersShape' /\ RowsDrawn' /\ L!Ever' = L!Ever
         /\ \A c \in Sources : Contained(c)'
<1>1. L!Ever' = L!Ever /\ \A d : L!RowsOf(d)' = L!RowsOf(d) /\ L!EverOf(d)' = L!EverOf(d)
  BY RowsStay
<1>2. ASSUME NEW c \in Sources PROVE Contained(c)'
  <2>1. Contained(c) /\ L!RowsOf(c)' = L!RowsOf(c) /\ L!EverOf(c)' = L!EverOf(c)
    BY <1>1 DEF LogInv
  <2> QED  BY <2>1 DEF Contained
<1>3. RowsDrawn'  BY <1>1, DrawnStay DEF LogInv, RowsDrawn
<1>4. ContainersShape'  BY DEF LogInv, LogShape, ContainersShape
<1> QED  BY <1>1, <1>2, <1>3, <1>4

\* The page is opened, an older page is loaded, the stream is opened or breaks.
LEMMA PageKeeps ==
  ASSUME LogInv, L!OpenPage \/ L!LoadOlder \/ L!Connect \/ L!Drop PROVE LogInv'
<1>1. UNCHANGED <<tail, chain, storing, stage, table, serial>>
  BY DEF L!OpenPage, L!LoadOlder, L!Connect, L!Drop
<1>2. LogShape /\ RowsDrawn /\ Handed /\ L!HandoffWithoutGap  BY DEF LogInv
<1>3. /\ SlogShape' /\ slog'.dropped = slog.dropped
      /\ slog'.pruned = slog.pruned /\ slog'.again = slog.again
  BY <1>2 DEF L!OpenPage, L!LoadOlder, L!Connect, L!Drop, LogShape, SlogShape
<1>4. PageShape'
  BY <1>2 DEF L!OpenPage, L!LoadOlder, L!Connect, L!Drop, L!NoStream, LogShape, PageShape
<1>5. ContainersShape' /\ RowsDrawn' /\ L!Ever' = L!Ever /\ \A c \in Sources : Contained(c)'
  BY <1>1, <1>3, ContainersStay
<1>6. CASE L!LoadOlder
  <2>1. /\ UNCHANGED <<channel, stream, slog>> /\ page.shown \subseteq page'.shown
        /\ page'.open = page.open
    BY <1>2, <1>6 DEF L!LoadOlder, LogShape, PageShape
  <2>2. Handed'  BY <1>2, <1>5, <2>1 DEF Handed
  <2>3. L!HandoffWithoutGap'
    BY <1>1, <1>2, <2>1 DEF L!HandoffWithoutGap, L!Underway
  <2> QED  BY <1>3, <1>4, <1>5, <2>2, <2>3 DEF LogInv, LogShape
<1>7. CASE L!OpenPage \/ L!Connect \/ L!Drop
  <2>1. /\ stream'.at \in {"off", "subscribed"} /\ stream'.seen = {}
        /\ stream'.at # "off" => page'.open
        /\ channel' \in {<<>>, channel} /\ stream'.kept \in {<<>>, stream.kept}
    BY <1>2, <1>7 DEF L!OpenPage, L!Connect, L!Drop, L!NoStream, Handed
  <2>2. channel' \in Seq(L!Ever') /\ stream'.kept \in Seq(L!Ever')
    <3>1. PICK F : F = L!Ever  OBVIOUS
    <3>2. <<>> \in Seq(F) /\ channel \in Seq(F) /\ stream.kept \in Seq(F)
      BY <1>2, <3>1 DEF Handed
    <3> QED  BY <1>5, <2>1, <3>1, <3>2
  <2>3. Handed' /\ L!HandoffWithoutGap'
    <3>1. stream'.at # "live" /\ stream'.at \in {"off", "subscribed", "live"}  BY <2>1
    <3> QED  BY <2>1, <2>2, <3>1 DEF Handed, L!HandoffWithoutGap
  <2> QED  BY <1>3, <1>4, <1>5, <2>3 DEF LogInv, LogShape
<1> QED  BY <1>6, <1>7

\* A published row is shown, unless it was.
LEMMA ReceiveKeeps ==
  ASSUME LogInv, L!Receive PROVE LogInv'
<1>1. UNCHANGED <<tail, chain, storing, stage, table, serial, slog>>
  BY DEF L!Receive
<1>2. LogShape /\ RowsDrawn /\ Handed /\ L!HandoffWithoutGap  BY DEF LogInv
<1>3. PICK r : r = Head(channel)  OBVIOUS
<1>4. PICK F : F = L!Ever  OBVIOUS
<1>5. /\ r \in F /\ channel' \in Seq(F) /\ channel' = Tail(channel)
      /\ \A p : p \in L!Range(channel) => p = r \/ p \in L!Range(channel')
  <2>1. channel \in Seq(F) /\ channel # <<>> /\ channel' = Tail(channel)
    BY <1>2, <1>4 DEF L!Receive, Handed
  <2>2. PICK n, rest : n = Len(channel) /\ rest = Tail(channel)  OBVIOUS
  <2>3. /\ n \in Nat \ {0} /\ r = channel[1] /\ r \in F
        /\ rest \in Seq(F) /\ Len(rest) = n - 1
        /\ \A i \in 1..n : i = 1 \/ channel[i] = rest[i - 1]
    BY <1>3, <2>1, <2>2
  <2>4. \A i \in 1..n : channel[i] = r \/ channel[i] \in L!Range(rest)
    BY <2>3 DEF L!Range
  <2>5. \A p \in L!Range(channel) : p = r \/ p \in L!Range(rest)
    BY <2>1, <2>2, <2>4 DEF L!Range
  <2> QED  BY <2>1, <2>2, <2>3, <2>5
<1>6. stream.at # "off"  BY DEF L!Receive
<1>7. /\ ContainersShape' /\ RowsDrawn' /\ L!Ever' = F /\ \A c \in Sources : Contained(c)'
      /\ SlogShape'
  BY <1>1, <1>2, <1>4, ContainersStay DEF LogShape, SlogShape
<1>8. \A p : L!Underway(p) => p = r \/ L!Underway(p)'  BY <1>1, <1>5 DEF L!Underway
<1>9. CASE L!Sent(r)
  <2>1. UNCHANGED <<stream, page>>  BY <1>3, <1>9 DEF L!Receive
  <2>2. Handed'  BY <1>2, <1>4, <1>5, <1>7, <2>1 DEF Handed
  <2>3. L!HandoffWithoutGap'
    <3> SUFFICES ASSUME stream.at = "live", NEW p \in table,
                        p \notin slog.cut, p \notin slog.silent,
                        p.id > stream.after, ~L!Underway(p)'
                 PROVE  p \in page.shown
      BY <1>1, <2>1 DEF L!HandoffWithoutGap
    <3>1. CASE p = r
      <4>1. r.id \in stream.seen  BY <1>9, <3>1 DEF L!Sent, L!After
      <4>2. PICK w \in F \cap page.shown : w.id = r.id  BY <1>2, <1>4, <4>1 DEF Handed
      <4> QED  BY <1>2, <1>4, <1>5, <3>1, <4>2 DEF RowsDrawn
    <3>2. CASE p # r
      <4>1. ~L!Underway(p)  BY <1>8, <3>2
      <4> QED  BY <1>2, <4>1 DEF L!HandoffWithoutGap
    <3> QED  BY <3>1, <3>2
  <2> QED  BY <1>2, <1>7, <2>1, <2>2, <2>3 DEF LogInv, LogShape, PageShape
<1>10. CASE ~L!Sent(r) /\ stream.at = "subscribed"
  <2>1. stream' = [stream EXCEPT !.kept = Append(stream.kept, r)] /\ page' = page
    BY <1>3, <1>10 DEF L!Receive
  <2>2. /\ PageShape'
        /\ stream'.at = "subscribed" /\ stream'.seen = stream.seen
        /\ stream'.kept = Append(stream.kept, r)
    BY <1>2, <1>10, <2>1 DEF LogShape, PageShape
  <2>3. stream'.kept \in Seq(F)  BY <1>2, <1>4, <1>5, <2>2 DEF Handed
  <2>4. Handed' /\ L!HandoffWithoutGap'
    BY <1>2, <1>4, <1>5, <1>7, <1>10, <2>1, <2>2, <2>3 DEF Handed, L!HandoffWithoutGap
  <2> QED  BY <1>7, <2>2, <2>4 DEF LogInv, LogShape
<1>11. CASE ~L!Sent(r) /\ stream.at = "live"
  <2>1. stream' = [stream EXCEPT !.seen = stream.seen \cup {r.id}] /\ L!Show({r})
    BY <1>3, <1>11 DEF L!Receive
  <2>2. /\ PageShape'
        /\ stream'.at = "live" /\ stream'.seen = stream.seen \cup {r.id}
        /\ stream'.kept = stream.kept /\ stream'.after = stream.after
        /\ page'.shown = page.shown \cup {r} /\ page'.open = page.open
    BY <1>2, <1>11, <2>1 DEF LogShape, PageShape, L!Show
  <2>3. Handed'
    BY <1>2, <1>4, <1>5, <1>7, <1>11, <2>2 DEF Handed
  <2>4. L!HandoffWithoutGap'
    <3> SUFFICES ASSUME NEW p \in table, p \notin slog.cut, p \notin slog.silent,
                        p.id > stream.after, ~L!Underway(p)'
                 PROVE  p \in page'.shown
      BY <1>1, <2>2 DEF L!HandoffWithoutGap
    <3>1. p = r \/ ~L!Underway(p)  BY <1>8
    <3> QED  BY <1>2, <1>11, <2>2, <3>1 DEF L!HandoffWithoutGap
  <2> QED  BY <1>7, <2>2, <2>3, <2>4 DEF LogInv, LogShape
<1> QED  BY <1>2, <1>6, <1>9, <1>10, <1>11 DEF Handed

\* The replay shows all that is after the cursor, but what is beyond its limit.
LEMMA ReplayKeeps ==
  ASSUME LogInv, L!Replay PROVE LogInv'
<1>1. /\ UNCHANGED <<tail, chain, storing, stage, table, serial, channel>>
      /\ stream.at = "subscribed"
  BY DEF L!Replay
<1>2. LogShape /\ RowsDrawn /\ Handed  BY DEF LogInv
<1>3. PICK missed : missed = {r \in table : L!After(r)}  OBVIOUS
<1>4. PICK all : all = L!Newest(missed, ReplayLimit)
                       \cup (L!Range(stream.kept) \ L!Newest(missed, ReplayLimit))
  OBVIOUS
<1>5. /\ stream' = [stream EXCEPT !.at = "live", !.kept = <<>>, !.seen = {r.id : r \in all}]
      /\ L!Show(all)
      /\ slog' = [slog EXCEPT !.cut = missed \ all]
  BY <1>3, <1>4 DEF L!Replay
<1>6. PICK F : F = L!Ever  OBVIOUS
<1>7. all \subseteq F
  <2>1. L!Newest(missed, ReplayLimit) \subseteq F  BY <1>3, <1>6 DEF L!Newest, L!Ever
  <2>2. L!Range(stream.kept) \subseteq F
    <3>1. stream.kept \in Seq(F)  BY <1>2, <1>6 DEF Handed
    <3> QED  BY <3>1 DEF L!Range
  <2> QED  BY <1>4, <2>1, <2>2
<1>8. /\ PageShape'
      /\ stream'.at = "live" /\ stream'.seen = {r.id : r \in all}
      /\ stream'.kept = <<>> /\ stream'.after = stream.after
      /\ page'.shown = page.shown \cup all /\ page'.open = page.open
  BY <1>2, <1>5 DEF LogShape, PageShape, L!Show
<1>9. /\ SlogShape' /\ slog'.dropped = slog.dropped /\ slog'.pruned = slog.pruned
      /\ slog'.again = slog.again /\ slog'.cut = missed \ all
  BY <1>2, <1>5 DEF LogShape, SlogShape
<1>10. ContainersShape' /\ RowsDrawn' /\ L!Ever' = F /\ \A c \in Sources : Contained(c)'
  BY <1>1, <1>6, <1>9, ContainersStay
<1>11. Handed'
  <2>1. channel \in Seq(F) /\ <<>> \in Seq(F) /\ page.open  BY <1>1, <1>2, <1>6 DEF Handed
  <2>2. \A i \in {r.id : r \in all} : \E w \in F \cap (page.shown \cup all) : w.id = i  BY <1>7
  <2> QED  BY <1>1, <1>8, <1>10, <2>1, <2>2 DEF Handed
<1>12. L!HandoffWithoutGap'
  <2> SUFFICES ASSUME NEW p \in table, p \notin slog'.cut, p.id > stream.after
               PROVE  p \in page'.shown
    BY <1>1, <1>8 DEF L!HandoffWithoutGap
  <2>1. p \in missed  BY <1>3 DEF L!After
  <2> QED  BY <1>8, <1>9, <2>1
<1> QED  BY <1>8, <1>9, <1>10, <1>11, <1>12 DEF LogInv, LogShape

\* Every step of ServiceLog keeps the invariant.
LEMMA LogKeeps == LogInv /\ [L!Next]_logVars => LogInv'
<1> SUFFICES ASSUME LogInv, [L!Next]_logVars PROVE LogInv'  OBVIOUS
<1>1. CASE UNCHANGED logVars  BY <1>1, NothingRead DEF logVars
<1>2. ASSUME NEW c \in Sources, L!PrintLine(c) PROVE LogInv'
  BY <1>2, NothingRead DEF L!PrintLine
<1>3. CASE L!Next
  BY <1>2, <1>3, TailKeeps, InsertKeeps, InsertFailsKeeps, StoreKeeps, PruneKeeps,
     PublishKeeps, CrashKeeps, PageKeeps, ReceiveKeeps, ReplayKeeps DEF L!Next
<1> QED  BY <1>1, <1>3

\* What ServiceLog keeps in every behaviour that follows it.
LEMMA LogInvariant == ConfigurationSpec => []LogPart
<1>1. ConfigurationInit => LogPart
  BY LogBegins DEF ConfigurationInit, LogPart
<1>2. LogPart /\ [ConfigurationNext]_allVars => LogPart'
  <2> SUFFICES ASSUME LogPart, [ConfigurationNext]_allVars, part' = "logs" PROVE LogInv'
    BY DEF LogPart
  <2>1. part = "logs" /\ [L!Next]_logVars
    BY DEF ConfigurationNext, allVars, logVars
  <2> QED  BY <2>1, LogKeeps DEF LogPart
<1> QED  BY <1>1, <1>2, PTL DEF ConfigurationSpec

\* Whatever the containers, limits and bounds, across crashes and recoveries of the worker
\* and removals of old rows: unless the database refused a line of it, the lines ever stored
\* of a container are the first it printed; each once and in order, unless one was read
\* again after its row was removed; and what is left of its rows are its newest
\* (service-logs.ts, persist and recover in project-deploy.ts).
THEOREM ConfigurationStoredLogs == ConfigurationSpec => []StoredWithoutGap
<1>1. \A n \in Nat : L!Cardinality(1..n) = n
  <2>1. \A S : L!Cardinality(S) = Cardinality(S)  BY DEF L!Cardinality, Cardinality
  <2>2. \A n \in Nat : Cardinality(1..n) = n
    <3> SUFFICES ASSUME NEW n \in Nat PROVE Cardinality(1..n) = n  OBVIOUS
    <3>1. Cardinality(1..n) = IF 1 > n THEN 0 ELSE n - 1 + 1  BY FS_Interval
    <3> QED  BY <3>1
  <2> QED  BY <2>1, <2>2
<1>2. ASSUME LogInv, NEW c \in Sources
      PROVE  /\ c \notin slog.dropped =>
                  {r.line : r \in L!EverOf(c)} = 1..L!Cardinality({r.line : r \in L!EverOf(c)})
             /\ c \notin slog.dropped \cup slog.again =>
                  \A r, q \in L!EverOf(c) : r.id < q.id => r.line < q.line
             /\ \A r \in L!EverOf(c) \ table, q \in L!RowsOf(c) : r.id < q.id
  <2>1. PICK E, K : E = L!EverOf(c) /\ K = L!RowsOf(c)  OBVIOUS
  <2>2. /\ c \in slog.dropped \/ NoGap(tail[c], chain[c], E)
        /\ c \in slog.dropped \cup slog.again \/ Ordered(storing[c], stage[c], E)
        /\ Older(E, K)
    BY <1>2, <2>1 DEF LogInv, Contained, Whole
  <2>3. E \ table \subseteq E \ K  BY <2>1 DEF L!RowsOf
  <2>4. c \notin slog.dropped => {r.line : r \in E} = 1..L!Cardinality({r.line : r \in E})
    BY <1>1, <2>2 DEF NoGap
  <2>5. c \notin slog.dropped \cup slog.again => \A r, q \in E : r.id < q.id => r.line < q.line
    BY <2>2 DEF Ordered
  <2>6. \A r \in E \ table, q \in K : r.id < q.id  BY <2>2, <2>3 DEF Older
  <2> QED  BY <2>1, <2>4, <2>5, <2>6
<1>3. LogPart => StoredWithoutGap
  BY <1>2 DEF LogPart, StoredWithoutGap, L!StoredWithoutGap
<1> QED  BY <1>3, LogInvariant, PTL

\* Whatever the containers, limits and bounds: a connected page shows every row of the table
\* after its cursor that is not beyond the replay's limit, was not left unpublished - by a
\* crash, a failed removal of old rows or a refused publication - and is not on its way
\* (GET /api/projects/:id/logs).
THEOREM ConfigurationHandoff == ConfigurationSpec => []HandoffWithoutGap
<1>1. LogPart => HandoffWithoutGap  BY DEF LogPart, LogInv, HandoffWithoutGap
<1> QED  BY <1>1, LogInvariant, PTL
=============================================================================
