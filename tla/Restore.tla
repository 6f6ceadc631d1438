------------------------------ MODULE Restore ------------------------------
(***************************************************************************)
(* Configuration bundles: what an export reads of an organization, in      *)
(* three reads that other requests may come between, and what a restore    *)
(* makes of it on this instance or on another one, in one transaction.     *)
(* Left out of the rows: the redirect flags of domains and automatic       *)
(* deployments, which no bundle carries, and settings copied as they are.  *)
(*                                                                         *)
(* Source: packages/backups/src/export.ts, packages/bundler/src/index.ts,  *)
(* apps/api/src/routes/backups.ts.                                         *)
(***************************************************************************)
EXTENDS Naturals, Sequences, FiniteSets, SequencesExt

CONSTANTS
  Names,        \* what applications, projects and datastores may be called
  ServiceNames,
  Hosts,
  Kinds,        \* engines of datastores
  Port,         \* the public port a datastore may have
  Own, Url,     \* the two sorts of environment variable: the user's, a datastore's
  None,         \* none of the above
  MaxEdits, MaxRestores  \* bounds

VARIABLES
  db,       \* the organization: applications, projects, datastores and their bindings
  foreign,  \* hostnames of other organizations' applications on the instance
  bundle,   \* the export in hand or done
  history   \* ghosts: bounds, fresh ids, what the last restore did

vars == <<db, foreign, bundle, history>>

\* A slug is a name and the "-restored", "-restored-2" it was given.
Slug(n) == <<n>>

FreeSlug(used, s) ==
  IF s \notin used THEN s
  ELSE LET n == CHOOSE n \in 1..(Cardinality(used) + 1) :
                  /\ Append(s, n) \notin used
                  /\ \A k \in 1..(n - 1) : Append(s, k) \in used
       IN  Append(s, n)

Slugs(rows) == {r.slug : r \in Range(rows)}
Ids(rows) == {r.id : r \in Range(rows)}
BySlug(rows, s) == {r \in Range(rows) : r.slug = s}
ById(rows, id) == CHOOSE r \in Range(rows) : r.id = id
Replace(rows, row) == [i \in DOMAIN rows |-> IF rows[i].id = row.id THEN row ELSE rows[i]]

AppHosts(apps) == UNION {Range(a.hosts) : a \in apps}
ServiceHosts(projs) == UNION {UNION {Range(s.hosts) : s \in Range(p.svcs)} : p \in projs}
UsedHosts == AppHosts(Range(db.apps)) \cup ServiceHosts(Range(db.projs)) \cup foreign

\* buildDatastoreConnectionUrl, and the variable it is injected as.
UrlOf(kind, slug, password) == [sort |-> Url, kind |-> kind, slug |-> slug, password |-> password]
UserValue == [sort |-> Own]
Key(n) == n

Empty == [apps |-> <<>>, projs |-> <<>>, stores |-> <<>>, binds |-> {}, pbinds |-> {}]
NoBundle == [pc |-> "none", apps |-> <<>>, projs |-> <<>>, stores |-> <<>>,
             secrets |-> FALSE, torn |-> FALSE, config |-> Empty]

-----------------------------------------------------------------------------
(***************************************************************************)
(* Export.                                                                 *)
(***************************************************************************)
GatherApps(d, secrets) ==
  [i \in DOMAIN d.apps |->
     [slug |-> d.apps[i].slug, hosts |-> d.apps[i].hosts, primary |-> d.apps[i].primary,
      env |-> IF secrets THEN d.apps[i].env ELSE <<>>]]

ServiceSlugs(p, ids) ==
  {s.slug : s \in {t \in Range(p.svcs) : ids = {} \/ t.id \in ids}}

GatherStores(d) ==
  [i \in DOMAIN d.stores |->
     LET r == d.stores[i] IN
       [slug |-> r.slug, kind |-> r.kind, port |-> r.port,
        binds |-> {[app |-> ById(d.apps, b.app).slug, key |-> b.key] :
                     b \in {c \in d.binds : c.store = r.id}},
        pbinds |-> {[proj |-> ById(d.projs, b.proj).slug, key |-> b.key,
                     svcs |-> ServiceSlugs(ById(d.projs, b.proj), b.svcs)] :
                      b \in {c \in d.pbinds : c.store = r.id}}]]

GatherProjects(d) ==
  [i \in DOMAIN d.projs |->
     LET p == d.projs[i] IN
       [slug |-> p.slug,
        svcs |-> [j \in DOMAIN p.svcs |->
                    [slug |-> p.svcs[j].slug, hosts |-> p.svcs[j].hosts,
                     deps |-> {s.slug : s \in {t \in Range(p.svcs) :
                                                 t.id \in p.svcs[j].deps}}]]]]

\* Mutant: the new version was not added to those that have projects.
ParseListed(b, version) ==
  [b EXCEPT !.stores = IF version = 1 THEN <<>> ELSE @,
            !.projs = IF version \in {6, 7, 8} THEN @ ELSE <<>>]

\* What older formats carry: one domain, no datastores, no projects.
Parse(b, version) ==
  [b EXCEPT
    !.apps = IF version >= 4 THEN @
             ELSE [i \in DOMAIN @ |->
                     [b.apps[i] EXCEPT !.hosts = IF b.apps[i].primary = None THEN <<>>
                                            ELSE <<b.apps[i].primary>>]],
    !.stores = IF version = 1 THEN <<>> ELSE @,
    !.projs = IF version >= 6 THEN @ ELSE <<>>]

-----------------------------------------------------------------------------
(***************************************************************************)
(* The restore transaction: st is what it has written so far, what became  *)
(* of each bundle entry and whether a unique index refused it.             *)
(***************************************************************************)
HostsFree(hosts, taken) ==
  FoldLeft(LAMBDA free, h : IF h \in taken THEN free ELSE Append(free, h), <<>>, hosts)
The(rows) == CHOOSE r \in rows : TRUE
PrimaryOf(a) == IF a.primary # None \/ a.hosts = <<>> THEN a.primary ELSE a.hosts[1]

\* Mutant: a skipped application still receives the bindings of the bundle.
RestoreAppSkipMapped(policy, st, a) ==
  LET mine == BySlug(st.db.apps, a.slug)
      hosts == HostsFree(a.hosts, AppHosts(Range(st.db.apps)) \cup foreign)
  IN  IF mine # {} THEN [st EXCEPT !.app = @ \cup {<<a.slug, The(mine).id>>}]
      ELSE [st EXCEPT !.app = @ \cup {<<a.slug, st.next>>}, !.next = @ + 1,
                      !.db.apps = Append(@, [id |-> st.next, slug |-> a.slug, hosts |-> hosts,
                                             env |-> a.env, primary |-> None])]

\* The application that has the slug is left out of those that hold a hostname.
RestoreApp(policy, st, a) ==
  LET mine  == BySlug(st.db.apps, a.slug)
      other == Range(st.db.apps) \ mine
      hosts == HostsFree(a.hosts, AppHosts(other) \cup foreign)
      slug  == FreeSlug(Slugs(st.db.apps), a.slug)
      row(id, s) == [id |-> id, slug |-> s, hosts |-> hosts, env |-> a.env,
                     primary |-> IF PrimaryOf(a) \in Range(hosts) THEN PrimaryOf(a) ELSE None]
      map(id) == [st EXCEPT !.app = @ \cup {<<a.slug, id>>}]
  IN  CASE mine # {} /\ policy = "skip" -> st
        [] mine # {} /\ policy = "overwrite" ->
             [map(The(mine).id) EXCEPT
                !.db.apps = Replace(@, row(The(mine).id, a.slug))]
        [] OTHER ->
             [map(st.next) EXCEPT
                !.db.apps = Append(@, row(st.next, slug)), !.next = @ + 1,
                !.ok = @ /\ Range(hosts) \cap AppHosts(Range(st.db.apps)) = {}]

\* An overwritten project loses its releases and services and gets new ones; deleting
\* services others depend on may be refused, in an order the database decides.
RestoreProject(policy, st, p) ==
  LET mine  == BySlug(st.db.projs, p.slug)
      over  == mine # {} /\ policy = "overwrite"
      other == IF over THEN Range(st.db.projs) \ mine ELSE Range(st.db.projs)
      taken == AppHosts(Range(st.db.apps)) \cup ServiceHosts(other) \cup foreign
      id    == IF over THEN The(mine).id ELSE st.next
      svcId(s) == st.next + CHOOSE j \in DOMAIN p.svcs : p.svcs[j].slug = s
      row == [id |-> id,
              slug |-> IF over THEN p.slug ELSE FreeSlug(Slugs(st.db.projs), p.slug),
              svcs |-> [j \in DOMAIN p.svcs |->
                          [id |-> st.next + j, slug |-> p.svcs[j].slug,
                           hosts |-> HostsFree(p.svcs[j].hosts, taken),
                           deps |-> {svcId(s) : s \in p.svcs[j].deps}]]]
  IN  IF mine # {} /\ policy = "skip" THEN st
      ELSE [st EXCEPT
              !.db.projs = IF over THEN Replace(@, row) ELSE Append(@, row),
              !.proj = @ \cup {<<p.slug, row>>},
              !.next = @ + Len(p.svcs) + 1,
              !.restricted = @ \/ (over /\ \E s \in Range(The(mine).svcs) : s.deps # {})]

RestoreStore(policy, st, d) ==
  LET mine == BySlug(st.db.stores, d.slug)
      slug == FreeSlug(Slugs(st.db.stores), d.slug)
      port == IF d.port \in {r.port : r \in Range(st.db.stores)} THEN None ELSE d.port
      became(id, s, pw) == [st EXCEPT !.store = @ \cup
                              {[entry |-> d, id |-> id, kind |-> d.kind, slug |-> s, pw |-> pw]}]
  IN  CASE mine # {} /\ policy = "skip" -> st
        [] mine # {} /\ policy = "overwrite" -> became(The(mine).id, d.slug, The(mine).pw)
        [] OTHER ->
             [became(st.next, slug, st.next) EXCEPT
                !.next = @ + 1,
                !.db.stores = Append(@, [id |-> st.next, slug |-> slug, kind |-> d.kind,
                                         port |-> port, pw |-> st.next])]

\* Bindings of a project whose services are all there.
RestoreProjectBindings(st) ==
  LET fits(b) == {q \in st.proj : q[1] = b.proj
                                  /\ b.svcs \subseteq {s.slug : s \in Range(q[2].svcs)}}
      ids(p, slugs) == {s.id : s \in {t \in Range(p.svcs) : t.slug \in slugs}}
      new == UNION {UNION {{[store |-> m.id, proj |-> q[2].id, key |-> b.key,
                             svcs |-> ids(q[2], b.svcs)] : q \in fits(b)} :
                             b \in m.entry.pbinds} : m \in st.store}
      replaced == {c \in st.db.pbinds : \E n \in new : n.store = c.store /\ n.proj = c.proj}
  IN  [st EXCEPT !.db.pbinds = (@ \ replaced) \cup new]

\* What the bindings of the bundle's applications became.
Links(st) ==
  UNION {UNION {{[store |-> m, app |-> q[2], key |-> b.key] :
                   q \in {x \in st.app : x[1] = b.app}} :
                   b \in m.entry.binds} : m \in st.store}

BindRows(st) == {[store |-> n.store.id, app |-> n.app, key |-> n.key] : n \in Links(st)}

\* Mutant: the variables of the bundle win over the rewritten ones.
RestoreBindingsOnly(st) ==
  [st EXCEPT !.db.binds = @ \cup BindRows(st), !.bound = BindRows(st)]

\* Bindings of applications, and their variables with this instance's credentials.
RestoreBindings(st) ==
  LET mine(a) == {n \in Links(st) : n.app = a.id}
      keys(a) == {n.key : n \in mine(a)}
      url(a, k) == LET n == CHOOSE x \in mine(a) : x.key = k
                   IN  UrlOf(n.store.kind, n.store.slug, n.store.pw)
      env(a) == [k \in DOMAIN a.env \cup keys(a) |->
                   IF k \in keys(a) THEN url(a, k) ELSE a.env[k]]
      replaced == {c \in st.db.binds :
                     \E r \in BindRows(st) : r.store = c.store /\ r.app = c.app}
  IN  [st EXCEPT !.db.binds = (@ \ replaced) \cup BindRows(st), !.bound = BindRows(st),
                 !.db.apps = [i \in DOMAIN @ |-> [@[i] EXCEPT !.env = env(st.db.apps[i])]]]

Restored(policy, b) ==
  LET st0 == [db |-> db, next |-> history.next, ok |-> TRUE, restricted |-> FALSE,
              app |-> {}, proj |-> {}, store |-> {}, bound |-> {}]
      st1 == FoldLeft(LAMBDA st, a : RestoreApp(policy, st, a), st0, b.apps)
      st2 == FoldLeft(LAMBDA st, p : RestoreProject(policy, st, p), st1, b.projs)
      st3 == FoldLeft(LAMBDA st, d : RestoreStore(policy, st, d), st2, b.stores)
  IN  RestoreBindings(RestoreProjectBindings(st3))

-----------------------------------------------------------------------------
NoRestore == [policy |-> None, failed |-> FALSE, bound |-> {}, of |-> Empty]

Init ==
  /\ db = Empty /\ foreign = {} /\ bundle = NoBundle
  /\ history = [next |-> 1, edits |-> 0, restores |-> 0, last |-> NoRestore]

\* Slugs are unique and so is a hostname among applications, a binding is of rows that exist
\* and one per pair, and a dependency is of services of one project.
TypeOK ==
  /\ \A t \in {db.apps, db.projs, db.stores} : \A i, j \in DOMAIN t :
       (t[i].id = t[j].id \/ t[i].slug = t[j].slug) => i = j
  /\ \A i, j \in DOMAIN db.apps :
       i # j => Range(db.apps[i].hosts) \cap Range(db.apps[j].hosts) = {}
  /\ AppHosts(Range(db.apps)) \cap foreign = {}
  /\ \A p \in Range(db.projs) : \A s \in Range(p.svcs) :
       s.deps \subseteq {t.id : t \in Range(p.svcs)}
  /\ \A b \in db.binds : b.store \in Ids(db.stores) /\ b.app \in Ids(db.apps)
  /\ \A b \in db.pbinds : b.store \in Ids(db.stores) /\ b.proj \in Ids(db.projs)
  /\ \A a, b \in db.binds : a.store = b.store /\ a.app = b.app => a = b
  /\ \A a, b \in db.pbinds : a.store = b.store /\ a.proj = b.proj => a = b
  /\ foreign \subseteq Hosts
  /\ bundle.pc \in {"none", "apps", "stores", "full"}
  /\ history.restores \in 0..MaxRestores

\* Requests of other administrators; those between two reads tear the bundle.
Edit(d) ==
  /\ history.edits < MaxEdits
  /\ db' = d
  /\ history' = [history EXCEPT !.edits = @ + 1, !.next = @ + 3, !.last = NoRestore]
  /\ bundle' = [bundle EXCEPT !.torn = @ \/ bundle.pc \in {"apps", "stores"}]
  /\ UNCHANGED foreign

New == history.next

CreateApp(n, hosts) ==
  /\ Slug(n) \notin Slugs(db.apps)
  /\ Range(hosts) \cap UsedHosts = {}
  /\ Edit([db EXCEPT !.apps = Append(@,
       [id |-> New, slug |-> Slug(n), hosts |-> hosts,
        env |-> [k \in {Own} |-> UserValue],
        primary |-> IF hosts = <<>> THEN None ELSE hosts[1]])])

\* Bindings and domains cascade.
DeleteApp(i) ==
  Edit([db EXCEPT !.apps = RemoveAt(@, i),
                  !.binds = {b \in @ : b.app # db.apps[i].id}])

\* Two services, one depending on the other.
CreateProject(n, hosts) ==
  /\ Slug(n) \notin Slugs(db.projs)
  /\ Range(hosts) \cap UsedHosts = {}
  /\ \E s, t \in ServiceNames :
       s # t /\
       Edit([db EXCEPT !.projs = Append(@, [id |-> New, slug |-> Slug(n), svcs |->
         <<[id |-> New + 1, slug |-> s, hosts |-> hosts, deps |-> {}],
           [id |-> New + 2, slug |-> t, hosts |-> <<>>, deps |-> {New + 1}]>>])])

\* The bindings keep the id of the service.
DeleteService(p, j) ==
  /\ Len(p.svcs) > 1 /\ \A t \in Range(p.svcs) : p.svcs[j].id \notin t.deps
  /\ Edit([db EXCEPT !.projs = Replace(@, [p EXCEPT !.svcs = RemoveAt(@, j)])])

CreateStore(n, kind, port) ==
  /\ Slug(n) \notin Slugs(db.stores)
  /\ port # None => \A r \in Range(db.stores) : r.port # port
  /\ Edit([db EXCEPT !.stores = Append(@,
       [id |-> New, slug |-> Slug(n), kind |-> kind, port |-> port, pw |-> New])])

DeleteStore(i) ==
  /\ \A b \in db.binds \cup db.pbinds : b.store # db.stores[i].id
  /\ Edit([db EXCEPT !.stores = RemoveAt(@, i)])

Bind(r, a) ==
  /\ \A b \in db.binds : b.store # r.id \/ b.app # a.id
  /\ LET key == Key(Head(r.slug)) IN
       /\ key \notin DOMAIN a.env
       /\ Edit([db EXCEPT
            !.binds = @ \cup {[store |-> r.id, app |-> a.id, key |-> key]},
            !.apps = Replace(@, [a EXCEPT !.env = [k \in DOMAIN a.env \cup {key} |->
                       IF k = key THEN UrlOf(r.kind, r.slug, r.pw) ELSE a.env[k]]])])

BindProject(r, p, ids) ==
  /\ \A b \in db.pbinds : b.store # r.id \/ b.proj # p.id
  /\ Edit([db EXCEPT !.pbinds = @ \cup
       {[store |-> r.id, proj |-> p.id, svcs |-> ids, key |-> Key(Head(r.slug))]}])

ReadApps(secrets) ==
  /\ bundle.pc = "none"
  /\ bundle' = [NoBundle EXCEPT !.pc = "apps", !.apps = GatherApps(db, secrets),
                                !.secrets = secrets, !.config = db]
  /\ UNCHANGED <<db, foreign, history>>

ReadStores ==
  /\ bundle.pc = "apps"
  /\ bundle' = [bundle EXCEPT !.pc = "stores", !.stores = GatherStores(db)]
  /\ UNCHANGED <<db, foreign, history>>

ReadProjects ==
  /\ bundle.pc = "stores"
  /\ bundle' = [bundle EXCEPT !.pc = "full", !.projs = GatherProjects(db)]
  /\ UNCHANGED <<db, foreign, history>>

\* The bundle is taken to an instance where others hold some hostnames.
NewInstance(hosts) ==
  /\ bundle.pc = "full" /\ history.restores = 0 /\ db # Empty
  /\ db' = Empty /\ foreign' = hosts
  /\ history' = [history EXCEPT !.last = NoRestore]
  /\ UNCHANGED bundle

\* POST /api/backups/restore/apply: all of it or nothing.
Apply(policy, version) ==
  /\ bundle.pc = "full" /\ history.restores < MaxRestores
  /\ LET st == Restored(policy, Parse(bundle, version))
         done == [policy |-> IF version = 9 THEN policy ELSE None, failed |-> FALSE,
                  bound |-> st.bound, of |-> db]
     IN  \/ /\ st.ok
            /\ db' = st.db
            /\ history' = [history EXCEPT !.restores = @ + 1, !.next = st.next,
                                          !.last = done]
         \/ /\ ~st.ok \/ st.restricted
            /\ db' = db
            /\ history' = [history EXCEPT !.restores = @ + 1,
                                          !.last = [NoRestore EXCEPT !.failed = ~st.ok]]
  /\ UNCHANGED <<foreign, bundle>>

-----------------------------------------------------------------------------
HostLists == {<<>>} \cup {<<h>> : h \in Hosts}

Next ==
  \/ \E n \in Names, hosts \in HostLists : CreateApp(n, hosts) \/ CreateProject(n, hosts)
  \/ \E n \in Names, k \in Kinds, p \in {None, Port} : CreateStore(n, k, p)
  \/ \E i \in DOMAIN db.apps : DeleteApp(i)
  \/ \E i \in DOMAIN db.stores : DeleteStore(i)
  \/ \E a \in Range(db.apps), r \in Range(db.stores) : Bind(r, a)
  \/ \E p \in Range(db.projs) :
       \/ \E j \in DOMAIN p.svcs : DeleteService(p, j)
       \/ \E r \in Range(db.stores) : \E ids \in SUBSET {s.id : s \in Range(p.svcs)} :
            BindProject(r, p, ids)
  \/ \E secrets \in BOOLEAN : ReadApps(secrets)
  \/ ReadStores \/ ReadProjects
  \/ \E hosts \in SUBSET Hosts : NewInstance(hosts)
  \/ \E policy \in {"skip", "overwrite", "rename"}, version \in {1, 5, 9} :
       Apply(policy, version)

Spec == Init /\ [][Next]_vars

-----------------------------------------------------------------------------
(***************************************************************************)
(* Properties.                                                             *)
(***************************************************************************)
Scope(d, b) == ServiceSlugs(ById(d.projs, b.proj), b.svcs)

\* What a bundle carries of the configuration, without ids and passwords.
Config(d) ==
  [apps |-> {[slug |-> a.slug, hosts |-> Range(a.hosts), primary |-> a.primary,
              env |-> [k \in DOMAIN a.env |-> [sort |-> a.env[k].sort]]] : a \in Range(d.apps)},
   projs |-> Range(GatherProjects(d)),
   stores |-> {[slug |-> r.slug, kind |-> r.kind, port |-> r.port] : r \in Range(d.stores)},
   binds |-> UNION {{<<r.slug, b>> : b \in r.binds} : r \in Range(GatherStores(d))},
   pbinds |-> {<<ById(d.stores, b.store).slug, ById(d.projs, b.proj).slug,
                 b.key, Scope(d, b)>> : b \in d.pbinds}]

\* A bundle with secrets that no other request came between, restored on an empty
\* instance, brings back the slugs, hostnames and primary domains, variables, services and
\* their dependencies, engines, ports and bindings - except that a project binding whose
\* services were all deleted comes back for every service.  What no bundle carries, redirect
\* flags and automatic deployments, is not compared and does not come back.
RoundTrip ==
  (/\ history.last.policy # None /\ history.last.of = Empty
   /\ ~bundle.torn /\ bundle.secrets /\ foreign = {}
   /\ \A b \in bundle.config.pbinds : Scope(bundle.config, b) # {})
     => Config(db) = Config(bundle.config)

\* Restoring with "skip" or "rename" changes no application, project, datastore or
\* binding that was there, whatever the bundle says and whatever was bound since.
RestoreOnlyAdds ==
  LET of == history.last.of IN
    history.last.policy \in {"skip", "rename"} =>
      /\ Range(of.apps) \subseteq Range(db.apps)
      /\ Range(of.projs) \subseteq Range(db.projs)
      /\ Range(of.stores) \subseteq Range(db.stores)
      /\ of.binds \subseteq db.binds /\ of.pbinds \subseteq db.pbinds

\* Every binding of an application that a restore made or renewed has its variable set
\* to where that datastore answers on this instance, as long as the datastore of that
\* slug has the engine the bundle names.
RestoredBindingsAnswer ==
  \A b \in history.last.bound :
    LET r == ById(db.stores, b.store)
        a == ById(db.apps, b.app)
    IN  (\A e \in Range(bundle.stores) : Head(e.slug) = Head(r.slug) => e.kind = r.kind)
          => b.key \in DOMAIN a.env /\ a.env[b.key] = UrlOf(r.kind, r.slug, r.pw)

\* A hostname that is taken is left out of a restore and never makes it fail: "dropped and
\* counted rather than failing the restore" (routes/backups.ts).
TakenHostsNeverFail == ~history.last.failed

\* An application and a service never hold the same hostname: "Hostnames are unique across
\* the whole instance" (routes/backups.ts), where the router goes by nothing else.
HostnamesUnique == AppHosts(Range(db.apps)) \cap ServiceHosts(Range(db.projs)) = {}
=============================================================================
