-------------------------------- MODULE Dns --------------------------------
(***************************************************************************)
(* The DNS assist for one hostname: the check that tells where it points,  *)
(* and the request that writes its A record at the provider the zone lives *)
(* on, while the operator edits the same records at the provider.  Lookups *)
(* may fail, and may be answered with what was in force earlier.           *)
(*                                                                         *)
(* Source: apps/api/src/dns, apps/api/src/routes/dns.ts and the check and  *)
(* the record routes of apps/api/src/routes/domains.ts.                    *)
(***************************************************************************)
EXTENDS Naturals, FiniteSets

CONSTANTS
  Here, Edge, Other,  \* addresses: this server, a proxy network, another server
  Providers,          \* that host zones
  None,
  MaxDnsEdits, MaxDnsRequests  \* bounds: edits by the operator; checks and records asked for

VARIABLES
  net,    \* records of each zone, nameservers, what the base domain resolves to
  memo,   \* answers of earlier, which a resolver may still give
  token,  \* zones that each provider's credential sees
  check,  \* the check under way; since: ghost, it began on Sohwe's record and nothing changed
  apply,  \* the record request under way
  row,    \* last status of the domain and whether it was ever verified
  dnsLog  \* bounds; ghost: the record in force is the one Sohwe wrote

dnsVars == <<net, memo, token, check, apply, row, dnsLog>>

Addresses == {Here, Edge, Other}
Zones == {"sub", "apex"}
Places == Providers \X Zones
NoRecords == [a |-> {}, cname |-> None, proxied |-> FALSE]
NoTask == [pc |-> "idle"]

\* The sub-zone has nameservers of its own when it is delegated.
Authority == IF net.ns["sub"] # None THEN <<net.ns["sub"], "sub">> ELSE <<net.ns["apex"], "apex">>

\* What resolve4 answers: a proxied record answers with the proxy's address.
Answers ==
  LET r == net.recs[Authority] IN
  IF r.cname # None THEN {r.cname}
  ELSE IF r.proxied /\ r.a # {} THEN {Edge} ELSE r.a

\* A lookup answers what is in force or was, or fails, which reads as no address.
Resolved == {Answers, {}} \cup memo.host

\* findZoneNameservers: a lookup that fails moves on to the parent.
FoundAt == {Authority, <<net.ns["apex"], "apex">>} \cup memo.at

\* resolveExpectedIp: what is configured, or the first of the base domain and its
\* wildcard that resolves, and never the address of a proxy.
Expected(base, wildcard) ==
  LET found == IF net.configured # None THEN net.configured
               ELSE IF base # None THEN base ELSE wildcard
  IN  IF found = Edge THEN None ELSE found

ExpectedIp == Expected(net.base, net.wildcard)
ExpectedIps == {Expected(b, w) : b \in {net.base, None} \cup memo.base, w \in {net.wildcard, None}}

\* Mutant: every address has to be the expected one.
InspectStatusAll(expected, answers) ==
  CASE answers = {}           -> IF expected # None THEN "unresolved" ELSE "unknown"
    [] answers = {expected}   -> "verified"
    [] answers = {Edge}       -> "proxied"
    [] expected # None        -> "mismatch"
    [] OTHER                  -> "unknown"

\* inspectDomain
InspectStatus(expected, answers) ==
  CASE answers = {}           -> IF expected # None THEN "unresolved" ELSE "unknown"
    [] answers # {} /\ expected \in answers -> "verified"
    [] answers # {} /\ expected \notin answers ->
         IF answers = {Edge} THEN "proxied" ELSE IF expected # None THEN "mismatch" ELSE "unknown"

-----------------------------------------------------------------------------
Edited(written) ==
  /\ dnsLog.edits < MaxDnsEdits
  /\ dnsLog' = [dnsLog EXCEPT !.edits = @ + 1, !.written = written]
Requested ==
  /\ dnsLog.requests < MaxDnsRequests
  /\ dnsLog' = [dnsLog EXCEPT !.requests = @ + 1]

\* What is in force now may be answered for as long as caches keep it.
Remember == memo' = [host |-> memo.host \cup {Answers}, base |-> memo.base \cup {net.base},
                     at |-> memo.at \cup {Authority}]

\* The operator at the provider's console, the registrar or the instance's own DNS. What a
\* check under way finds is no longer what Sohwe wrote before it.
Operator(n) ==
  /\ n # net /\ Edited(FALSE)
  /\ net' = n /\ Remember
  /\ check' = IF check = NoTask THEN check ELSE [check EXCEPT !.since = FALSE]
  /\ UNCHANGED <<token, apply, row>>

\* An address has no records beside a CNAME; a proxy hides all of them or none.
EditRecords(at) ==
  \E a \in SUBSET {Here, Other}, c \in {None, Other}, p \in BOOLEAN :
    /\ c # None => a = {} /\ ~p
    /\ p => a # {}
    /\ Operator([net EXCEPT !.recs[at] = [a |-> a, cname |-> c, proxied |-> p]])

\* The sub-zone need not have nameservers; the zone above it has.
Delegate ==
  \/ \E p \in Providers \cup {None} : Operator([net EXCEPT !.ns["sub"] = p])
  \/ \E p \in Providers : Operator([net EXCEPT !.ns["apex"] = p])
Repoint == \E b \in Addresses \cup {None} : Operator([net EXCEPT !.base = b])

\* A token is verified before it is stored, in place of the one for that provider.
SetCredential(p, zones) ==
  /\ token[p] # zones /\ Edited(dnsLog.written)
  /\ token' = [token EXCEPT ![p] = zones]
  /\ UNCHANGED <<net, memo, check, apply, row>>

\* POST verify, and the check at the end of adding a domain.
StartCheck ==
  /\ check = NoTask /\ Requested
  /\ \E ip \in ExpectedIps :
       check' = [pc |-> "resolve", expected |-> ip,
                 since |-> dnsLog.written /\ ip = ExpectedIp]
  /\ UNCHANGED <<net, memo, token, apply, row>>

\* ours: ghost, the lookups gave what is in force, which is what Sohwe wrote.
RecordCheck ==
  /\ check # NoTask
  /\ \E found \in Resolved :
       LET status == InspectStatus(check.expected, found) IN
       row' = [status |-> status, verified |-> row.verified \/ status = "verified",
               ours |-> check.since /\ dnsLog.written /\ found = Answers]
  /\ check' = NoTask
  /\ UNCHANGED <<net, memo, token, apply, dnsLog>>

\* The longest zone the token sees that holds the hostname.
FindZone(zones) == IF "sub" \in zones THEN "sub" ELSE "apex"

\* The nameservers found tell the provider, whatever credentials are stored.
StartApply ==
  /\ apply = NoTask /\ Requested
  /\ \E ip \in ExpectedIps \ {None}, at \in FoundAt :
       /\ token[at[1]] # {}
       /\ apply' = [pc |-> "list", ip |-> ip, at |-> <<at[1], FindZone(token[at[1]])>>]
  /\ UNCHANGED <<net, memo, token, check, row>>

\* A CNAME is a refusal, not an overwrite.
ListRecords ==
  /\ apply.pc = "list" /\ net.recs[apply.at].cname = None
  /\ apply' = [pc |-> "write", ip |-> apply.ip, at |-> apply.at,
               existing |-> net.recs[apply.at].a]
  /\ UNCHANGED <<net, memo, token, check, row, dnsLog>>

\* The first A record listed is updated and stays proxied if it was; without one a
\* record is created.
WriteRecord ==
  /\ apply.pc = "write"
  /\ LET r == net.recs[apply.at]
         put(a) == net' = [net EXCEPT !.recs[apply.at].a = a]
     IN  \/ \E old \in apply.existing \cap r.a : put((r.a \ {old}) \cup {apply.ip})
         \/ apply.existing = {} /\ r.cname = None /\ put(r.a \cup {apply.ip})
  /\ Remember
  /\ dnsLog' = [dnsLog EXCEPT !.written = apply.at = Authority /\ apply.ip = ExpectedIp]
  /\ apply' = NoTask
  /\ UNCHANGED <<token, check, row>>

\* The provider refuses - there is a CNAME, or what was listed is gone - or does not answer.
ApplyFails ==
  /\ apply # NoTask
  /\ apply' = NoTask
  /\ UNCHANGED <<net, memo, token, check, row, dnsLog>>

-----------------------------------------------------------------------------
\* With an address configured the base domain's are never looked up.
Init ==
  /\ \E configured, base, wildcard \in Addresses \cup {None}, p \in Providers :
       /\ configured # None => base = None /\ wildcard = None
       /\ net = [recs |-> [at \in Places |-> NoRecords],
                 ns |-> [z \in Zones |-> IF z = "apex" THEN p ELSE None],
                 configured |-> configured, base |-> base, wildcard |-> wildcard]
  /\ memo = [host |-> {}, base |-> {}, at |-> {}]
  /\ token = [p \in Providers |-> {}] /\ check = NoTask /\ apply = NoTask
  /\ row = [status |-> None, verified |-> FALSE, ours |-> FALSE]
  /\ dnsLog = [edits |-> 0, requests |-> 0, written |-> FALSE]

\* A zone has addresses or an alias, and a status is one the dashboard knows.
TypeOK ==
  /\ \A at \in Places : /\ net.recs[at].a \subseteq Addresses
                        /\ net.recs[at].cname \in Addresses \cup {None}
                        /\ net.recs[at].cname # None => net.recs[at].a = {}
  /\ net.ns \in [Zones -> Providers \cup {None}] /\ net.ns["apex"] # None
  /\ {net.configured, net.base, net.wildcard} \subseteq Addresses \cup {None}
  /\ memo \in [host : SUBSET SUBSET Addresses, base : SUBSET (Addresses \cup {None}),
               at : SUBSET Places]
  /\ token \in [Providers -> SUBSET Zones]
  /\ check # NoTask => check.expected \in Addresses \cup {None}
  /\ apply.pc \in {"idle", "list", "write"}
  /\ row \in [status : {None, "verified", "proxied", "mismatch", "unresolved", "unknown"},
              verified : BOOLEAN, ours : BOOLEAN]
  /\ row.status = "verified" => row.verified
  /\ dnsLog.edits \in 0..MaxDnsEdits /\ dnsLog.requests \in 0..MaxDnsRequests

Next ==
  \/ \E at \in Places : EditRecords(at)
  \/ Delegate \/ Repoint
  \/ \E p \in Providers, zones \in SUBSET Zones : SetCredential(p, zones)
  \/ StartCheck \/ RecordCheck
  \/ StartApply \/ ListRecords \/ WriteRecord \/ ApplyFails

Spec == Init /\ [][Next]_dnsVars

-----------------------------------------------------------------------------
\* As long as nobody changed anything since Sohwe wrote the record into the zone that
\* answers for the hostname, a check whose lookups are answered with what is in force
\* finds it there, or finds a proxy in front of it: whatever records there were before,
\* and wherever the expected address comes from. A lookup that fails, or is answered
\* with what was in force before, may find anything else.
AppliedRecordVerifies == row.ours => row.status \in {"verified", "proxied"}
=============================================================================
