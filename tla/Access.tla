------------------------------- MODULE Access -------------------------------
(***************************************************************************)
(* Who may use the instance: the first-run setup behind its optional gate, *)
(* logins, the sessions they create, and every way a session ends.         *)
(*                                                                         *)
(* Sources: apps/api/src/server.ts, setup-gate.ts and session.ts; that     *)
(* accounts join and leave is in apps/api/src/routes/members.ts, whose     *)
(* rules about roles and invitations are those of module Members.          *)
(***************************************************************************)
EXTENDS Naturals, FiniteSets

CONSTANTS
  Browsers,     \* clients, each with its cookies and one request at a time
  People,       \* e-mail addresses
  OrgSlugs,     \* of organizations
  GateLife,     \* GATE_COOKIE_MAX_AGE_MS, in ticks of the clock
  SessionLife,  \* SESSION_TTL_MS, in ticks of the clock
  MaxAccounts,  \* bound on the users rows ever created
  MaxSessions,  \* bound on the sessions rows ever created
  MaxDays       \* bound on the clock

VARIABLES
  gate,       \* whether SOHWE_SETUP_PASSWORD is set
  day,        \* the clock
  account,    \* users: per address the number of its row, or 0
  org,        \* the organization of every row there has been
  sessions,   \* rows of the sessions table by number: user and expiry
  made,       \* how many sessions there have been
  unlocked,   \* per browser the time signed in its gate cookie, or Never
  cookie,     \* per browser the number in its session cookie, or 0
  rq,         \* per browser its setup, login or removal under way
  login,      \* per browser as whom and when it last logged in, until it logs out
  overlapped  \* whether two setups, or two removals of members, ran at once

accessVars == <<gate, day, account, org, sessions, made, unlocked, cookie, rq, login, overlapped>>

Never == MaxDays + 1
Rows == 1..MaxAccounts
Nobody == 0
\* proved: when the request began, its browser had typed the installer password less than
\* the cookie's lifetime ago.
Idle == [pc |-> "idle", user |-> Nobody, proved |-> FALSE]
NoLogin == [user |-> Nobody, day |-> 0]

Accounts == {account[p] : p \in People} \ {Nobody}
Users == DOMAIN org
Organizations == {org[u] : u \in Users}

TypeOK ==
  /\ gate \in BOOLEAN /\ day \in 0..MaxDays
  /\ account \in [People -> 0..MaxAccounts]
  /\ Users \subseteq Rows /\ Organizations \subseteq OrgSlugs /\ Accounts \subseteq Users
  /\ DOMAIN sessions \subseteq 1..made /\ made \in 0..MaxSessions
  /\ \A s \in DOMAIN sessions : sessions[s] \in [user : Accounts, expires : Nat]
  /\ unlocked \in [Browsers -> 0..Never]
  /\ cookie \in [Browsers -> 0..MaxSessions]
  /\ rq \in [Browsers -> [pc : {"idle", "setup", "counted", "issue", "remove"},
                          user : 0..MaxAccounts, proved : BOOLEAN]]
  /\ login \in [Browsers -> [user : 0..MaxAccounts, day : Nat]]
  /\ overlapped \in BOOLEAN

Init ==
  /\ gate \in BOOLEAN /\ day = 0
  /\ account = [p \in People |-> Nobody] /\ org = [u \in {} |-> Nobody]
  /\ sessions = [s \in {} |-> Nobody] /\ made = 0
  /\ unlocked = [b \in Browsers |-> Never]
  /\ cookie = [b \in Browsers |-> 0]
  /\ rq = [b \in Browsers |-> Idle]
  /\ login = [b \in Browsers |-> NoLogin]
  /\ overlapped = FALSE

DayPasses ==
  /\ day < MaxDays /\ day' = day + 1
  /\ UNCHANGED <<gate, account, org, sessions, made, unlocked, cookie, rq, login, overlapped>>

-----------------------------------------------------------------------------
(***************************************************************************)
(* The setup gate.                                                         *)
(***************************************************************************)

\* Mutant: nothing remembers that the setup was done.
NeverCompleted == FALSE

\* prisma.user.count() > 0
Completed == Accounts # {}

\* verifyGateCookie.
Fresh(b) == unlocked[b] # Never /\ day - unlocked[b] < GateLife

SetGateCookie(b) == unlocked' = [unlocked EXCEPT ![b] = day]
ClearGateCookie(b) == unlocked' = [unlocked EXCEPT ![b] = Never]

\* POST /api/setup/unlock with the right password.
Unlock(b) ==
  /\ rq[b].pc = "idle" /\ gate /\ ~Completed
  /\ SetGateCookie(b)
  /\ UNCHANGED <<gate, day, account, org, sessions, made, cookie, rq, login, overlapped>>

\* setupGateHook in front of every other route: what it lets through.
Admitted(b) == gate => Completed \/ Fresh(b)

\* POST /api/setup passes the hook ...
AskSetup(b) ==
  /\ rq[b].pc = "idle" /\ Admitted(b)
  /\ rq' = [rq EXCEPT ![b] =
               [Idle EXCEPT !.pc = "setup",
                  !.proved = unlocked[b] # Never /\ day < unlocked[b] + GateLife]]
  /\ UNCHANGED <<gate, day, account, org, sessions, made, unlocked, cookie, login,
                 overlapped>>

\* ... counts the users and goes on to hash the password ...
CountUsers(b) ==
  /\ rq[b].pc = "setup"
  /\ rq' = IF Completed THEN [rq EXCEPT ![b] = Idle] ELSE [rq EXCEPT ![b].pc = "counted"]
  /\ overlapped' = (overlapped \/ (~Completed /\ \E c \in Browsers : rq[c].pc = "counted"))
  /\ UNCHANGED <<gate, day, account, org, sessions, made, unlocked, cookie, login>>

NewAccount(p, s) ==
  LET u == Cardinality(Users) + 1 IN
    /\ u \in Rows
    /\ account' = [account EXCEPT ![p] = u]
    /\ org' = [v \in Users \cup {u} |-> IF v = u THEN s ELSE org[v]]

\* ... and creates the organization with its owner, whose address and whose slug are
\* unique (what the request asks for, which nothing has looked at before).
CreateOrganization(b) ==
  /\ rq[b].pc = "counted"
  /\ \E p \in People, s \in OrgSlugs :
       IF account[p] = Nobody /\ s \notin Organizations
         THEN NewAccount(p, s) /\ ClearGateCookie(b)
         ELSE UNCHANGED <<account, org, unlocked>>
  /\ rq' = [rq EXCEPT ![b] = Idle]
  /\ UNCHANGED <<gate, day, sessions, made, cookie, login, overlapped>>

-----------------------------------------------------------------------------
(***************************************************************************)
(* Accounts come and go (members.ts).                                      *)
(***************************************************************************)
Expired(s) == sessions[s].expires < day

\* getSessionUser, and GET /api/me: as whom a request with the browser's cookie is served
\* at this moment.
SessionUser(b) ==
  IF cookie[b] \in DOMAIN sessions /\ ~Expired(cookie[b])
    THEN sessions[cookie[b]].user ELSE Nobody

\* An accepted invitation creates the account; the same request goes on to log it in.
AcceptInvitation(b) ==
  /\ rq[b].pc = "idle" /\ Admitted(b)
  /\ \E p \in People, s \in Organizations :
       /\ account[p] = Nobody
       /\ NewAccount(p, s)
       /\ rq' = [rq EXCEPT ![b] = [Idle EXCEPT !.pc = "issue",
                                               !.user = Cardinality(Users) + 1]]
  /\ UNCHANGED <<gate, day, sessions, made, unlocked, cookie, login, overlapped>>

\* Somebody else of the organization asks to remove a member, whose row is read ...
AskRemove(b) ==
  /\ rq[b].pc = "idle" /\ SessionUser(b) # Nobody
  /\ \E u \in Accounts \ {SessionUser(b)} :
       /\ org[u] = org[SessionUser(b)]
       /\ rq' = [rq EXCEPT ![b] = [Idle EXCEPT !.pc = "remove", !.user = u]]
  /\ overlapped' = (overlapped \/ \E c \in Browsers : rq[c].pc = "remove")
  /\ UNCHANGED <<gate, day, account, org, sessions, made, unlocked, cookie, login>>

Keep(f, S) == [x \in S |-> f[x]]

\* Mutant: the sessions of a removed user stay.
SessionsStay(u) == UNCHANGED sessions

\* onDelete: Cascade of model Session.
CascadeSessions(u) ==
  sessions' = Keep(sessions, {s \in DOMAIN sessions : sessions[s].user # u})

\* ... and deleted, by when the one who asked may be gone as well.
RemoveMember(b) ==
  /\ rq[b].pc = "remove"
  /\ account' = [p \in People |-> IF account[p] = rq[b].user THEN Nobody ELSE account[p]]
  /\ CascadeSessions(rq[b].user)
  /\ rq' = [rq EXCEPT ![b] = Idle]
  /\ UNCHANGED <<gate, day, org, made, unlocked, cookie, login, overlapped>>

-----------------------------------------------------------------------------
(***************************************************************************)
(* Sessions.                                                               *)
(***************************************************************************)

\* POST /api/auth/login: the user is read, then the password takes its time to verify.
AskLogin(b) ==
  /\ rq[b].pc = "idle" /\ Admitted(b)
  /\ \E p \in People :
       /\ account[p] # Nobody
       /\ rq' = [rq EXCEPT ![b] = [Idle EXCEPT !.pc = "issue", !.user = account[p]]]
  /\ UNCHANGED <<gate, day, account, org, sessions, made, unlocked, cookie, login,
                 overlapped>>

\* issueSession: the row refers to the user, who may be gone by now.
IssueSession(b) ==
  /\ rq[b].pc = "issue"
  /\ IF rq[b].user \in Accounts
       THEN /\ made < MaxSessions /\ made' = made + 1
            /\ sessions' = [s \in DOMAIN sessions \cup {made + 1} |->
                 IF s = made + 1 THEN [user |-> rq[b].user, expires |-> day + SessionLife]
                 ELSE sessions[s]]
            /\ cookie' = [cookie EXCEPT ![b] = made + 1]
            /\ login' = [login EXCEPT ![b] = [user |-> rq[b].user, day |-> day]]
       ELSE UNCHANGED <<made, sessions, cookie, login>>
  /\ rq' = [rq EXCEPT ![b] = Idle]
  /\ UNCHANGED <<gate, day, account, org, unlocked, overlapped>>

\* POST /api/auth/logout: a failing delete is swallowed, the cookie goes in any case.
Logout(b) ==
  /\ rq[b].pc = "idle" /\ Admitted(b) /\ cookie[b] # 0
  /\ \/ sessions' = Keep(sessions, DOMAIN sessions \ {cookie[b]})
     \/ UNCHANGED sessions
  /\ cookie' = [cookie EXCEPT ![b] = 0]
  /\ login' = [login EXCEPT ![b] = NoLogin]
  /\ UNCHANGED <<gate, day, account, org, made, unlocked, rq, overlapped>>

\* What the hourly sweep deletes.
Swept(s) == Expired(s)

Sweep ==
  /\ sessions' = Keep(sessions, {s \in DOMAIN sessions : ~Swept(s)})
  /\ UNCHANGED <<gate, day, account, org, made, unlocked, cookie, rq, login, overlapped>>

Next ==
  \/ DayPasses \/ Sweep
  \/ \E b \in Browsers :
       \/ Unlock(b) \/ AskSetup(b) \/ CountUsers(b) \/ CreateOrganization(b)
       \/ AcceptInvitation(b) \/ AskRemove(b) \/ RemoveMember(b)
       \/ AskLogin(b) \/ IssueSession(b) \/ Logout(b)

Spec == Init /\ [][Next]_accessVars

-----------------------------------------------------------------------------
\* Unless two first-run setups overlap, or two removals of members, the instance never
\* has more than one organization: a setup that comes later is refused (server.ts:127).
SerialOneOrganization == ~overlapped => Cardinality(Organizations) <= 1

\* A setup that creates the first account had proved the installer password.
FounderStep ==
  \A b \in Browsers :
    gate /\ Users = {} /\ rq[b].pc = "counted" /\ account' # account /\ rq'[b].pc = "idle"
      => rq[b].proved

\* While the installer password is set, the first account is created only for a browser
\* in which that password was typed less than the gate cookie's lifetime before the setup
\* was asked for, however setups, unlocks and time interleave (setup-gate.ts:107).
FounderUnlocked == [][FounderStep]_accessVars

\* A request is let in only as an account that exists at that moment, in a browser that
\* logged in as it no longer than a session's life ago and did not log out since, whether
\* or not the sweep has run (session.ts:36, schema.prisma:225).
LetInWhileLoggedIn ==
  \A b \in Browsers :
    SessionUser(b) # Nobody =>
      /\ SessionUser(b) \in Accounts
      /\ login[b].user = SessionUser(b) /\ day <= login[b].day + SessionLife

\* Who logged in stays logged in: until the session's life is over, its row goes only by
\* the browser's own logout or with the account (session.ts:75).
StaysLoggedIn ==
  \A b \in Browsers :
    login[b].user \in Accounts /\ day <= login[b].day + SessionLife
      => cookie[b] \in DOMAIN sessions /\ sessions[cookie[b]].user = login[b].user

\* Cookie, row, account and clock agree: a browser is let in from its login until its
\* session's life is over, and at no other time.
LetInExactlyWhileLoggedIn == LetInWhileLoggedIn /\ StaysLoggedIn
=============================================================================
