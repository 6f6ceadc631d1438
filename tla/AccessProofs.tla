---------------------------- MODULE AccessProofs ----------------------------
(***************************************************************************)
(* Proofs about Access for any browsers, people, organizations, lifetimes  *)
(* and bounds: type correctness; a setup makes the only organization and   *)
(* had proved the installer password; a session lets in exactly who logged *)
(* in with it, for its whole life and no longer.                           *)
(***************************************************************************)
EXTENDS Access, FiniteSetTheorems, TLAPS

\* The lifetimes and the bounds are numbers.
Numbers == /\ GateLife \in Nat /\ SessionLife \in Nat
           /\ MaxAccounts \in Nat /\ MaxSessions \in Nat /\ MaxDays \in Nat

Request == [pc : {"idle", "setup", "counted", "issue", "remove"}, user : 0..MaxAccounts,
            proved : BOOLEAN]
Login == [user : 0..MaxAccounts, day : Nat]

\* Rows of users are numbered without a gap.
Numbered == \E n \in 0..MaxAccounts : org \in [1..n -> OrgSlugs]

Typed ==
  /\ gate \in BOOLEAN /\ day \in 0..MaxDays
  /\ account \in [People -> 0..MaxAccounts] /\ Numbered /\ Accounts \subseteq Users
  /\ DOMAIN sessions \subseteq 1..made /\ made \in 0..MaxSessions
  /\ \A s \in DOMAIN sessions : sessions[s] \in [user : Accounts, expires : Nat]
  /\ unlocked \in [Browsers -> 0..Never]
  /\ cookie \in [Browsers -> 0..MaxSessions]
  /\ rq \in [Browsers -> Request]
  /\ login \in [Browsers -> Login]
  /\ overlapped \in BOOLEAN

LEMMA TypedImpliesTypeOK == ASSUME Numbers, Typed PROVE TypeOK
<1> PICK n \in 0..MaxAccounts : org \in [1..n -> OrgSlugs]
  BY DEF Typed, Numbered
<1>1. Users = 1..n /\ Users \subseteq Rows
  BY DEF Users, Rows, Numbers
<1>2. Organizations \subseteq OrgSlugs
  BY <1>1 DEF Organizations
<1> QED BY <1>1, <1>2 DEF Typed, TypeOK, Request, Login

LEMMA IdleType == ASSUME Numbers PROVE Idle \in Request
BY DEF Idle, Request, Nobody, Numbers

\* The row that a new account gets is none that there has been.
LEMMA NextRow ==
  ASSUME Numbers, Numbered
  PROVE  \E n \in 0..MaxAccounts : /\ org \in [1..n -> OrgSlugs] /\ Users = 1..n
                                   /\ Cardinality(Users) + 1 = n + 1
                                   /\ n + 1 \notin Users
<1> PICK n \in 0..MaxAccounts : org \in [1..n -> OrgSlugs]
  BY DEF Numbered
<1>1. Users = 1..n BY DEF Users
<1>2. Cardinality(1..n) = n
  BY FS_Interval DEF Numbers
<1> QED BY <1>1, <1>2 DEF Numbers

LEMMA NewRow ==
  ASSUME Numbers, Typed, NEW p \in People, NEW s \in OrgSlugs, NewAccount(p, s),
         account[p] = Nobody
  PROVE  LET u == Cardinality(Users) + 1 IN
           /\ account' = [account EXCEPT ![p] = u] /\ account' \in [People -> 0..MaxAccounts]
           /\ u \in 1..MaxAccounts /\ u \notin Users /\ Users' = Users \cup {u}
           /\ Numbered' /\ Accounts' = Accounts \cup {u}
           /\ org'[u] = s /\ \A v \in Users : org'[v] = org[v]
<1> PICK n \in 0..MaxAccounts : /\ org \in [1..n -> OrgSlugs] /\ Users = 1..n
                                /\ Cardinality(Users) + 1 = n + 1 /\ n + 1 \notin Users
  BY NextRow DEF Typed
<1> DEFINE u == n + 1
<1>1. u \in 1..MaxAccounts
  BY DEF NewAccount, Rows, Numbers
<1>2. Users \cup {u} = 1..u
  OBVIOUS
<1>3. org' = [v \in 1..u |-> IF v = u THEN s ELSE org[v]]
  BY <1>2 DEF NewAccount
<1>4. org' \in [1..u -> OrgSlugs]
  BY <1>3, <1>2
<1>5. Numbered' /\ Users' = 1..u
  BY <1>1, <1>4 DEF Numbered, Users
<1>6. account' = [account EXCEPT ![p] = u] /\ account' \in [People -> 0..MaxAccounts]
  <2>1. account' = [account EXCEPT ![p] = u]
    BY DEF NewAccount
  <2>2. u \in 0..MaxAccounts /\ account \in [People -> 0..MaxAccounts]
    BY <1>1 DEF Typed, Numbers
  <2> QED BY <2>1, <2>2
<1>7. Accounts' = Accounts \cup {u}
  BY <1>1, <1>6 DEF Accounts, Nobody, Typed
<1>8. org'[u] = s /\ \A v \in Users : org'[v] = org[v]
  BY <1>2, <1>3
<1> QED BY <1>1, <1>2, <1>5, <1>6, <1>7, <1>8

\* No two addresses have the same row.
OneRow == \A p, q \in People : account[p] = account[q] /\ account[p] # Nobody => p = q

LEMMA RemovedRow ==
  ASSUME Numbers, Typed, NEW b \in Browsers, RemoveMember(b)
  PROVE  /\ account' \in [People -> 0..MaxAccounts]
         /\ \A p \in People : account'[p] = IF account[p] = rq[b].user THEN Nobody ELSE account[p]
         /\ Accounts' = Accounts \ {rq[b].user}
         /\ Users' = Users /\ Numbered'
<1>1. \A p \in People : account'[p] = IF account[p] = rq[b].user THEN Nobody ELSE account[p]
  BY DEF RemoveMember
<1>2. account \in [People -> 0..MaxAccounts] /\ Nobody \in 0..MaxAccounts
  BY DEF Typed, Nobody, Numbers
<1>3. account' \in [People -> 0..MaxAccounts]
  BY <1>2 DEF RemoveMember
<1>4. Accounts' = Accounts \ {rq[b].user}
  <2>1. Accounts' = {account'[p] : p \in People} \ {Nobody}
    BY DEF Accounts
  <2> QED BY <1>1, <2>1 DEF Accounts
<1>5. Users' = Users /\ Numbered'
  BY DEF RemoveMember, Users, Typed, Numbered
<1> QED BY <1>1, <1>3, <1>4, <1>5

-----------------------------------------------------------------------------
(***************************************************************************)
(* Type correctness.                                                       *)
(***************************************************************************)

LEMMA TypedInit == ASSUME Numbers, Init PROVE Typed
<1>1. Users = {} /\ org \in [1..0 -> OrgSlugs] /\ 0 \in 0..MaxAccounts
  BY DEF Init, Users, Numbers
<1>2. Numbered
  BY <1>1 DEF Numbered
<1>3. Accounts = {}
  BY DEF Init, Accounts, Nobody
<1>4. DOMAIN sessions = {} /\ 1..0 = {}
  BY DEF Init
<1>5. NoLogin \in Login
  BY DEF NoLogin, Login, Nobody, Numbers
<1>6. account \in [People -> 0..MaxAccounts]
  BY DEF Init, Nobody, Numbers
<1>7. Never \in 0..Never /\ 0 \in 0..MaxDays /\ 0 \in 0..MaxSessions
  BY DEF Never, Numbers
<1> QED BY <1>1, <1>2, <1>3, <1>4, <1>5, <1>6, <1>7, IdleType DEF Init, Typed

\* What most steps leave alone: accounts and organizations, and the rows of sessions.
LEMMA SameRows ==
  ASSUME Typed, UNCHANGED <<account, org, sessions, made>>
  PROVE  /\ account' \in [People -> 0..MaxAccounts] /\ Numbered' /\ Accounts' \subseteq Users'
         /\ DOMAIN sessions' \subseteq 1..made' /\ made' \in 0..MaxSessions
         /\ \A t \in DOMAIN sessions' : sessions'[t] \in [user : Accounts', expires : Nat]
         /\ Accounts' = Accounts /\ Users' = Users
<1>1. Accounts' = Accounts /\ Users' = Users
  BY DEF Accounts, Users
<1>2. Numbered'
  BY DEF Typed, Numbered
<1> QED BY <1>1, <1>2 DEF Typed

LEMMA RequestStep ==
  ASSUME Typed, NEW b \in Browsers, NEW r \in Request, rq' = [rq EXCEPT ![b] = r]
  PROVE  rq' \in [Browsers -> Request]
BY DEF Typed

\* Rows of sessions only go.
LEMMA FewerSessions ==
  ASSUME Typed, NEW S \in SUBSET DOMAIN sessions, sessions' = Keep(sessions, S),
         \A s \in S : sessions[s].user \in Accounts', made' = made
  PROVE  /\ DOMAIN sessions' = S /\ \A s \in S : sessions'[s] = sessions[s]
         /\ DOMAIN sessions' \subseteq 1..made'
         /\ \A t \in DOMAIN sessions' : sessions'[t] \in [user : Accounts', expires : Nat]
<1>1. DOMAIN sessions' = S /\ \A s \in S : sessions'[s] = sessions[s]
  BY DEF Keep
<1>2. ASSUME NEW s \in S PROVE sessions'[s] \in [user : Accounts', expires : Nat]
  <2>1. sessions[s] \in [user : Accounts, expires : Nat] /\ sessions[s].user \in Accounts'
    BY DEF Typed
  <2> QED BY <2>1, <1>1
<1> QED BY <1>1, <1>2 DEF Typed

\* What a login writes.
LEMMA Issued ==
  ASSUME Numbers, Typed, NEW b \in Browsers, rq[b].user \in Accounts, IssueSession(b)
  PROVE  /\ made + 1 \in 1..MaxSessions /\ made' = made + 1
         /\ DOMAIN sessions' = DOMAIN sessions \cup {made + 1}
         /\ made + 1 \notin DOMAIN sessions
         /\ \A s \in DOMAIN sessions : sessions'[s] = sessions[s]
         /\ sessions'[made + 1] = [user |-> rq[b].user, expires |-> day + SessionLife]
         /\ cookie' = [cookie EXCEPT ![b] = made + 1]
         /\ login' = [login EXCEPT ![b] = [user |-> rq[b].user, day |-> day]]
<1>1. made \in 0..MaxSessions /\ made < MaxSessions /\ DOMAIN sessions \subseteq 1..made
  BY DEF IssueSession, Typed
<1>2. made + 1 \in 1..MaxSessions /\ made + 1 \notin DOMAIN sessions
  BY <1>1 DEF Numbers
<1>3. sessions' = [s \in DOMAIN sessions \cup {made + 1} |->
         IF s = made + 1 THEN [user |-> rq[b].user, expires |-> day + SessionLife]
         ELSE sessions[s]]
  BY DEF IssueSession
<1> QED BY <1>2, <1>3 DEF IssueSession

LEMMA TypedNext == ASSUME Numbers, Typed, [Next]_accessVars PROVE Typed'
<1>1. CASE UNCHANGED accessVars
  <2>1. UNCHANGED <<account, org, sessions, made>>
    BY <1>1 DEF accessVars
  <2> QED BY <1>1, <2>1, SameRows DEF accessVars, Typed
<1>2. CASE DayPasses
  <2>1. UNCHANGED <<account, org, sessions, made>>
    BY <1>2 DEF DayPasses
  <2>2. day' \in 0..MaxDays
    BY <1>2 DEF DayPasses, Typed, Numbers
  <2> QED BY <1>2, <2>1, <2>2, SameRows DEF DayPasses, Typed
<1>3. CASE Sweep
  <2> DEFINE S == {s \in DOMAIN sessions : ~Swept(s)}
  <2>1. Accounts' = Accounts /\ Users' = Users /\ Numbered'
    BY <1>3 DEF Sweep, Accounts, Users, Typed, Numbered
  <2>2. \A s \in S : sessions[s].user \in Accounts'
    BY <2>1 DEF Typed
  <2>3. S \in SUBSET DOMAIN sessions /\ sessions' = Keep(sessions, S) /\ made' = made
    BY <1>3 DEF Sweep
  <2> HIDE DEF S
  <2>4. /\ DOMAIN sessions' \subseteq 1..made'
        /\ \A t \in DOMAIN sessions' : sessions'[t] \in [user : Accounts', expires : Nat]
    BY <2>2, <2>3, FewerSessions
  <2> QED BY <1>3, <2>1, <2>4 DEF Sweep, Typed
<1>4. ASSUME NEW b \in Browsers, RemoveMember(b) PROVE Typed'
  <2> DEFINE S == {s \in DOMAIN sessions : sessions[s].user # rq[b].user}
  <2>1. /\ account' \in [People -> 0..MaxAccounts] /\ Users' = Users /\ Numbered'
        /\ Accounts' = Accounts \ {rq[b].user}
    BY <1>4, RemovedRow
  <2>2. rq' \in [Browsers -> Request]
    BY <1>4, IdleType, RequestStep DEF RemoveMember
  <2>3. \A s \in S : sessions[s].user \in Accounts'
    BY <2>1 DEF Typed
  <2>4. S \in SUBSET DOMAIN sessions /\ sessions' = Keep(sessions, S) /\ made' = made
    BY <1>4 DEF RemoveMember, CascadeSessions
  <2> HIDE DEF S
  <2>5. /\ DOMAIN sessions' \subseteq 1..made'
        /\ \A t \in DOMAIN sessions' : sessions'[t] \in [user : Accounts', expires : Nat]
    BY <2>3, <2>4, FewerSessions
  <2> QED BY <1>4, <2>1, <2>2, <2>5 DEF RemoveMember, Typed
<1>5. ASSUME NEW b \in Browsers, Unlock(b) PROVE Typed'
  <2>1. UNCHANGED <<account, org, sessions, made>>
    BY <1>5 DEF Unlock
  <2>2. day \in 0..Never
    BY DEF Typed, Never, Numbers
  <2>3. unlocked' \in [Browsers -> 0..Never]
    BY <1>5, <2>2 DEF Unlock, SetGateCookie, Typed
  <2> QED BY <1>5, <2>1, <2>3, SameRows DEF Unlock, Typed
<1>6. ASSUME NEW b \in Browsers, AskSetup(b) PROVE Typed'
  <2>1. UNCHANGED <<account, org, sessions, made>>
    BY <1>6 DEF AskSetup
  <2> DEFINE f == (unlocked[b] # Never /\ day < unlocked[b] + GateLife)
             r == [Idle EXCEPT !.pc = "setup", !.proved = f]
  <2>2. r \in Request /\ rq' = [rq EXCEPT ![b] = r]
    <3>1. f \in BOOLEAN OBVIOUS
    <3>2. rq' = [rq EXCEPT ![b] = r] BY <1>6 DEF AskSetup
    <3> HIDE DEF f
    <3> QED BY <3>1, <3>2, IdleType DEF Request
  <2>3. rq' \in [Browsers -> Request]
    BY <2>2, RequestStep
  <2> QED BY <1>6, <2>1, <2>3, SameRows DEF AskSetup, Typed
<1>7. ASSUME NEW b \in Browsers, CountUsers(b) PROVE Typed'
  <2>1. UNCHANGED <<account, org, sessions, made>>
    BY <1>7 DEF CountUsers
  <2>2. rq' \in [Browsers -> Request]
    <3>1. CASE Completed
      BY <1>7, <3>1, IdleType, RequestStep DEF CountUsers
    <3>2. CASE ~Completed
      <4>1. rq[b] \in Request /\ rq[b].pc = "setup" BY <1>7 DEF Typed, CountUsers
      <4>2. [rq[b] EXCEPT !.pc = "counted"] \in Request
        BY <4>1 DEF Request
      <4>3. rq' = [rq EXCEPT ![b] = [rq[b] EXCEPT !.pc = "counted"]]
        BY <1>7, <3>2 DEF CountUsers
      <4> QED BY <4>2, <4>3, RequestStep
    <3> QED BY <3>1, <3>2
  <2>3. overlapped' \in BOOLEAN
    BY <1>7 DEF CountUsers
  <2> QED BY <1>7, <2>1, <2>2, <2>3, SameRows DEF CountUsers, Typed
<1>8. ASSUME NEW b \in Browsers, CreateOrganization(b) PROVE Typed'
  <2>1. rq' \in [Browsers -> Request]
    BY <1>8, IdleType, RequestStep DEF CreateOrganization
  <2>2. CASE UNCHANGED <<account, org, unlocked>>
    <3>1. UNCHANGED <<account, org, sessions, made>>
      BY <1>8, <2>2 DEF CreateOrganization
    <3> QED BY <1>8, <2>1, <2>2, <3>1, SameRows DEF CreateOrganization, Typed
  <2>3. ASSUME NEW p \in People, NEW s \in OrgSlugs, account[p] = Nobody,
               NewAccount(p, s), ClearGateCookie(b)
        PROVE  Typed'
    <3>1. /\ account' \in [People -> 0..MaxAccounts] /\ Numbered'
          /\ Accounts \subseteq Accounts' /\ Accounts' \subseteq Users'
      BY <2>3, NewRow DEF Typed
    <3>2. unlocked' \in [Browsers -> 0..Never]
      BY <2>3 DEF ClearGateCookie, Typed, Never, Numbers
    <3>3. UNCHANGED <<sessions, made>>
      BY <1>8 DEF CreateOrganization
    <3>4. \A t \in DOMAIN sessions' : sessions'[t] \in [user : Accounts', expires : Nat]
      BY <3>1, <3>3 DEF Typed
    <3> QED BY <1>8, <2>1, <3>1, <3>2, <3>3, <3>4 DEF CreateOrganization, Typed
  <2> QED BY <1>8, <2>2, <2>3 DEF CreateOrganization
<1>9. ASSUME NEW b \in Browsers, AcceptInvitation(b) PROVE Typed'
  <2> DEFINE u == Cardinality(Users) + 1
             r == [Idle EXCEPT !.pc = "issue", !.user = u]
  <2> PICK p \in People, s \in Organizations :
         account[p] = Nobody /\ NewAccount(p, s) /\ rq' = [rq EXCEPT ![b] = r]
    BY <1>9 DEF AcceptInvitation
  <2>1. s \in OrgSlugs
    BY DEF Organizations, Typed, Numbered, Users
  <2>2. /\ account' \in [People -> 0..MaxAccounts] /\ Numbered' /\ u \in 1..MaxAccounts
        /\ Accounts \subseteq Accounts' /\ Accounts' \subseteq Users'
    BY <2>1, NewRow DEF Typed
  <2>3. r \in Request
    <3>1. u \in 0..MaxAccounts BY <2>2 DEF Numbers
    <3>2. Idle \in Request BY IdleType
    <3> HIDE DEF u
    <3>3. r \in Request BY <3>1, <3>2 DEF Request
    <3>4. r.pc = "issue" BY <3>2 DEF Request
    <3> QED BY <3>3, <3>4 DEF Request
  <2>4. rq' \in [Browsers -> Request]
    BY <2>3, RequestStep
  <2>5. UNCHANGED <<sessions, made>>
    BY <1>9 DEF AcceptInvitation
  <2>6. \A t \in DOMAIN sessions' : sessions'[t] \in [user : Accounts', expires : Nat]
    BY <2>2, <2>5 DEF Typed
  <2> QED BY <1>9, <2>2, <2>4, <2>5, <2>6 DEF AcceptInvitation, Typed
<1>10. ASSUME NEW b \in Browsers, AskLogin(b) PROVE Typed'
  <2>1. UNCHANGED <<account, org, sessions, made>>
    BY <1>10 DEF AskLogin
  <2> PICK p \in People :
         rq' = [rq EXCEPT ![b] = [Idle EXCEPT !.pc = "issue", !.user = account[p]]]
    BY <1>10 DEF AskLogin
  <2>2. account[p] \in 0..MaxAccounts
    BY DEF Typed
  <2>3. [Idle EXCEPT !.pc = "issue", !.user = account[p]] \in Request
    BY <2>2, IdleType DEF Request
  <2>4. rq' \in [Browsers -> Request]
    BY <2>3, RequestStep
  <2> QED BY <1>10, <2>1, <2>4, SameRows DEF AskLogin, Typed
<1>11. ASSUME NEW b \in Browsers, IssueSession(b) PROVE Typed'
  <2>1. rq' \in [Browsers -> Request]
    BY <1>11, IdleType, RequestStep DEF IssueSession
  <2>2. CASE rq[b].user \notin Accounts
    <3>1. UNCHANGED <<account, org, sessions, made>>
      BY <1>11, <2>2 DEF IssueSession
    <3> QED BY <1>11, <2>1, <2>2, <3>1, SameRows DEF IssueSession, Typed
  <2>3. CASE rq[b].user \in Accounts
    <3> DEFINE r == [user |-> rq[b].user, expires |-> day + SessionLife]
    <3>1. /\ made + 1 \in 1..MaxSessions /\ made' = made + 1
          /\ DOMAIN sessions' = DOMAIN sessions \cup {made + 1}
          /\ \A s \in DOMAIN sessions : sessions'[s] = sessions[s]
          /\ sessions'[made + 1] = r
          /\ cookie' = [cookie EXCEPT ![b] = made + 1]
          /\ login' = [login EXCEPT ![b] = [user |-> rq[b].user, day |-> day]]
      BY <1>11, <2>3, Issued
    <3>2. Accounts' = Accounts /\ Numbered' /\ Users' = Users
      BY <1>11 DEF IssueSession, Accounts, Typed, Numbered, Users
    <3>3. r \in [user : Accounts', expires : Nat]
      BY <2>3, <3>2 DEF Typed, Numbers
    <3>4. \A t \in DOMAIN sessions' : sessions'[t] \in [user : Accounts', expires : Nat]
      BY <3>1, <3>2, <3>3 DEF Typed
    <3>5. DOMAIN sessions' \subseteq 1..made'
      BY <3>1 DEF Typed, Numbers
    <3>6. cookie' \in [Browsers -> 0..MaxSessions] /\ made' \in 0..MaxSessions
      BY <3>1 DEF Typed
    <3>7. login' \in [Browsers -> Login]
      <4>1. rq[b].user \in 0..MaxAccounts /\ day \in Nat
        BY DEF Typed, Request, Numbers
      <4>2. [user |-> rq[b].user, day |-> day] \in Login
        BY <4>1 DEF Login
      <4> QED BY <3>1, <4>2 DEF Typed
    <3> QED BY <1>11, <2>1, <3>2, <3>4, <3>5, <3>6, <3>7 DEF IssueSession, Typed
  <2> QED BY <2>2, <2>3
<1>12. ASSUME NEW b \in Browsers, Logout(b) PROVE Typed'
  <2> DEFINE S == DOMAIN sessions \ {cookie[b]}
  <2>1. Accounts' = Accounts /\ Numbered' /\ Users' = Users
    BY <1>12 DEF Logout, Accounts, Typed, Numbered, Users
  <2>2. S \in SUBSET DOMAIN sessions /\ (\A s \in S : sessions[s].user \in Accounts')
    BY <2>1 DEF Typed
  <2>3. (sessions' = Keep(sessions, S) \/ UNCHANGED sessions) /\ made' = made
    BY <1>12 DEF Logout
  <2> HIDE DEF S
  <2>4. /\ DOMAIN sessions' \subseteq 1..made'
        /\ \A t \in DOMAIN sessions' : sessions'[t] \in [user : Accounts', expires : Nat]
    <3>1. CASE sessions' = Keep(sessions, S)
      BY <2>2, <2>3, <3>1, FewerSessions
    <3>2. CASE UNCHANGED sessions
      BY <2>1, <2>3, <3>2 DEF Typed
    <3> QED BY <2>3, <3>1, <3>2
  <2>5. NoLogin \in Login /\ 0 \in 0..MaxSessions
    BY DEF NoLogin, Login, Nobody, Numbers
  <2>6. cookie' \in [Browsers -> 0..MaxSessions] /\ login' \in [Browsers -> Login]
    BY <1>12, <2>5 DEF Logout, Typed
  <2> QED BY <1>12, <2>1, <2>4, <2>6 DEF Logout, Typed
<1>13. ASSUME NEW b \in Browsers, AskRemove(b) PROVE Typed'
  <2>1. UNCHANGED <<account, org, sessions, made>> /\ overlapped' \in BOOLEAN
    BY <1>13 DEF AskRemove
  <2> PICK u \in Accounts : rq' = [rq EXCEPT ![b] = [Idle EXCEPT !.pc = "remove", !.user = u]]
    BY <1>13 DEF AskRemove
  <2>2. u \in 0..MaxAccounts
    BY DEF Accounts, Typed
  <2>3. [Idle EXCEPT !.pc = "remove", !.user = u] \in Request
    BY <2>2, IdleType DEF Request
  <2>4. rq' \in [Browsers -> Request]
    BY <2>3, RequestStep
  <2> QED BY <1>13, <2>1, <2>4, SameRows DEF AskRemove, Typed
<1> QED BY <1>1, <1>2, <1>3, <1>4, <1>5, <1>6, <1>7, <1>8, <1>9, <1>10, <1>11, <1>12, <1>13
        DEF Next

LEMMA TypedInvariant == ASSUME Numbers PROVE Spec => []Typed
<1>1. Init => Typed BY TypedInit
<1>2. Typed /\ [Next]_accessVars => Typed' BY TypedNext
<1> QED BY <1>1, <1>2, PTL DEF Spec

\* The variables have their types in every state, for any browsers, people and bounds.
THEOREM TypeCorrect == ASSUME Numbers PROVE Spec => []TypeOK
<1>1. Typed => TypeOK BY TypedImpliesTypeOK
<1> QED BY <1>1, TypedInvariant, PTL

-----------------------------------------------------------------------------
(***************************************************************************)
(* Sessions: what a cookie stands for.                                     *)
(***************************************************************************)

\* Who logged in is or was an account.
Known == \A b \in Browsers : login[b].user \in Users \cup {Nobody}

\* No two browsers hold the same session, and none a session still to come.
Separate ==
  /\ \A b \in Browsers : cookie[b] <= made
  /\ \A b, c \in Browsers : cookie[b] = cookie[c] /\ cookie[b] # 0 => b = c

\* The row that a browser's cookie names is that of its last login.
Linked ==
  \A b \in Browsers : cookie[b] \in DOMAIN sessions =>
    /\ sessions[cookie[b]].user = login[b].user
    /\ sessions[cookie[b]].expires = login[b].day + SessionLife

SessionInv == OneRow /\ Known /\ Separate /\ Linked /\ StaysLoggedIn

LEMMA SessionInit == ASSUME Numbers, Init PROVE SessionInv
<1>1. OneRow BY DEF Init, OneRow
<1>2. Known BY DEF Init, Known, NoLogin
<1>3. Separate BY DEF Init, Separate
<1>4. Linked BY DEF Init, Linked
<1>5. StaysLoggedIn BY DEF Init, StaysLoggedIn, NoLogin, Accounts
<1> QED BY <1>1, <1>2, <1>3, <1>4, <1>5 DEF SessionInv

LEMMA SessionSame ==
  ASSUME SessionInv, UNCHANGED <<account, org, sessions, made, cookie, login, day>>
  PROVE  SessionInv'
<1>1. Accounts' = Accounts /\ Users' = Users BY DEF Accounts, Users
<1>2. OneRow' BY DEF SessionInv, OneRow
<1>3. Known' BY <1>1 DEF SessionInv, Known
<1>4. Separate' BY DEF SessionInv, Separate
<1>5. Linked' BY DEF SessionInv, Linked
<1>6. StaysLoggedIn' BY <1>1 DEF SessionInv, StaysLoggedIn
<1> QED BY <1>2, <1>3, <1>4, <1>5, <1>6 DEF SessionInv

\* A new account has the number of nobody who ever logged in.
LEMMA SessionJoined ==
  ASSUME Numbers, Typed, SessionInv, NEW p \in People, NEW s \in OrgSlugs, account[p] = Nobody,
         NewAccount(p, s), UNCHANGED <<sessions, made, cookie, login, day>>
  PROVE  SessionInv'
<1> DEFINE u == Cardinality(Users) + 1
<1>1. /\ account' = [account EXCEPT ![p] = u] /\ u \in 1..MaxAccounts /\ u \notin Users
      /\ Users' = Users \cup {u} /\ Accounts' = Accounts \cup {u}
  BY NewRow
<1> HIDE DEF u
<1>2. OneRow'
  <2>1. account \in [People -> 0..MaxAccounts] /\ Accounts \subseteq Users
    BY DEF Typed
  <2>2. \A q \in People : account[q] # u
    BY <1>1, <2>1 DEF Accounts, Nobody, Numbers
  <2>3. \A q \in People : account'[q] = IF q = p THEN u ELSE account[q]
    BY <1>1, <2>1
  <2> QED BY <2>2, <2>3 DEF SessionInv, OneRow
<1>3. Known' BY <1>1 DEF SessionInv, Known
<1>4. Separate' BY DEF SessionInv, Separate
<1>5. Linked' BY DEF SessionInv, Linked
<1>6. StaysLoggedIn'
  <2>1. u # Nobody BY <1>1 DEF Nobody, Numbers
  <2> SUFFICES ASSUME NEW b \in Browsers, login[b].user \in Accounts',
                      day <= login[b].day + SessionLife
               PROVE  cookie[b] \in DOMAIN sessions /\ sessions[cookie[b]].user = login[b].user
    BY DEF StaysLoggedIn
  <2>2. login[b].user \in Accounts
    BY <1>1, <2>1 DEF SessionInv, Known
  <2> QED BY <2>2 DEF SessionInv, StaysLoggedIn
<1> QED BY <1>2, <1>3, <1>4, <1>5, <1>6 DEF SessionInv

LEMMA SessionSwept ==
  ASSUME Numbers, Typed, SessionInv, Sweep PROVE SessionInv'
<1> DEFINE S == {s \in DOMAIN sessions : ~Swept(s)}
<1>1. S \in SUBSET DOMAIN sessions /\ sessions' = Keep(sessions, S)
  BY DEF Sweep
<1>2. DOMAIN sessions' = S /\ \A s \in S : sessions'[s] = sessions[s]
  BY <1>1 DEF Keep
<1>3. Accounts' = Accounts /\ Users' = Users BY DEF Sweep, Accounts, Users
<1>4. UNCHANGED <<account, made, cookie, login, day>> BY DEF Sweep
<1>5. OneRow' BY <1>4 DEF SessionInv, OneRow
<1>6. Known' BY <1>3, <1>4 DEF SessionInv, Known
<1>7. Separate' BY <1>4 DEF SessionInv, Separate
<1>8. Linked' BY <1>2, <1>4 DEF SessionInv, Linked
<1>9. StaysLoggedIn'
  <2> SUFFICES ASSUME NEW b \in Browsers, login[b].user \in Accounts,
                      day <= login[b].day + SessionLife
               PROVE  cookie[b] \in S /\ sessions'[cookie[b]].user = login[b].user
    BY <1>2, <1>3, <1>4 DEF StaysLoggedIn
  <2>1. cookie[b] \in DOMAIN sessions /\ sessions[cookie[b]].user = login[b].user
    BY DEF SessionInv, StaysLoggedIn
  <2>2. sessions[cookie[b]].expires = login[b].day + SessionLife
    BY <2>1 DEF SessionInv, Linked
  <2>3. login[b].day \in Nat /\ day \in Nat
    BY DEF Typed, Login, Numbers
  <2>4. ~Swept(cookie[b])
    BY <2>2, <2>3 DEF Swept, Expired, Numbers
  <2> QED BY <1>2, <2>1, <2>4
<1> QED BY <1>5, <1>6, <1>7, <1>8, <1>9 DEF SessionInv

LEMMA SessionRemoved ==
  ASSUME Numbers, Typed, SessionInv, NEW r \in Browsers, RemoveMember(r) PROVE SessionInv'
<1> DEFINE S == {s \in DOMAIN sessions : sessions[s].user # rq[r].user}
<1>1. DOMAIN sessions' = S /\ \A s \in S : sessions'[s] = sessions[s]
  BY DEF RemoveMember, CascadeSessions, Keep
<1>2. Accounts' = Accounts \ {rq[r].user} /\ Users' = Users
  BY RemovedRow
<1>3. UNCHANGED <<made, cookie, login, day>> BY DEF RemoveMember
<1>4. OneRow' BY RemovedRow DEF SessionInv, OneRow
<1>5. Known' BY <1>2, <1>3 DEF SessionInv, Known
<1>6. Separate' BY <1>3 DEF SessionInv, Separate
<1>7. Linked' BY <1>1, <1>3 DEF SessionInv, Linked
<1>8. StaysLoggedIn'
  <2> SUFFICES ASSUME NEW b \in Browsers, login[b].user \in Accounts',
                      day <= login[b].day + SessionLife
               PROVE  cookie[b] \in S /\ sessions'[cookie[b]].user = login[b].user
    BY <1>1, <1>3 DEF StaysLoggedIn
  <2>1. cookie[b] \in DOMAIN sessions /\ sessions[cookie[b]].user = login[b].user
    BY <1>2 DEF SessionInv, StaysLoggedIn
  <2> QED BY <1>1, <1>2, <2>1
<1> QED BY <1>4, <1>5, <1>6, <1>7, <1>8 DEF SessionInv

LEMMA SessionIssued ==
  ASSUME Numbers, Typed, SessionInv, NEW b \in Browsers, IssueSession(b) PROVE SessionInv'
<1>1. CASE rq[b].user \notin Accounts
  BY <1>1, SessionSame DEF IssueSession
<1>2. CASE rq[b].user \in Accounts
  <2> DEFINE n == made + 1
             r == [user |-> rq[b].user, expires |-> day + SessionLife]
  <2>1. /\ n \in 1..MaxSessions /\ made' = n
        /\ DOMAIN sessions' = DOMAIN sessions \cup {n} /\ n \notin DOMAIN sessions
        /\ \A s \in DOMAIN sessions : sessions'[s] = sessions[s]
        /\ sessions'[n] = r
        /\ cookie' = [cookie EXCEPT ![b] = n]
        /\ login' = [login EXCEPT ![b] = [user |-> rq[b].user, day |-> day]]
    BY <1>2, Issued
  <2>2. /\ \A c \in Browsers : cookie'[c] = IF c = b THEN n ELSE cookie[c]
        /\ login'[b].user = rq[b].user /\ login'[b].day = day
        /\ \A c \in Browsers : c # b => login'[c] = login[c]
    BY <2>1 DEF Typed
  <2>3. \A c \in Browsers : cookie[c] # n
    BY DEF SessionInv, Separate, Typed, Numbers
  <2>4. Accounts' = Accounts /\ Users' = Users /\ day' = day /\ account' = account
    BY DEF IssueSession, Accounts, Users
  <2>5. OneRow' BY <2>4 DEF SessionInv, OneRow
  <2>6. Known' BY <1>2, <2>2, <2>4 DEF SessionInv, Known, Typed
  <2>7. Separate' BY <2>1, <2>2, <2>3 DEF SessionInv, Separate, Typed, Numbers
  <2>8. Linked'
    <3> SUFFICES ASSUME NEW c \in Browsers, cookie'[c] \in DOMAIN sessions'
                 PROVE  /\ sessions'[cookie'[c]].user = login'[c].user
                        /\ sessions'[cookie'[c]].expires = login'[c].day + SessionLife
      BY DEF Linked
    <3>1. CASE c = b
      BY <2>1, <2>2, <3>1
    <3>2. CASE c # b
      <4>1. cookie[c] \in DOMAIN sessions BY <2>1, <2>2, <2>3, <3>2
      <4> QED BY <2>1, <2>2, <3>2, <4>1 DEF SessionInv, Linked
    <3> QED BY <3>1, <3>2
  <2>9. StaysLoggedIn'
    <3> SUFFICES ASSUME NEW c \in Browsers, login'[c].user \in Accounts,
                        day <= login'[c].day + SessionLife
                 PROVE  /\ cookie'[c] \in DOMAIN sessions'
                        /\ sessions'[cookie'[c]].user = login'[c].user
      BY <2>4 DEF StaysLoggedIn
    <3>1. CASE c = b
      BY <2>1, <2>2, <3>1
    <3>2. CASE c # b
      BY <2>1, <2>2, <3>2 DEF SessionInv, StaysLoggedIn
    <3> QED BY <3>1, <3>2
  <2> QED BY <2>5, <2>6, <2>7, <2>8, <2>9 DEF SessionInv
<1> QED BY <1>1, <1>2

LEMMA SessionLeft ==
  ASSUME Numbers, Typed, SessionInv, NEW b \in Browsers, Logout(b) PROVE SessionInv'
<1>1. /\ Accounts' = Accounts /\ Users' = Users /\ account' = account
      /\ UNCHANGED <<day, made>>
  BY DEF Logout, Accounts, Users
<1>2. /\ DOMAIN sessions \ {cookie[b]} \subseteq DOMAIN sessions'
      /\ DOMAIN sessions' \subseteq DOMAIN sessions
      /\ \A s \in DOMAIN sessions' : sessions'[s] = sessions[s]
  BY DEF Logout, Keep
<1>3. /\ \A c \in Browsers : cookie'[c] = IF c = b THEN 0 ELSE cookie[c]
      /\ login'[b] = NoLogin /\ \A c \in Browsers : c # b => login'[c] = login[c]
  BY DEF Logout, Typed
<1>4. 0 \notin DOMAIN sessions
  BY DEF Typed
<1>5. OneRow' BY <1>1 DEF SessionInv, OneRow
<1>6. Known' BY <1>1, <1>3 DEF SessionInv, Known, NoLogin
<1>7. Separate' BY <1>1, <1>3 DEF SessionInv, Separate, Typed
<1>8. Linked' BY <1>2, <1>3, <1>4 DEF SessionInv, Linked
<1>9. StaysLoggedIn'
  <2> SUFFICES ASSUME NEW c \in Browsers, login'[c].user \in Accounts,
                      day <= login'[c].day + SessionLife
               PROVE  /\ cookie'[c] \in DOMAIN sessions'
                      /\ sessions'[cookie'[c]].user = login'[c].user
    BY <1>1 DEF StaysLoggedIn
  <2>1. c # b
    BY <1>3 DEF NoLogin, Accounts
  <2>2. cookie[c] \in DOMAIN sessions /\ sessions[cookie[c]].user = login[c].user
    BY <1>3, <2>1 DEF SessionInv, StaysLoggedIn
  <2>3. cookie[c] # cookie[b]
    BY <1>4, <2>1, <2>2 DEF SessionInv, Separate
  <2> QED BY <1>2, <1>3, <2>1, <2>2, <2>3
<1> QED BY <1>5, <1>6, <1>7, <1>8, <1>9 DEF SessionInv

LEMMA SessionNext ==
  ASSUME Numbers, Typed, SessionInv, [Next]_accessVars PROVE SessionInv'
<1>1. CASE UNCHANGED accessVars
  BY <1>1, SessionSame DEF accessVars
<1>2. CASE DayPasses
  <2>1. UNCHANGED <<account, org, sessions, made, cookie, login>> /\ day' = day + 1
    BY <1>2 DEF DayPasses
  <2>2. Accounts' = Accounts /\ Users' = Users BY <2>1 DEF Accounts, Users
  <2>3. OneRow' /\ Known' /\ Separate' /\ Linked'
    BY <2>1, <2>2 DEF SessionInv, OneRow, Known, Separate, Linked
  <2>4. day \in Nat /\ \A b \in Browsers : login[b].day \in Nat
    BY DEF Typed, Login, Numbers
  <2>5. StaysLoggedIn'
    BY <2>1, <2>2, <2>4 DEF SessionInv, StaysLoggedIn, Numbers
  <2> QED BY <2>3, <2>5 DEF SessionInv
<1>3. ASSUME NEW b \in Browsers, CreateOrganization(b) PROVE SessionInv'
  <2>1. UNCHANGED <<sessions, made, cookie, login, day>>
    BY <1>3 DEF CreateOrganization
  <2>2. CASE UNCHANGED <<account, org>>
    BY <2>1, <2>2, SessionSame
  <2>3. ASSUME NEW p \in People, NEW s \in OrgSlugs, account[p] = Nobody, NewAccount(p, s)
        PROVE  SessionInv'
    BY <2>1, <2>3, SessionJoined
  <2> QED BY <1>3, <2>2, <2>3 DEF CreateOrganization
<1>4. ASSUME NEW b \in Browsers, AcceptInvitation(b) PROVE SessionInv'
  <2> PICK p \in People, s \in Organizations : account[p] = Nobody /\ NewAccount(p, s)
    BY <1>4 DEF AcceptInvitation
  <2>1. s \in OrgSlugs
    BY DEF Organizations, Typed, Numbered, Users
  <2>2. UNCHANGED <<sessions, made, cookie, login, day>>
    BY <1>4 DEF AcceptInvitation
  <2> QED BY <2>1, <2>2, SessionJoined
<1>5. ASSUME NEW b \in Browsers, Unlock(b) \/ AskSetup(b) \/ CountUsers(b) \/ AskLogin(b)
                                   \/ AskRemove(b)
      PROVE SessionInv'
  BY <1>5, SessionSame DEF Unlock, AskSetup, CountUsers, AskLogin, AskRemove
<1> QED
  BY <1>1, <1>2, <1>3, <1>4, <1>5, SessionSwept, SessionRemoved, SessionIssued, SessionLeft
  DEF Next

LEMMA SessionInvariant == ASSUME Numbers PROVE Spec => []SessionInv
<1>1. Init => SessionInv BY SessionInit
<1>2. Typed /\ SessionInv /\ [Next]_accessVars => SessionInv' BY SessionNext
<1> QED BY <1>1, <1>2, TypedInvariant, PTL DEF Spec

\* A session lets in as an account that still is one, in the browser that logged in as it,
\* from the login until the session's life is over, unless its browser logs out or the
\* account goes; and it lets in nobody else.
THEOREM SessionsLetIn == ASSUME Numbers PROVE Spec => []LetInExactlyWhileLoggedIn
<1>1. ASSUME Typed, SessionInv PROVE LetInWhileLoggedIn
  <2> SUFFICES ASSUME NEW b \in Browsers, SessionUser(b) # Nobody
               PROVE  /\ SessionUser(b) \in Accounts /\ login[b].user = SessionUser(b)
                      /\ day <= login[b].day + SessionLife
    BY DEF LetInWhileLoggedIn
  <2> DEFINE s == cookie[b]
  <2>1. s \in DOMAIN sessions /\ ~Expired(s) /\ SessionUser(b) = sessions[s].user
    BY DEF SessionUser
  <2>2. sessions[s] \in [user : Accounts, expires : Nat] /\ day \in 0..MaxDays
    BY <1>1, <2>1 DEF Typed
  <2>3. sessions[s].user = login[b].user /\ sessions[s].expires = login[b].day + SessionLife
    BY <1>1, <2>1 DEF SessionInv, Linked
  <2>4. day <= sessions[s].expires
    BY <2>1, <2>2 DEF Expired, Numbers
  <2> QED BY <2>1, <2>2, <2>3, <2>4
<1>2. SessionInv => StaysLoggedIn BY DEF SessionInv
<1>3. Typed /\ SessionInv => LetInExactlyWhileLoggedIn
  BY <1>1, <1>2 DEF LetInExactlyWhileLoggedIn
<1> QED BY <1>3, TypedInvariant, SessionInvariant, PTL

-----------------------------------------------------------------------------
(***************************************************************************)
(* The first-run setup.                                                    *)
(***************************************************************************)

\* Unless removals overlapped, there is an account once there was one: whoever asked for
\* the removal under way is still there.
RemovalInv ==
  ~overlapped =>
    /\ Users # {} => Completed
    /\ \A b \in Browsers : rq[b].pc = "remove" =>
         /\ \E u \in Accounts : u # rq[b].user
         /\ \A c \in Browsers : rq[c].pc = "remove" => c = b

\* A setup that counted no users is the only one that did, and nobody founds anything
\* before it.
SetupInv ==
  ~overlapped =>
    /\ \A u, v \in Users : org[u] = org[v]
    /\ \A b \in Browsers : rq[b].pc = "counted" =>
         Users = {} /\ \A c \in Browsers : rq[c].pc = "counted" => c = b

\* What a setup under way knows of the gate that let it in.
GateInv ==
  \A b \in Browsers :
    /\ unlocked[b] = Never \/ unlocked[b] <= day
    /\ gate /\ rq[b].pc \in {"setup", "counted"} => rq[b].proved \/ Users # {}

FoundingInv == RemovalInv /\ SetupInv /\ GateInv

LEMMA FoundingInit == ASSUME Init PROVE FoundingInv
<1>1. Users = {} BY DEF Init, Users
<1>2. \A b \in Browsers : rq[b].pc = "idle" /\ unlocked[b] = Never BY DEF Init, Idle
<1> QED BY <1>1, <1>2 DEF FoundingInv, RemovalInv, SetupInv, GateInv

\* Steps that change no account and begin no request about one.
LEMMA FoundingSame ==
  ASSUME Numbers, Typed, FoundingInv, day' \in {day, day + 1},
         \A b \in Browsers :
           rq'[b].pc \in {"setup", "counted", "remove"} => rq'[b] = rq[b],
         \A b \in Browsers : unlocked'[b] \in {unlocked[b], Never},
         UNCHANGED <<account, org, gate, overlapped>>
  PROVE  FoundingInv'
<1>1. Users' = Users /\ Accounts' = Accounts /\ Completed' = Completed
  BY DEF Users, Accounts, Completed
<1>2. RemovalInv' BY <1>1 DEF FoundingInv, RemovalInv
<1>3. SetupInv' BY <1>1 DEF FoundingInv, SetupInv
<1>4. day \in Nat /\ unlocked \in [Browsers -> 0..Never] BY DEF Typed, Numbers
<1>5. GateInv'
  <2> SUFFICES ASSUME NEW b \in Browsers
               PROVE  /\ unlocked'[b] = Never \/ unlocked'[b] <= day'
                      /\ gate /\ rq'[b].pc \in {"setup", "counted"}
                           => rq'[b].proved \/ Users # {}
    BY <1>1 DEF GateInv, Never
  <2>1. unlocked'[b] = Never \/ unlocked'[b] <= day'
    BY <1>4 DEF Never, Numbers, FoundingInv, GateInv
  <2> QED BY <2>1 DEF FoundingInv, GateInv
<1> QED BY <1>2, <1>3, <1>5 DEF FoundingInv

LEMMA FoundingNext ==
  ASSUME Numbers, Typed, FoundingInv, [Next]_accessVars PROVE FoundingInv'
<1> day \in Nat
  BY DEF Typed, Numbers
<1>1. CASE UNCHANGED accessVars
  BY <1>1, FoundingSame DEF accessVars
<1>2. CASE DayPasses
  BY <1>2, FoundingSame DEF DayPasses
<1>3. CASE Sweep
  BY <1>3, FoundingSame DEF Sweep
<1>4. ASSUME NEW b \in Browsers, RemoveMember(b) PROVE FoundingInv'
  <2>1. \A c \in Browsers : rq'[c] = IF c = b THEN Idle ELSE rq[c]
    BY <1>4 DEF RemoveMember, Typed
  <2>2. Accounts' = Accounts \ {rq[b].user} /\ Users' = Users
    BY <1>4, RemovedRow
  <2>3. UNCHANGED <<org, gate, overlapped, unlocked, day>> /\ rq[b].pc = "remove"
    BY <1>4 DEF RemoveMember
  <2>4. RemovalInv'
    <3> SUFFICES ASSUME ~overlapped
                 PROVE  Completed' /\ \A c \in Browsers : rq'[c].pc # "remove"
      BY <2>3 DEF RemovalInv
    <3>1. /\ \E u \in Accounts : u # rq[b].user
          /\ \A c \in Browsers : rq[c].pc = "remove" => c = b
      BY <2>3 DEF FoundingInv, RemovalInv
    <3>2. Accounts' # {} BY <2>2, <3>1
    <3>3. Completed' BY <3>2 DEF Completed
    <3> QED BY <2>1, <3>1, <3>3 DEF Idle
  <2>5. SetupInv'
    BY <2>1, <2>2, <2>3 DEF FoundingInv, SetupInv, Idle
  <2>6. GateInv'
    BY <2>1, <2>2, <2>3 DEF FoundingInv, GateInv, Idle, Never
  <2> QED BY <2>4, <2>5, <2>6 DEF FoundingInv
<1>5. ASSUME NEW b \in Browsers, Unlock(b) PROVE FoundingInv'
  <2>1. Completed' = Completed /\ Users' = Users /\ Accounts' = Accounts
    BY <1>5 DEF Unlock, Completed, Accounts, Users
  <2>2. \A c \in Browsers : unlocked'[c] \in {unlocked[c], day}
    BY <1>5 DEF Unlock, SetGateCookie, Typed
  <2>3. RemovalInv' /\ SetupInv'
    BY <1>5, <2>1 DEF Unlock, FoundingInv, RemovalInv, SetupInv
  <2>4. GateInv'
    BY <1>5, <2>1, <2>2 DEF Unlock, FoundingInv, GateInv, Never
  <2> QED BY <2>3, <2>4 DEF FoundingInv
<1>6. ASSUME NEW b \in Browsers, AskSetup(b) PROVE FoundingInv'
  <2>1. /\ rq'[b].pc = "setup"
        /\ rq'[b].proved = (unlocked[b] # Never /\ day < unlocked[b] + GateLife)
        /\ \A c \in Browsers : c # b => rq'[c] = rq[c]
    BY <1>6 DEF AskSetup, Typed, Idle
  <2>2. Completed' = Completed /\ Users' = Users /\ Accounts' = Accounts
    BY <1>6 DEF AskSetup, Completed, Accounts, Users
  <2>3. UNCHANGED <<org, gate, overlapped, unlocked, day>>
    BY <1>6 DEF AskSetup
  <2>4. gate => rq'[b].proved \/ Users # {}
    <3>1. unlocked[b] \in Nat BY DEF Typed, Never, Numbers
    <3>2. Fresh(b) => unlocked[b] # Never /\ day < unlocked[b] + GateLife
      BY <3>1 DEF Fresh, Numbers
    <3>3. Fresh(b) => rq'[b].proved BY <2>1, <3>2
    <3>4. Completed => Users # {} BY DEF Completed, Typed
    <3> QED BY <1>6, <3>3, <3>4 DEF AskSetup, Admitted
  <2>5. RemovalInv' /\ SetupInv'
    BY <2>1, <2>2, <2>3 DEF FoundingInv, RemovalInv, SetupInv
  <2>6. GateInv'
    BY <2>1, <2>2, <2>3, <2>4 DEF FoundingInv, GateInv, Never
  <2> QED BY <2>5, <2>6 DEF FoundingInv
<1>7. ASSUME NEW b \in Browsers, CountUsers(b) PROVE FoundingInv'
  <2>1. Completed' = Completed /\ Users' = Users /\ Accounts' = Accounts
    BY <1>7 DEF CountUsers, Completed, Accounts, Users
  <2>2. UNCHANGED <<account, org, gate, unlocked, day>> /\ rq[b].pc = "setup"
    BY <1>7 DEF CountUsers
  <2>3. CASE Completed
    <3>1. overlapped' = overlapped BY <1>7, <2>3 DEF CountUsers, Typed
    <3>2. rq' = [rq EXCEPT ![b] = Idle] BY <1>7, <2>3 DEF CountUsers
    <3>3. \A c \in Browsers : rq'[c] = IF c = b THEN Idle ELSE rq[c]
      BY <3>2 DEF Typed
    <3>4. \A c \in Browsers :
            rq'[c].pc \in {"setup", "counted", "remove"} => rq'[c] = rq[c]
      BY <3>3 DEF Idle
    <3> QED BY <2>2, <3>1, <3>4, FoundingSame
  <2>4. CASE ~Completed
    <3>1. /\ rq'[b].pc = "counted" /\ rq'[b].proved = rq[b].proved
          /\ \A c \in Browsers : c # b => rq'[c] = rq[c]
      <4>1. rq' = [rq EXCEPT ![b].pc = "counted"] BY <1>7, <2>4 DEF CountUsers
      <4>2. rq[b] \in Request BY DEF Typed
      <4> QED BY <4>1, <4>2 DEF Typed, Request
    <3>2. ~overlapped' => ~overlapped /\ \A c \in Browsers : rq[c].pc # "counted"
      BY <1>7, <2>4 DEF CountUsers
    <3>3. ~overlapped' => Users = {}
      BY <2>4, <3>2 DEF FoundingInv, RemovalInv
    <3>4. RemovalInv'
      BY <2>1, <3>1, <3>2 DEF FoundingInv, RemovalInv
    <3>5. SetupInv'
      BY <2>1, <2>2, <3>1, <3>2, <3>3 DEF FoundingInv, SetupInv
    <3>6. GateInv'
      BY <2>1, <2>2, <3>1 DEF FoundingInv, GateInv, Never
    <3> QED BY <3>4, <3>5, <3>6 DEF FoundingInv
  <2> QED BY <2>3, <2>4
<1>8. ASSUME NEW b \in Browsers, CreateOrganization(b) PROVE FoundingInv'
  <2>1. \A c \in Browsers : rq'[c] = IF c = b THEN Idle ELSE rq[c]
    BY <1>8 DEF CreateOrganization, Typed
  <2>2. /\ UNCHANGED <<gate, day, overlapped>> /\ rq[b].pc = "counted"
        /\ \A c \in Browsers : rq'[c].pc \in {"setup", "counted", "remove"}
             => rq'[c] = rq[c] /\ c # b
    BY <1>8, <2>1 DEF CreateOrganization, Idle
  <2>3. CASE UNCHANGED <<account, org, unlocked>>
    BY <2>2, <2>3, FoundingSame
  <2>4. ASSUME NEW p \in People, NEW s \in OrgSlugs, account[p] = Nobody,
               NewAccount(p, s), ClearGateCookie(b)
        PROVE  FoundingInv'
    <3> DEFINE u == Cardinality(Users) + 1
    <3>1. Users' = Users \cup {u} /\ Accounts' = Accounts \cup {u}
      BY <2>4, NewRow
    <3> HIDE DEF u
    <3>2. Completed' BY <3>1 DEF Completed
    <3>3. RemovalInv'
      BY <2>2, <3>1, <3>2 DEF FoundingInv, RemovalInv
    <3>4. SetupInv'
      <4> SUFFICES ASSUME ~overlapped
                   PROVE  /\ \A v, w \in Users' : org'[v] = org'[w]
                          /\ \A c \in Browsers : rq'[c].pc # "counted"
        BY <2>2 DEF SetupInv
      <4>1. Users = {} BY <2>2 DEF FoundingInv, SetupInv
      <4> QED BY <2>2, <3>1, <4>1 DEF FoundingInv, SetupInv
    <3>5. \A c \in Browsers : unlocked'[c] \in {unlocked[c], Never}
      BY <2>4 DEF ClearGateCookie, Typed
    <3>6. GateInv'
      BY <2>2, <3>1, <3>5 DEF FoundingInv, GateInv, Never
    <3> QED BY <3>3, <3>4, <3>6 DEF FoundingInv
  <2> QED BY <1>8, <2>3, <2>4 DEF CreateOrganization
<1>9. ASSUME NEW b \in Browsers, AcceptInvitation(b) PROVE FoundingInv'
  <2> DEFINE u == Cardinality(Users) + 1
  <2> PICK p \in People, s \in Organizations :
         /\ account[p] = Nobody /\ NewAccount(p, s)
         /\ rq' = [rq EXCEPT ![b] = [Idle EXCEPT !.pc = "issue", !.user = u]]
    BY <1>9 DEF AcceptInvitation
  <2>1. s \in OrgSlugs /\ Users # {} /\ \E v \in Users : s = org[v]
    BY DEF Organizations, Typed, Numbered, Users
  <2>2. /\ Users' = Users \cup {u} /\ Accounts' = Accounts \cup {u} /\ u \notin Users
        /\ org'[u] = s /\ \A v \in Users : org'[v] = org[v]
    BY <2>1, NewRow
  <2> HIDE DEF u
  <2>3. \A c \in Browsers : rq'[c].pc \in {"setup", "counted", "remove"} => rq'[c] = rq[c]
    BY DEF Typed, Idle
  <2>4. UNCHANGED <<gate, day, overlapped, unlocked>>
    BY <1>9 DEF AcceptInvitation
  <2>5. Completed' BY <2>2 DEF Completed
  <2>6. RemovalInv'
    BY <2>2, <2>3, <2>4, <2>5 DEF FoundingInv, RemovalInv
  <2>7. SetupInv'
    <3> SUFFICES ASSUME ~overlapped
                 PROVE  /\ \A v, w \in Users' : org'[v] = org'[w]
                        /\ \A c \in Browsers : rq'[c].pc # "counted"
      BY <2>4 DEF SetupInv
    <3>1. \A c \in Browsers : rq[c].pc # "counted"
      BY <2>1 DEF FoundingInv, SetupInv
    <3>2. \A v \in Users' : org'[v] = s
      BY <2>1, <2>2 DEF FoundingInv, SetupInv
    <3> QED BY <2>3, <3>1, <3>2
  <2>8. GateInv'
    BY <2>2, <2>3, <2>4 DEF FoundingInv, GateInv, Never
  <2> QED BY <2>6, <2>7, <2>8 DEF FoundingInv
<1>10. ASSUME NEW b \in Browsers, AskLogin(b) PROVE FoundingInv'
  <2>1. \A c \in Browsers : rq'[c].pc \in {"setup", "counted", "remove"} => rq'[c] = rq[c]
    BY <1>10 DEF AskLogin, Typed, Idle
  <2> QED BY <1>10, <2>1, FoundingSame DEF AskLogin
<1>11. ASSUME NEW b \in Browsers, IssueSession(b) PROVE FoundingInv'
  <2>1. \A c \in Browsers : rq'[c].pc \in {"setup", "counted", "remove"} => rq'[c] = rq[c]
    BY <1>11 DEF IssueSession, Typed, Idle
  <2> QED BY <1>11, <2>1, FoundingSame DEF IssueSession
<1>12. ASSUME NEW b \in Browsers, Logout(b) PROVE FoundingInv'
  BY <1>12, FoundingSame DEF Logout
<1>13. ASSUME NEW b \in Browsers, AskRemove(b) PROVE FoundingInv'
  <2> PICK u \in Accounts \ {SessionUser(b)} :
         rq' = [rq EXCEPT ![b] = [Idle EXCEPT !.pc = "remove", !.user = u]]
    BY <1>13 DEF AskRemove
  <2>1. /\ rq'[b].pc = "remove" /\ rq'[b].user = u
        /\ \A c \in Browsers : c # b => rq'[c] = rq[c]
    BY DEF Typed, Idle
  <2>2. SessionUser(b) \in Accounts
    BY <1>13 DEF AskRemove, SessionUser, Typed
  <2>3. Completed' = Completed /\ Users' = Users /\ Accounts' = Accounts
    BY <1>13 DEF AskRemove, Completed, Accounts, Users
  <2>4. UNCHANGED <<org, gate, unlocked, day>>
    BY <1>13 DEF AskRemove
  <2>5. ~overlapped' => ~overlapped /\ \A c \in Browsers : rq[c].pc # "remove"
    BY <1>13 DEF AskRemove
  <2>6. RemovalInv'
    BY <2>1, <2>2, <2>3, <2>5 DEF FoundingInv, RemovalInv
  <2>7. SetupInv'
    BY <2>1, <2>3, <2>4, <2>5 DEF FoundingInv, SetupInv
  <2>8. GateInv'
    BY <2>1, <2>3, <2>4 DEF FoundingInv, GateInv, Never
  <2> QED BY <2>6, <2>7, <2>8 DEF FoundingInv
<1> QED BY <1>1, <1>2, <1>3, <1>4, <1>5, <1>6, <1>7, <1>8, <1>9, <1>10, <1>11, <1>12, <1>13
        DEF Next

LEMMA FoundingInvariant == ASSUME Numbers PROVE Spec => []FoundingInv
<1>1. Init => FoundingInv BY FoundingInit
<1>2. Typed /\ FoundingInv /\ [Next]_accessVars => FoundingInv' BY FoundingNext
<1> QED BY <1>1, <1>2, TypedInvariant, PTL DEF Spec

\* As long as no two setups and no two removals overlapped there is at most one
\* organization.
THEOREM OneOrganization == ASSUME Numbers PROVE Spec => []SerialOneOrganization
<1>1. ASSUME FoundingInv PROVE SerialOneOrganization
  <2> SUFFICES ASSUME ~overlapped PROVE Cardinality(Organizations) <= 1
    BY DEF SerialOneOrganization
  <2>1. CASE Users = {}
    <3>1. Organizations = {} BY <2>1 DEF Organizations
    <3> QED BY <3>1, FS_EmptySet
  <2>2. CASE Users # {}
    <3> PICK u \in Users : TRUE BY <2>2
    <3>1. Organizations = {org[u]} BY <1>1 DEF Organizations, FoundingInv, SetupInv
    <3> QED BY <3>1, FS_Singleton
  <2> QED BY <2>1, <2>2
<1> QED BY <1>1, FoundingInvariant, PTL

\* A setup that creates the first account while the gate is on had its installer password
\* proved when it was asked for.
THEOREM FounderProved == ASSUME Numbers PROVE Spec => FounderUnlocked
<1>1. FoundingInv => FounderStep
  BY DEF FoundingInv, GateInv, FounderStep
<1>2. FoundingInv => [FounderStep]_accessVars BY <1>1
<1> QED BY <1>2, FoundingInvariant, PTL DEF FounderUnlocked
=============================================================================
