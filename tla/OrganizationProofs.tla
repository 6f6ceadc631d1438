------------------------- MODULE OrganizationProofs -------------------------
(***************************************************************************)
(* Proofs about Members and GitHub, which an organization's owners and     *)
(* administrators change at the same time and which share no state.        *)
(*                                                                         *)
(* Members, for any people, invitations and requests in hand: type         *)
(* correctness; owners remain while role requests do not overlap, and roles*)
(* change only by those entitled to; only a pending invitation admits.     *)
(*                                                                         *)
(* GitHub, for any applications, projects and operators and any number of  *)
(* pushes, deliveries and Apps: type correctness, no target left behind the*)
(* newest push that was queued for it, and deployments on push only while  *)
(* an App is connected.  Applications and projects are rows of two tables, *)
(* so the theorems that need it assume that nothing is both.               *)
(***************************************************************************)
EXTENDS Members, GitHub, FiniteSetTheorems, TLAPS

-----------------------------------------------------------------------------
(***************************************************************************)
(* Members.                                                                *)
(***************************************************************************)

RoleType == [People -> Roles \cup {"none"}]
InvType == [Invitations -> [email : People \cup {None}, role : {"member", "admin"},
                            accepted : BOOLEAN, revoked : BOOLEAN, expired : BOOLEAN]]
Request == [pc : {"idle", "read", "count", "pending", "write"},
            op : {"none", "role", "remove", "invite", "revoke", "accept"},
            by : People \cup {None}, byRole : Roles \cup {"none"},
            who : People \cup {None}, to : Roles \cup {"none"},
            inv : Invitations \cup {None}]

\* A request names what its operation needs.
WellFormed(r) ==
  /\ r.pc = "idle" <=> r.op = "none"
  /\ r.op \in {"role", "remove", "invite"} => r.who \in People
  /\ r.op \in {"role", "remove", "invite", "revoke"} => r.by \in People
  /\ r.op = "role" => r.to \in Roles
  /\ r.op = "invite" => r.to \in {"member", "admin"}
  /\ r.op \in {"revoke", "accept"} => r.inv \in Invitations

Typed == /\ role \in RoleType /\ inv \in InvType
         /\ rq \in [Clients -> Request]
         /\ \A c \in Clients : WellFormed(rq[c])

LEMMA TypedImpliesTypeOK == Typed => TypeOK
BY DEF Typed, TypeOK, RoleType, InvType, Request, WellFormed

LEMMA IdleType == Idle \in Request /\ WellFormed(Idle)
BY DEF Idle, Request, WellFormed, Roles

LEMMA TypedInit == Init => Typed
<1> SUFFICES ASSUME Init PROVE Typed
  OBVIOUS
<1>1. role \in RoleType BY DEF Init, RoleType, Roles
<1>2. inv \in InvType BY DEF Init, InvType, NoInv
<1> QED BY <1>1, <1>2, IdleType DEF Init, Typed

\* What the request of client c becomes is all that matters of a step's rq'.
LEMMA RequestStep ==
  ASSUME Typed, NEW c \in Clients, NEW r \in Request, WellFormed(r),
         rq' = [rq EXCEPT ![c] = r], role' \in RoleType, inv' \in InvType
  PROVE  Typed'
BY DEF Typed

LEMMA AnswerStep ==
  ASSUME Typed, NEW c \in Clients, Answer(c), role' \in RoleType, inv' \in InvType
  PROVE  Typed'
BY RequestStep, IdleType DEF Answer

LEMMA GotoStep ==
  ASSUME Typed, NEW c \in Clients, NEW p \in {"read", "count", "pending", "write"},
         rq[c].op # "none", Goto(c, p), UNCHANGED <<role, inv>>
  PROVE  Typed'
<1> DEFINE r == [rq[c] EXCEPT !.pc = p]
<1>1. rq[c] \in Request /\ WellFormed(rq[c]) BY DEF Typed
<1>2. r \in Request BY <1>1 DEF Request
<1>3. WellFormed(r) BY <1>1 DEF WellFormed, Request
<1>4. rq' = [rq EXCEPT ![c] = r] BY DEF Goto, Typed
<1> QED BY <1>2, <1>3, <1>4, RequestStep DEF Typed

LEMMA AuthenticateStep ==
  ASSUME Typed, NEW c \in Clients, NEW by \in People, NEW r \in Request,
         r.op \in {"role", "remove", "invite", "revoke"},
         r.op # "revoke" => r.who \in People,
         r.op = "role" => r.to \in Roles,
         r.op = "invite" => r.to \in {"member", "admin"},
         r.op = "revoke" => r.inv \in Invitations,
         Authenticate(c, by, r)
  PROVE  Typed'
<1> DEFINE s == [r EXCEPT !.pc = "read", !.by = by, !.byRole = role[by]]
<1>1. role[by] \in Roles \cup {"none"} BY DEF Typed, RoleType
<1>2. s \in Request BY <1>1 DEF Request
<1>3. WellFormed(s) BY DEF WellFormed, Request
<1>4. rq' = [rq EXCEPT ![c] = s] BY DEF Authenticate
<1> QED BY <1>2, <1>3, <1>4, RequestStep DEF Typed, Authenticate

LEMMA JoinType ==
  ASSUME Typed, NEW i \in Invitations, Pending(i), Join(i)
  PROVE  role' \in RoleType /\ inv' \in InvType
<1>1. inv[i].email \in People /\ inv[i].role \in Roles
  BY DEF Typed, InvType, Pending, Roles
<1>2. role' \in RoleType
  BY <1>1 DEF Typed, Join, RoleType
<1>3. inv' \in InvType
  BY DEF Typed, Join, InvType
<1> QED BY <1>2, <1>3

LEMMA TypedNext == ASSUME Typed, [Next]_vars PROVE Typed'
<1>1. CASE UNCHANGED vars
  BY <1>1 DEF vars, Typed
<1>2. ASSUME NEW i \in Invitations, Expire(i) PROVE Typed'
  BY <1>2 DEF Expire, Typed, InvType
<1>3. ASSUME NEW c \in Clients, Step(c) PROVE Typed'
  <2> rq[c] \in Request /\ WellFormed(rq[c])
    BY DEF Typed
  <2>1. ASSUME NEW by \in People, NEW p \in People, AskRemove(c, by, p) PROVE Typed'
    <3> DEFINE r == [Idle EXCEPT !.op = "remove", !.who = p]
    <3>1. r \in Request /\ r.op = "remove" /\ r.who = p BY DEF Idle, Request
    <3> QED BY <2>1, <3>1, AuthenticateStep DEF AskRemove
  <2>2. ASSUME NEW by \in People, NEW p \in People, NEW to \in Roles, AskRole(c, by, p, to)
        PROVE Typed'
    <3> DEFINE r == [Idle EXCEPT !.op = "role", !.who = p, !.to = to]
    <3>1. r \in Request /\ r.op = "role" /\ r.who = p /\ r.to = to BY DEF Idle, Request
    <3> QED BY <2>2, <3>1, AuthenticateStep DEF AskRole
  <2>3. ASSUME NEW by \in People, NEW p \in People, NEW to \in Roles, AskInvite(c, by, p, to)
        PROVE Typed'
    <3> DEFINE r == [Idle EXCEPT !.op = "invite", !.who = p, !.to = to]
    <3>1. r \in Request /\ r.op = "invite" /\ r.who = p /\ r.to \in {"member", "admin"}
      BY <2>3 DEF Idle, Request, AskInvite, Roles
    <3> QED BY <2>3, <3>1, AuthenticateStep DEF AskInvite
  <2>4. ASSUME NEW by \in People, NEW i \in Invitations, AskRevoke(c, by, i) PROVE Typed'
    <3> DEFINE r == [Idle EXCEPT !.op = "revoke", !.inv = i]
    <3>1. r \in Request /\ r.op = "revoke" /\ r.inv = i BY DEF Idle, Request
    <3> QED BY <2>4, <3>1, AuthenticateStep DEF AskRevoke
  <2>5. ASSUME NEW i \in Invitations, AskAccept(c, i) PROVE Typed'
    <3> DEFINE r == [Idle EXCEPT !.op = "accept", !.pc = "read", !.inv = i]
    <3>1. r \in Request /\ WellFormed(r) BY DEF Idle, Request, WellFormed
    <3> QED BY <2>5, <3>1, RequestStep DEF AskAccept, Typed
  <2>6. ASSUME NEW i \in Invitations, CreateInvitation(c, i) PROVE Typed'
    <3>1. rq[c].who \in People /\ rq[c].to \in {"member", "admin"}
      BY <2>6 DEF CreateInvitation, At, WellFormed
    <3>2. inv' \in InvType
      <4>1. CASE role[rq[c].by] = "none"
        BY <2>6, <4>1 DEF CreateInvitation, Typed
      <4>2. CASE role[rq[c].by] # "none"
        BY <2>6, <3>1, <4>2 DEF CreateInvitation, Typed, InvType
      <4> QED BY <4>1, <4>2
    <3> QED BY <2>6, <3>2, AnswerStep DEF CreateInvitation, Typed
  <2>7. CASE ReadMember(c)
    BY <2>7, AnswerStep, GotoStep DEF ReadMember, OnMembers, Typed
  <2>8. CASE CountOwners(c)
    BY <2>8, AnswerStep, GotoStep DEF CountOwners, OnMembers, Typed
  <2>9. CASE WriteMember(c)
    <3>1. rq[c].who \in People /\ (rq[c].op = "role" => rq[c].to \in Roles)
      BY <2>9 DEF WriteMember, OnMembers, WellFormed
    <3>2. role' \in RoleType
      BY <2>9, <3>1 DEF WriteMember, Typed, RoleType
    <3> QED BY <2>9, <3>2, AnswerStep DEF WriteMember, Typed
  <2>10. CASE CheckAccount(c)
    BY <2>10, AnswerStep, GotoStep DEF CheckAccount, At, Typed
  <2>11. CASE CheckPending(c)
    BY <2>11, AnswerStep, GotoStep DEF CheckPending, At, Typed
  <2>12. CASE ReadRevoked(c)
    BY <2>12, AnswerStep, GotoStep DEF ReadRevoked, At, Typed
  <2>13. CASE Revoke(c)
    <3>1. inv' \in InvType BY <2>13 DEF Revoke, At, WellFormed, Typed, InvType
    <3> QED BY <2>13, <3>1, AnswerStep DEF Revoke, Typed
  <2>14. CASE LookUp(c)
    BY <2>14, AnswerStep, GotoStep DEF LookUp, At, Typed
  <2>15. CASE ClaimAndCreate(c)
    <3>1. rq[c].inv \in Invitations BY <2>15 DEF ClaimAndCreate, At, WellFormed
    <3>2. role' \in RoleType /\ inv' \in InvType
      BY <2>15, <3>1, JoinType DEF ClaimAndCreate, Typed
    <3> QED BY <2>15, <3>2, AnswerStep DEF ClaimAndCreate
  <2> QED
    BY <1>3, <2>1, <2>2, <2>3, <2>4, <2>5, <2>6, <2>7, <2>8, <2>9, <2>10, <2>11,
       <2>12, <2>13, <2>14, <2>15 DEF Step
<1> QED BY <1>1, <1>2, <1>3 DEF Next

LEMMA AlwaysTyped == Spec => []Typed
<1>1. Init => Typed BY TypedInit
<1>2. Typed /\ [Next]_vars => Typed' BY TypedNext
<1> QED BY <1>1, <1>2, PTL DEF Spec

\* Every reachable state is well typed, for any people, invitations and requests.
THEOREM TypeCorrect == Spec => []TypeOK
<1>1. Typed => TypeOK BY TypedImpliesTypeOK
<1> QED BY <1>1, AlwaysTyped, PTL

-----------------------------------------------------------------------------
(***************************************************************************)
(* Owners.  That somebody is left who is an owner is not inductive: the    *)
(* step that takes the last ownership away is harmless because whoever     *)
(* asked for it is an owner still, and somebody else.                      *)
(***************************************************************************)
LEMMA RankFacts ==
  /\ \A r \in Roles \cup {"none"} : Rank[r] >= Rank["owner"] => r = "owner"
  /\ \A r \in Roles \cup {"none"} : Rank[r] >= Rank["admin"] => r \in {"admin", "owner"}
  /\ \A r \in Roles \cup {"none"} : Rank[r] \in Nat
BY DEF Rank, Roles

\* The caller of a role request still has the rank read at the door, and once the
\* request is past its checks it is about somebody else whom it may touch.
Entitled(c) ==
  /\ role[rq[c].by] = rq[c].byRole
  /\ Rank[rq[c].byRole] >= Rank[MinRole(rq[c].op)]
  /\ rq[c].pc \in {"count", "write"} =>
       /\ rq[c].who # rq[c].by /\ role[rq[c].who] # "none"
       /\ role[rq[c].who] = "owner" => rq[c].byRole = "owner"

OneRoleRequest == \A c, d \in Clients : OnMembers(c) /\ OnMembers(d) => c = d

SerialInv == ~Overlapping => /\ Owners # {}
                             /\ OneRoleRequest
                             /\ \A c \in Clients : OnMembers(c) => Entitled(c)

\* Who is entitled acts with a role, so creating accounts does not concern it.
LEMMA EntitledFrame ==
  ASSUME Typed, NEW c \in Clients, OnMembers(c), Entitled(c), rq'[c] = rq[c],
         \A p \in People : role[p] # "none" => role'[p] = role[p],
         rq[c].pc = "read" => role'[rq[c].who] \in Roles \cup {"none"}
  PROVE  Entitled(c)'
<1>1. rq[c] \in Request /\ WellFormed(rq[c]) BY DEF Typed
<1>2. rq[c].by \in People /\ rq[c].who \in People
  BY <1>1 DEF WellFormed, OnMembers
<1>3. role[rq[c].by] # "none"
  BY <1>1, <1>2 DEF Entitled, Rank, MinRole
<1>4. role'[rq[c].by] = rq[c].byRole BY <1>2, <1>3 DEF Entitled
<1> QED BY <1>2, <1>4 DEF Entitled

\* A step of client c that changes nothing but requests and leaves c no new role
\* request, or one that is entitled, preserves the invariant.
LEMMA SerialFrame ==
  ASSUME Typed, Typed', SerialInv, NEW c \in Clients,
         \A d \in Clients \ {c} : rq'[d] = rq[d],
         \A p \in People : role[p] # "none" => role'[p] = role[p],
         OnMembers(c)' => OnMembers(c),
         ~Overlapping /\ OnMembers(c)' => Entitled(c)'
  PROVE  SerialInv'
<1> SUFFICES ASSUME ~Overlapping
             PROVE  /\ Owners' # {} /\ OneRoleRequest'
                    /\ \A d \in Clients : OnMembers(d)' => Entitled(d)'
  BY DEF SerialInv
<1>1. Owners' # {} BY DEF SerialInv, Owners
<1>2. \A d \in Clients : OnMembers(d)' => OnMembers(d)
  BY DEF OnMembers
<1>3. OneRoleRequest' BY <1>2 DEF SerialInv, OneRoleRequest
<1>4. ASSUME NEW d \in Clients, OnMembers(d)' PROVE Entitled(d)'
  <2>1. CASE d = c BY <1>4, <2>1
  <2>2. CASE d # c
    <3>1. OnMembers(d) /\ Entitled(d) /\ rq'[d] = rq[d]
      BY <1>2, <1>4, <2>2 DEF SerialInv
    <3>2. rq'[d].who \in People BY <1>4 DEF Typed, WellFormed, OnMembers
    <3>3. role'[rq[d].who] \in Roles \cup {"none"}
      BY <3>1, <3>2 DEF Typed, RoleType
    <3> QED BY <3>1, <3>3, EntitledFrame
  <2> QED BY <2>1, <2>2
<1> QED BY <1>1, <1>3, <1>4

\* The door: with no role request in hand, c gets one its caller has the rank for.
LEMMA DoorStep ==
  ASSUME Typed, Typed', SerialInv, NEW c \in Clients, NEW by \in People,
         NEW r \in Request, r.op \in {"role", "remove", "invite", "revoke"},
         Authenticate(c, by, r)
  PROVE  SerialInv'
<1>1. /\ \A d \in Clients \ {c} : rq'[d] = rq[d]
      /\ rq'[c] = [r EXCEPT !.pc = "read", !.by = by, !.byRole = role[by]]
  BY DEF Authenticate, Typed
<1>2. role' = role BY DEF Authenticate
<1>3. CASE r.op \in {"invite", "revoke"}
  <2>1. ~OnMembers(c)' BY <1>1, <1>3 DEF OnMembers, Request
  <2> QED BY <1>1, <1>2, <2>1, SerialFrame
<1>4. CASE r.op \in {"role", "remove"}
  <2> SUFFICES ASSUME ~Overlapping
               PROVE  /\ Owners' # {} /\ OneRoleRequest'
                      /\ \A d \in Clients : OnMembers(d)' => Entitled(d)'
    BY DEF SerialInv
  <2>1. \A d \in Clients : ~OnMembers(d) BY <1>4 DEF Authenticate
  <2>2. \A d \in Clients : OnMembers(d)' => d = c
    BY <1>1, <2>1 DEF OnMembers
  <2>3. Owners' # {} BY <1>2 DEF SerialInv, Owners
  <2>4. /\ rq'[c].by = by /\ rq'[c].byRole = role[by] /\ rq'[c].op = r.op
        /\ rq'[c].pc = "read"
    BY <1>1 DEF Request
  <2>5. Entitled(c)'
    BY <1>2, <2>4 DEF Entitled, Authenticate
  <2> QED BY <2>2, <2>3, <2>5 DEF OneRoleRequest
<1> QED BY <1>3, <1>4

\* Only the write of a role request touches an account that exists.
LEMMA OthersKeepRoles ==
  ASSUME Typed, NEW c \in Clients, Step(c), ~WriteMember(c)
  PROVE  \A p \in People : role[p] # "none" => role'[p] = role[p]
<1>1. CASE ClaimAndCreate(c)
  BY <1>1 DEF ClaimAndCreate, Join, Typed, RoleType
<1>2. CASE ~ClaimAndCreate(c)
  BY <1>2 DEF Step, AskRole, AskRemove, AskInvite, AskRevoke, AskAccept, Authenticate,
     CreateInvitation, ReadMember, CountOwners, CheckAccount, CheckPending,
     ReadRevoked, Revoke, LookUp
<1> QED BY <1>1, <1>2

\* What the write of an entitled request does, to whom.
LEMMA WriteEffect ==
  ASSUME Typed, NEW c \in Clients, WriteMember(c), Entitled(c)
  PROVE  /\ rq[c].by \in People /\ rq[c].who \in People /\ rq[c].by # rq[c].who
         /\ \A p \in People : p # rq[c].who => role'[p] = role[p]
         /\ rq[c].op = "role" => role[rq[c].by] = "owner"
         /\ rq[c].op = "remove" => /\ role'[rq[c].who] = "none"
                                   /\ role[rq[c].by] \in {"admin", "owner"}
         /\ role[rq[c].who] = "owner" => role[rq[c].by] = "owner"
<1>1. rq[c] \in Request /\ WellFormed(rq[c]) BY DEF Typed
<1>2. /\ rq[c].op \in {"role", "remove"} /\ rq[c].pc = "write"
      /\ rq[c].by \in People /\ rq[c].who \in People
  BY <1>1 DEF WriteMember, OnMembers, WellFormed
<1>3. rq[c].by # rq[c].who /\ role[rq[c].by] = rq[c].byRole
  BY <1>2 DEF Entitled
<1>4. \A p \in People : p # rq[c].who => role'[p] = role[p]
  BY DEF WriteMember, Typed, RoleType
<1>5. rq[c].op = "role" => role[rq[c].by] = "owner"
  BY <1>1, <1>3, RankFacts DEF Entitled, MinRole, Request
<1>6. rq[c].op = "remove" => role[rq[c].by] \in {"admin", "owner"}
  BY <1>1, <1>3, RankFacts DEF Entitled, MinRole, Request
<1>7. rq[c].op = "remove" => role'[rq[c].who] = "none"
  BY <1>2 DEF WriteMember, Typed, RoleType, Entitled
<1>8. role[rq[c].who] = "owner" => role[rq[c].by] = "owner"
  BY <1>2, <1>3 DEF Entitled
<1> QED BY <1>2, <1>3, <1>4, <1>5, <1>6, <1>7, <1>8

LEMMA AnswerFrees ==
  ASSUME Typed, NEW c \in Clients, Answer(c)
  PROVE  ~OnMembers(c)' /\ \A d \in Clients \ {c} : rq'[d] = rq[d]
BY DEF Answer, OnMembers, Idle, Typed

LEMMA GotoKeeps ==
  ASSUME Typed, NEW c \in Clients, NEW p, Goto(c, p)
  PROVE  /\ rq'[c] = [rq[c] EXCEPT !.pc = p]
         /\ rq'[c].op = rq[c].op
         /\ \A d \in Clients \ {c} : rq'[d] = rq[d]
BY DEF Goto, Typed, Request

LEMMA SerialNext == ASSUME Typed, Typed', SerialInv, [Next]_vars PROVE SerialInv'
<1>1. CASE UNCHANGED vars
  BY <1>1 DEF vars, SerialInv, Owners, OneRoleRequest, OnMembers, Entitled
<1>2. ASSUME NEW i \in Invitations, Expire(i) PROVE SerialInv'
  BY <1>2 DEF Expire, SerialInv, Owners, OneRoleRequest, OnMembers, Entitled
<1>3. ASSUME NEW c \in Clients, Step(c) PROVE SerialInv'
  <2> rq[c] \in Request /\ WellFormed(rq[c])
    BY DEF Typed
  <2>1. CASE \E by, p \in People : AskRemove(c, by, p)
    <3> PICK by \in People, p \in People : AskRemove(c, by, p) BY <2>1
    <3> DEFINE r == [Idle EXCEPT !.op = "remove", !.who = p]
    <3>1. r \in Request /\ r.op = "remove" BY DEF Idle, Request
    <3> QED BY <3>1, DoorStep DEF AskRemove
  <2>2. CASE \E by, p \in People : \E to \in Roles : AskRole(c, by, p, to)
    <3> PICK by \in People, p \in People, to \in Roles : AskRole(c, by, p, to) BY <2>2
    <3> DEFINE r == [Idle EXCEPT !.op = "role", !.who = p, !.to = to]
    <3>1. r \in Request /\ r.op = "role" BY DEF Idle, Request
    <3> QED BY <3>1, DoorStep DEF AskRole
  <2>3. CASE \E by, p \in People : \E to \in Roles : AskInvite(c, by, p, to)
    <3> PICK by \in People, p \in People, to \in Roles : AskInvite(c, by, p, to) BY <2>3
    <3> DEFINE r == [Idle EXCEPT !.op = "invite", !.who = p, !.to = to]
    <3>1. r \in Request /\ r.op = "invite" BY DEF Idle, Request
    <3> QED BY <3>1, DoorStep DEF AskInvite
  <2>4. CASE \E by \in People, i \in Invitations : AskRevoke(c, by, i)
    <3> PICK by \in People, i \in Invitations : AskRevoke(c, by, i) BY <2>4
    <3> DEFINE r == [Idle EXCEPT !.op = "revoke", !.inv = i]
    <3>1. r \in Request /\ r.op = "revoke" BY DEF Idle, Request
    <3> QED BY <3>1, DoorStep DEF AskRevoke
  <2>5. CASE \E i \in Invitations : AskAccept(c, i)
    <3>1. role' = role /\ \A d \in Clients \ {c} : rq'[d] = rq[d]
      BY <2>5 DEF AskAccept, Typed
    <3>2. ~OnMembers(c)' BY <2>5 DEF AskAccept, OnMembers, Idle, Typed
    <3> QED BY <3>1, <3>2, SerialFrame
  <2>6. CASE ReadMember(c)
    <3>1. role' = role BY <2>6 DEF ReadMember
    <3>2. CASE Refused(c)
      BY <2>6, <3>1, <3>2, AnswerFrees, SerialFrame DEF ReadMember
    <3>3. CASE ~Refused(c)
      <4> DEFINE q == IF role[rq[c].who] = "owner" THEN "count" ELSE "write"
      <4>1. Goto(c, q) /\ OnMembers(c) BY <2>6, <3>3 DEF ReadMember
      <4>2. /\ rq'[c] = [rq[c] EXCEPT !.pc = q] /\ rq'[c].op = rq[c].op
            /\ \A d \in Clients \ {c} : rq'[d] = rq[d]
        BY <4>1, GotoKeeps
      <4>3. /\ rq'[c].by = rq[c].by /\ rq'[c].byRole = rq[c].byRole
            /\ rq'[c].who = rq[c].who
        BY <4>2 DEF Request
      <4>4. ASSUME ~Overlapping PROVE Entitled(c)'
        <5>1. Entitled(c) BY <4>1, <4>4 DEF SerialInv
        <5>2. rq[c].who # rq[c].by /\ role[rq[c].who] # "none"
          BY <3>3 DEF Refused
        <5>3. rq[c].op = "role" => rq[c].byRole = "owner"
          BY <5>1, RankFacts DEF Entitled, MinRole, Request
        <5>4. role[rq[c].who] = "owner" => rq[c].byRole = "owner"
          BY <3>3, <4>1, <5>3 DEF Refused, OnMembers
        <5> QED BY <3>1, <4>2, <4>3, <5>1, <5>2, <5>4 DEF Entitled
      <4> QED BY <3>1, <4>1, <4>2, <4>4, SerialFrame
    <3> QED BY <3>2, <3>3
  <2>7. CASE CountOwners(c)
    <3>1. role' = role BY <2>7 DEF CountOwners
    <3>2. CASE Answer(c)
      BY <3>1, <3>2, AnswerFrees, SerialFrame
    <3>3. CASE Goto(c, "write")
      <4>1. /\ rq'[c] = [rq[c] EXCEPT !.pc = "write"] /\ rq'[c].op = rq[c].op
            /\ \A d \in Clients \ {c} : rq'[d] = rq[d]
        BY <3>3, GotoKeeps
      <4>2. /\ rq'[c].by = rq[c].by /\ rq'[c].byRole = rq[c].byRole
            /\ rq'[c].who = rq[c].who /\ rq[c].pc = "count" /\ OnMembers(c)
        BY <2>7, <4>1 DEF Request, CountOwners
      <4>3. ASSUME ~Overlapping PROVE Entitled(c)'
        <5>1. Entitled(c) BY <4>2, <4>3 DEF SerialInv
        <5> QED BY <3>1, <4>1, <4>2, <5>1 DEF Entitled
      <4> QED BY <3>1, <4>1, <4>2, <4>3, SerialFrame
    <3> QED BY <2>7, <3>2, <3>3 DEF CountOwners
  <2>8. CASE WriteMember(c)
    <3> SUFFICES ASSUME ~Overlapping
                 PROVE  /\ Owners' # {} /\ OneRoleRequest'
                        /\ \A d \in Clients : OnMembers(d)' => Entitled(d)'
      BY DEF SerialInv
    <3>1. OnMembers(c) /\ Answer(c) BY <2>8 DEF WriteMember
    <3>2. \A d \in Clients : ~OnMembers(d)'
      BY <3>1, AnswerFrees DEF SerialInv, OneRoleRequest, OnMembers
    <3>3. Entitled(c) BY <3>1 DEF SerialInv
    <3>4. Owners' # {}
      <4>1. CASE role[rq[c].who] = "owner"
        <5>1. rq[c].by \in People /\ role'[rq[c].by] = "owner"
          BY <2>8, <3>3, <4>1, WriteEffect
        <5> QED BY <5>1 DEF Owners
      <4>2. CASE role[rq[c].who] # "owner"
        <5>1. PICK o \in People : role[o] = "owner" BY DEF SerialInv, Owners
        <5>2. role'[o] = "owner" BY <2>8, <3>3, <4>2, <5>1, WriteEffect
        <5> QED BY <5>1, <5>2 DEF Owners
      <4> QED BY <4>1, <4>2
    <3> QED BY <3>2, <3>4 DEF OneRoleRequest
  <2>9. CASE /\ \/ Answer(c)
                \/ \E p \in {"pending", "write"} : Goto(c, p) /\ ~OnMembers(c)
             /\ ~WriteMember(c)
    <3>1. \A p \in People : role[p] # "none" => role'[p] = role[p]
      BY <1>3, <2>9, OthersKeepRoles
    <3>2. ~OnMembers(c)' /\ \A d \in Clients \ {c} : rq'[d] = rq[d]
      BY <2>9, AnswerFrees, GotoKeeps DEF OnMembers
    <3> QED BY <3>1, <3>2, SerialFrame
  <2> QED
    BY <1>3, <2>1, <2>2, <2>3, <2>4, <2>5, <2>6, <2>7, <2>8, <2>9
    DEF Step, At, OnMembers, CheckAccount, CheckPending, CreateInvitation, ReadRevoked,
        Revoke, LookUp, ClaimAndCreate
<1> QED BY <1>1, <1>2, <1>3 DEF Next

LEMMA SerialInit == Init => SerialInv
BY FounderAssumption DEF Init, SerialInv, Owners, OneRoleRequest, OnMembers, Idle

LEMMA AlwaysSerial == Spec => []SerialInv
<1>1. Init => SerialInv BY SerialInit
<1>2. Typed /\ Typed' /\ SerialInv /\ [Next]_vars => SerialInv' BY SerialNext
<1> QED BY <1>1, <1>2, AlwaysTyped, PTL DEF Spec

\* An organization whose role changes and removals do not overlap always has an
\* owner, for any number of people, invitations and requests in hand.
THEOREM OwnerStays == Spec => []SerialKeepsOwner
<1>1. SerialInv => SerialKeepsOwner BY DEF SerialInv, SerialKeepsOwner
<1> QED BY <1>1, AlwaysSerial, PTL

LEMMA WriteIsFinished ==
  ASSUME Typed, NEW c \in Clients, WriteMember(c)
  PROVE  Writes(c, rq[c].who)
BY DEF WriteMember, Writes, Answer, Typed

\* And in such an organization every change to a member is made by somebody who has
\* the rank for it at that moment.
THEOREM ChangesAreAuthorized == Spec => AuthorityRespected
<1> DEFINE Act ==
      ~Overlapping =>
        \A p \in People : role[p] # "none" /\ role'[p] # role[p] =>
          \E c \in Clients :
            /\ Writes(c, p) /\ rq[c].by # p
            /\ IF role'[p] # "none" \/ role[p] = "owner"
                 THEN role[rq[c].by] = "owner"
                 ELSE Rank[role[rq[c].by]] >= Rank["admin"]
<1>1. ASSUME Typed, SerialInv, [Next]_vars PROVE [Act]_vars
  <2> SUFFICES ASSUME ~Overlapping, NEW p \in People, role[p] # "none", role'[p] # role[p]
               PROVE  \E c \in Clients :
                        /\ Writes(c, p) /\ rq[c].by # p
                        /\ IF role'[p] # "none" \/ role[p] = "owner"
                             THEN role[rq[c].by] = "owner"
                             ELSE Rank[role[rq[c].by]] >= Rank["admin"]
    OBVIOUS
  <2>1. PICK c \in Clients : Step(c)
    BY <1>1 DEF Next, vars, Expire
  <2>2. WriteMember(c) BY <1>1, <2>1, OthersKeepRoles
  <2>3. Entitled(c) BY <1>1, <2>2 DEF SerialInv, WriteMember
  <2>4. /\ rq[c].by # rq[c].who /\ \A q \in People : q # rq[c].who => role'[q] = role[q]
        /\ rq[c].op = "role" => role[rq[c].by] = "owner"
        /\ rq[c].op = "remove" => /\ role'[rq[c].who] = "none"
                                  /\ role[rq[c].by] \in {"admin", "owner"}
        /\ role[rq[c].who] = "owner" => role[rq[c].by] = "owner"
    BY <1>1, <2>2, <2>3, WriteEffect
  <2>5. p = rq[c].who BY <2>4
  <2>6. rq[c].op \in {"role", "remove"} BY <2>2 DEF WriteMember, OnMembers
  <2>7. role[rq[c].by] \in {"admin", "owner"} => Rank[role[rq[c].by]] >= Rank["admin"]
    BY DEF Rank
  <2>8. Writes(c, p) BY <1>1, <2>2, <2>5, WriteIsFinished
  <2>9. IF role'[p] # "none" \/ role[p] = "owner"
          THEN role[rq[c].by] = "owner"
          ELSE Rank[role[rq[c].by]] >= Rank["admin"]
    BY <2>4, <2>5, <2>6, <2>7
  <2> QED BY <2>4, <2>5, <2>8, <2>9
<1> QED BY <1>1, AlwaysTyped, AlwaysSerial, PTL DEF Spec, AuthorityRespected

\* Whatever overlaps, nobody joins but by an invitation that is pending at that
\* moment and used up by it.
THEOREM JoinsArePending == Spec => JoinOnlyWhilePending
<1> DEFINE Act ==
      \A p \in People : role[p] = "none" /\ role'[p] # "none" =>
        \E i \in Invitations :
          /\ Pending(i) /\ inv'[i].accepted
          /\ inv[i].email = p /\ inv[i].role = role'[p]
<1>1. ASSUME Typed, [Next]_vars PROVE [Act]_vars
  <2> SUFFICES ASSUME NEW p \in People, role[p] = "none", role'[p] # "none"
               PROVE  \E i \in Invitations :
                        /\ Pending(i) /\ inv'[i].accepted
                        /\ inv[i].email = p /\ inv[i].role = role'[p]
    OBVIOUS
  <2>1. PICK c \in Clients : Step(c)
    BY <1>1 DEF Next, vars, Expire
  <2>2. ~WriteMember(c)
    BY <1>1 DEF WriteMember, Typed, RoleType
  <2>3. ClaimAndCreate(c)
    BY <2>1, <2>2 DEF Step, AskRole, AskRemove, AskInvite, AskRevoke, AskAccept,
       Authenticate, CreateInvitation, ReadMember, CountOwners, CheckAccount,
       CheckPending, ReadRevoked, Revoke, LookUp
  <2> DEFINE i == rq[c].inv
  <2>4. i \in Invitations
    BY <1>1, <2>3 DEF ClaimAndCreate, At, Typed, WellFormed
  <2>5. Pending(i) /\ Join(i) BY <2>3 DEF ClaimAndCreate
  <2>6. inv'[i].accepted BY <1>1, <2>4, <2>5 DEF Join, Typed, InvType
  <2>7. inv[i].email = p /\ inv[i].role = role'[p]
    BY <1>1, <2>5 DEF Join, Typed, RoleType
  <2> QED BY <2>4, <2>5, <2>6, <2>7
<1> QED BY <1>1, AlwaysTyped, PTL DEF Spec, JoinOnlyWhilePending

-----------------------------------------------------------------------------
(***************************************************************************)
(* GitHub.                                                                 *)
(***************************************************************************)

Installation == [id : Nat, app : Nat, suspended : BOOLEAN]
Delivery == [event : {"push", "installation"}, app : Nat, inst : Nat, sha : Nat]
Job(q) == [target : q, sha : Nat]
HookShape ==
  {NoHook} \cup [at : {"push", "installation"}, inst : Nat, sha : Nat]
           \cup [at : {"list"}, sha : Nat, of : Queues]
           \cup [at : {"enqueue"}, sha : Nat, of : Queues, todo : SUBSET Targets]
Hook == {x \in HookShape : x.at = "enqueue" => x.todo \subseteq x.of}
GitRequest ==
  {NoRequest} \cup [op : {"connect"}] \cup [op : {"create"}, app : Nat \ {NoApp}]
         \cup [op : {"setup"}, app : Nat \ {NoApp}, inst : Nat]
         \cup [op : {"toggle"}, target : Targets, app : Nat \ {NoApp}]

GithubType == [head : Nat, apps : Nat, insts : SUBSET Installation, gone : Nat]
DbType == [app : Nat, insts : SUBSET Nat, auto : [Targets -> BOOLEAN]]
MemoType == [handled : Nat, edits : Nat, asked : [Targets -> Nat],
             failed : SUBSET Targets, raced : SUBSET Targets]

\* Every variable in its type, whatever GitHub has been told.
GitTyped ==
  /\ github \in GithubType /\ IsFiniteSet(github.insts)
  /\ wire \subseteq Delivery
  /\ hook \in [Hooks -> Hook]
  /\ db \in DbType
  /\ ops \in [Operators -> GitRequest]
  /\ queue \in [Queues -> Seq(Job(Targets))]
  /\ \A q \in Queues : queue[q] \in Seq(Job(q))
  /\ \A q \in Queues : working[q] = NoWork \/ working[q] \in Job(q)
  /\ DOMAIN working = Queues
  /\ live \in [Targets -> Nat]
  /\ memo \in MemoType

\* An installation's number is below the next one and is its own.
Numbered ==
  /\ \A i \in github.insts : i.id <= Cardinality(github.insts) + github.gone
  /\ \A i, j \in github.insts : i.id = j.id => i = j

\* No commit is delivered, waits or runs that was not pushed.
DeployedPushed ==
  /\ \A q \in Queues : /\ \A k \in DOMAIN queue[q] : queue[q][k].sha <= github.head
                       /\ working[q] # NoWork => working[q].sha <= github.head
  /\ \A t \in Targets : live[t] <= github.head /\ memo.asked[t] <= github.head

Pushed ==
  /\ \A d \in wire : d.sha <= github.head
  /\ \A h \in Hooks : hook[h].at # "idle" => hook[h].sha <= github.head
  /\ DeployedPushed

\* No App is known that GitHub has not made.
KnownMade ==
  /\ db.app <= github.apps
  /\ \A o \in Operators : ops[o].op \in {"create", "setup", "toggle"}
                            => ops[o].app <= github.apps

Made ==
  /\ \A d \in wire : d.app <= github.apps
  /\ \A i \in github.insts : i.app <= github.apps
  /\ KnownMade

StoredWithApp == db.app = NoApp => db.insts = {}

Waiting(q, t) == \E k \in DOMAIN queue[q] : queue[q][k].target = t
Serving(q, t) == working[q] # NoWork /\ working[q].target = t

\* The newest push queued for t waits, is being deployed, failed or runs.
Fresh(q, t) ==
  \/ Waiting(q, t)
  \/ Serving(q, t) /\ working[q].sha >= memo.asked[t]
  \/ ~Serving(q, t) /\ (t \in memo.failed \/ live[t] >= memo.asked[t])

AllFresh == \A q \in Queues : \A t \in q : Fresh(q, t)

-----------------------------------------------------------------------------
LEMMA GitTypedInit == GitHubInit => GitTyped
<1> SUFFICES ASSUME GitHubInit PROVE GitTyped
  OBVIOUS
<1>1. github \in GithubType /\ IsFiniteSet(github.insts)
  BY FS_EmptySet DEF GitHubInit, GithubType
<1>2. \A q \in Queues : queue[q] \in Seq(Job(q)) /\ queue[q] \in Seq(Job(Targets))
  BY DEF GitHubInit
<1>3. hook \in [Hooks -> Hook]
  BY DEF GitHubInit, NoHook, Hook, HookShape
<1>4. db \in DbType /\ memo \in MemoType
  BY DEF GitHubInit, DbType, MemoType, NoApp
<1> QED BY <1>1, <1>2, <1>3, <1>4 DEF GitHubInit, GitTyped, GitRequest

\* What is asked of an operator's request is that it is one.
LEMMA OpsStep ==
  ASSUME GitTyped, NEW o \in Operators, NEW r \in GitRequest, ops' = [ops EXCEPT ![o] = r]
  PROVE  ops' \in [Operators -> GitRequest]
BY DEF GitTyped

LEMMA TypedPush ==
  ASSUME GitTyped, PushCommit
  PROVE  GitTyped'
<1>0. github \in GithubType /\ IsFiniteSet(github.insts)
  BY DEF GitTyped
<1>1. github' \in GithubType /\ IsFiniteSet(github'.insts)
  <2>1. github' = [github EXCEPT !.head = @ + 1]
    BY DEF PushCommit
  <2> QED BY <1>0, <2>1 DEF GithubType
<1>2. \A i \in github.insts : PushTo(i, github.head + 1) \in Delivery
  BY DEF GitTyped, GithubType, PushTo, Installation, Delivery
<1>3. wire' \subseteq Delivery
  BY <1>2 DEF GitTyped, PushCommit
<1> QED BY <1>1, <1>3 DEF GitTyped, PushCommit

LEMMA TypedInstall ==
  ASSUME GitTyped, NEW app \in 1..github.apps, Install(app)
  PROVE  GitTyped'
<1> DEFINE i == [id |-> Cardinality(github.insts) + github.gone + 1, app |-> app,
                 suspended |-> FALSE]
<1>1. i \in Installation
  BY FS_CardinalityType DEF GitTyped, GithubType, Installation
<1>2. github' = [github EXCEPT !.insts = github.insts \cup {i}]
  BY DEF Install
<1> HIDE DEF i
<1>3. github' \in GithubType /\ IsFiniteSet(github'.insts)
  BY <1>1, <1>2, FS_AddElement DEF GitTyped, GithubType
<1> QED BY <1>3 DEF GitTyped, Install

LEMMA TypedUninstall ==
  ASSUME GitTyped, NEW i \in github.insts, Uninstall(i)
  PROVE  GitTyped'
<1>0. github \in GithubType /\ IsFiniteSet(github.insts) BY DEF GitTyped
<1>1. github' \in GithubType
  <2>1. github.gone + 1 \in Nat /\ github.insts \ {i} \in SUBSET Installation
    BY <1>0 DEF GithubType
  <2>2. github' = [github EXCEPT !.insts = github.insts \ {i}, !.gone = github.gone + 1]
    BY DEF Uninstall
  <2> QED BY <1>0, <2>1, <2>2 DEF GithubType
<1>2. github'.insts = github.insts \ {i} BY <1>0 DEF GithubType, Uninstall
<1>3. IsFiniteSet(github'.insts) BY <1>0, <1>2, FS_RemoveElement
<1>4. Removal(i) \in Delivery
  BY <1>0 DEF GithubType, Removal, Installation, Delivery
<1> QED BY <1>1, <1>3, <1>4 DEF GitTyped, Uninstall

LEMMA TypedSuspend ==
  ASSUME GitTyped, NEW i \in github.insts, Suspend(i)
  PROVE  GitTyped'
<1>1. [i EXCEPT !.suspended = TRUE] \in Installation
  BY DEF GitTyped, GithubType, Installation
<1>2. github' \in GithubType /\ IsFiniteSet(github'.insts)
  <2>1. github \in GithubType /\ IsFiniteSet(github.insts)  BY DEF GitTyped
  <2>2. PICK x : x = (github.insts \ {i}) \cup {[i EXCEPT !.suspended = TRUE]}  OBVIOUS
  <2>3. github' = [github EXCEPT !.insts = x]  BY <2>2 DEF Suspend
  <2>4. x \in SUBSET Installation  BY <1>1, <2>1, <2>2 DEF GithubType
  <2>5. IsFiniteSet(x)  BY <2>1, <2>2, FS_RemoveElement, FS_AddElement
  <2>6. github' \in GithubType  BY <2>1, <2>3, <2>4 DEF GithubType
  <2>7. github'.insts = x  BY <2>1, <2>3 DEF GithubType
  <2> QED BY <2>5, <2>6, <2>7
<1>3. Removal(i) \in Delivery
  BY DEF GitTyped, GithubType, Removal, Installation, Delivery
<1> QED BY <1>2, <1>3 DEF GitTyped, Suspend

\* A request of the webhook goes on with something it may be at.
LEMMA HooksStep ==
  ASSUME GitTyped, NEW h \in Hooks, NEW x \in Hook, hook' = [hook EXCEPT ![h] = x]
  PROVE  /\ hook' \in [Hooks -> Hook] /\ hook'[h] = x
         /\ \A g \in Hooks \ {h} : hook'[g] = hook[g]
BY DEF GitTyped

LEMMA TypedReceive ==
  ASSUME GitTyped, NEW h \in Hooks, NEW d \in wire, Receive(h, d)
  PROVE  GitTyped'
<1>1. d \in Delivery BY DEF GitTyped
<1>0. memo \in MemoType BY DEF GitTyped
<1>2. memo' \in MemoType BY <1>0 DEF MemoType, Receive
<1>3. PICK x : x = IF VerifyDelivery(d) THEN [at |-> d.event, inst |-> d.inst, sha |-> d.sha]
                   ELSE NoHook
  OBVIOUS
<1>4. x \in Hook
  BY <1>1, <1>3 DEF Hook, HookShape, NoHook, Delivery
<1>5. hook' \in [Hooks -> Hook]
  BY <1>3, <1>4, HooksStep DEF Receive
<1> QED BY <1>2, <1>5 DEF GitTyped, Receive

LEMMA NoHookFits == NoHook \in Hook
BY DEF Hook, HookShape, NoHook

LEMMA TypedHook ==
  ASSUME GitTyped, NEW h \in Hooks,
         RemoveInstallation(h) \/ KnowInstallation(h) \/ ListTargets(h) \/ ListedAll(h)
  PROVE  GitTyped'
<1>0. hook[h] \in Hook BY DEF GitTyped
<1>1. hook' \in [Hooks -> Hook]
  <2>1. CASE RemoveInstallation(h)
    BY <2>1, NoHookFits, HooksStep DEF RemoveInstallation, EndHook
  <2>2. CASE KnowInstallation(h)
    <3> DEFINE x == [at |-> "list", sha |-> hook[h].sha, of |-> Applications]
    <3>1. x \in Hook
      BY <1>0, <2>2 DEF KnowInstallation, Hook, HookShape, NoHook, Queues
    <3> QED BY <2>2, <3>1, NoHookFits, HooksStep DEF KnowInstallation
  <2>3. CASE ListTargets(h)
    <3> DEFINE x == [at |-> "enqueue", sha |-> hook[h].sha, of |-> hook[h].of,
                     todo |-> {t \in hook[h].of : db.auto[t]}]
    <3>1. hook[h].sha \in Nat /\ hook[h].of \in Queues
      BY <1>0, <2>3 DEF ListTargets, Hook, HookShape, NoHook
    <3>2. {t \in hook[h].of : db.auto[t]} \subseteq hook[h].of /\ hook[h].of \subseteq Targets
      BY <3>1 DEF Queues, Targets
    <3>3. x \in Hook
      BY <3>1, <3>2 DEF Hook, HookShape
    <3> QED BY <2>3, <3>3, HooksStep DEF ListTargets
  <2>4. CASE ListedAll(h)
    <3> DEFINE x == [at |-> "list", sha |-> hook[h].sha, of |-> Projects]
    <3>1. x \in Hook
      BY <1>0, <2>4 DEF ListedAll, Hook, HookShape, NoHook, Queues
    <3> QED BY <2>4, <3>1, NoHookFits, HooksStep DEF ListedAll
  <2> QED BY <2>1, <2>2, <2>3, <2>4
<1>2. db' \in DbType
  <2>1. db' = db \/ db' = [db EXCEPT !.insts = db.insts \ {hook[h].inst}]
    BY DEF RemoveInstallation, KnowInstallation, ListTargets, ListedAll
  <2> QED BY <2>1 DEF GitTyped, DbType
<1> QED
  BY <1>1, <1>2 DEF GitTyped, RemoveInstallation, KnowInstallation, ListTargets, ListedAll

\* The delivery being enqueued, field by field.
LEMMA EnqueueHook ==
  ASSUME GitTyped, NEW h \in Hooks, hook[h].at = "enqueue"
  PROVE  /\ hook[h] \in [at : {"enqueue"}, sha : Nat, of : Queues, todo : SUBSET Targets]
         /\ hook[h].todo \subseteq hook[h].of
<1>1. hook[h] \in Hook BY DEF GitTyped
<1> QED BY <1>1 DEF Hook, HookShape, NoHook

\* What is left to queue gets less, nothing else of the delivery changes.
LEMMA EnqueueRest ==
  ASSUME GitTyped, NEW h \in Hooks, NEW t \in Targets, Enqueue(h, t)
  PROVE  \E x \in Hook : hook' = [hook EXCEPT ![h] = x] /\ x.sha = hook[h].sha
<1>1. hook[h] \in [at : {"enqueue"}, sha : Nat, of : Queues, todo : SUBSET Targets]
      /\ hook[h].todo \subseteq hook[h].of
  BY EnqueueHook DEF Enqueue
<1>2. PICK x : x = [hook[h] EXCEPT !.todo = hook[h].todo \ {t}]  OBVIOUS
<1>3. x \in Hook /\ x.sha = hook[h].sha
  BY <1>1, <1>2 DEF Hook, HookShape
<1>4. hook' = [hook EXCEPT ![h] = x]
  BY <1>2 DEF Enqueue, GitTyped
<1> QED BY <1>3, <1>4

LEMMA TypedEnqueue ==
  ASSUME GitTyped, NEW h \in Hooks, NEW t \in Targets, Enqueue(h, t) \/ EnqueueFails(h, t)
  PROVE  GitTyped'
<1>1. hook[h] \in [at : {"enqueue"}, sha : Nat, of : Queues, todo : SUBSET Targets]
      /\ hook[h].todo \subseteq hook[h].of
  BY EnqueueHook DEF Enqueue, EnqueueFails
<1>2. hook' \in [Hooks -> Hook]
  <2>1. CASE Enqueue(h, t) BY <2>1, EnqueueRest, HooksStep
  <2>2. CASE EnqueueFails(h, t) BY <2>2, NoHookFits, HooksStep DEF EnqueueFails, EndHook
  <2> QED BY <2>1, <2>2
<1>3. CASE EnqueueFails(h, t)
  BY <1>2, <1>3 DEF GitTyped, EnqueueFails
<1>4. CASE Enqueue(h, t)
  <2>1. memo' \in MemoType
    BY <1>1, <1>4 DEF GitTyped, Enqueue, MemoType
  <2> DEFINE j == [target |-> t, sha |-> hook[h].sha]
  <2>2. hook[h].of \in Queues /\ t \in hook[h].of /\ j \in Job(hook[h].of) /\ j \in Job(Targets)
    BY <1>1, <1>4 DEF Enqueue, Job
  <2>3. queue' = [queue EXCEPT ![hook[h].of] = Append(queue[hook[h].of], j)]
    BY <1>4 DEF Enqueue
  <2> HIDE DEF j
  <2>4. Append(queue[hook[h].of], j) \in Seq(Job(hook[h].of))
        /\ Append(queue[hook[h].of], j) \in Seq(Job(Targets))
    BY <2>2 DEF GitTyped
  <2>5. queue' \in [Queues -> Seq(Job(Targets))] /\ \A q \in Queues : queue'[q] \in Seq(Job(q))
    BY <2>2, <2>3, <2>4 DEF GitTyped
  <2> QED BY <1>2, <1>4, <2>1, <2>5 DEF GitTyped, Enqueue
<1> QED BY <1>3, <1>4

\* A waiting deployment that a worker takes up.
LEMMA HeadOfQueue ==
  ASSUME GitTyped, NEW q \in Queues, queue[q] # <<>>
  PROVE  /\ Head(queue[q]) \in Job(q)
         /\ Tail(queue[q]) \in Seq(Job(q)) /\ Tail(queue[q]) \in Seq(Job(Targets))
         /\ Head(queue[q]) = queue[q][1]
         /\ \A k \in DOMAIN queue[q] : k # 1 => k - 1 \in DOMAIN Tail(queue[q])
                                                /\ Tail(queue[q])[k - 1] = queue[q][k]
         /\ \A k \in DOMAIN Tail(queue[q]) : k + 1 \in DOMAIN queue[q]
                                             /\ Tail(queue[q])[k] = queue[q][k + 1]
<1>1. queue[q] \in Seq(Job(q)) /\ queue[q] \in Seq(Job(Targets))
  BY DEF GitTyped
<1> DEFINE s == queue[q]
<1> HIDE DEF s
<1>2. s \in Seq(Job(q)) /\ s \in Seq(Job(Targets)) /\ s # <<>>
  BY <1>1 DEF s
<1>3. /\ Head(s) \in Job(q) /\ Tail(s) \in Seq(Job(q)) /\ Tail(s) \in Seq(Job(Targets))
      /\ Head(s) = s[1]
  BY <1>2
<1>4. /\ \A k \in DOMAIN s : k # 1 => k - 1 \in DOMAIN Tail(s) /\ Tail(s)[k - 1] = s[k]
      /\ \A k \in DOMAIN Tail(s) : k + 1 \in DOMAIN s /\ Tail(s)[k] = s[k + 1]
  BY <1>2
<1> QED BY <1>3, <1>4 DEF s

LEMMA TypedWorker ==
  ASSUME GitTyped, NEW q \in Queues, Clone(q) \/ Deployed(q) \/ DeployFails(q)
  PROVE  GitTyped'
<1>1. CASE Clone(q)
  <2>1. [target |-> Head(queue[q]).target, sha |-> github.head] \in Job(q)
    BY <1>1, HeadOfQueue DEF Clone, GitTyped, GithubType, Job
  <2>2. queue' \in [Queues -> Seq(Job(Targets))] /\ \A p \in Queues : queue'[p] \in Seq(Job(p))
    BY <1>1, HeadOfQueue DEF Clone, GitTyped
  <2> QED BY <1>1, <2>1, <2>2 DEF GitTyped, Clone
<1>2. CASE Deployed(q)
  <2>1. live' \in [Targets -> Nat]
    BY <1>2 DEF GitTyped, Deployed, Job
  <2>2. memo' \in MemoType
    BY <1>2 DEF GitTyped, Deployed, MemoType
  <2> QED BY <1>2, <2>1, <2>2 DEF GitTyped, Deployed
<1>3. CASE DeployFails(q)
  <2>1. working[q].target \in Targets
    BY <1>3 DEF GitTyped, DeployFails, Job, Queues, Targets
  <2>2. memo' \in MemoType
    BY <1>3, <2>1 DEF GitTyped, DeployFails, MemoType
  <2> QED BY <1>3, <2>2 DEF GitTyped, DeployFails
<1> QED BY <1>1, <1>2, <1>3

LEMMA TypedAsk ==
  ASSUME GitTyped, NEW o \in Operators, NEW r \in GitRequest, Ask(o, r)
  PROVE  GitTyped'
<1>0. memo \in MemoType BY DEF GitTyped
<1>1. memo' \in MemoType BY <1>0 DEF MemoType, Ask
<1>2. ops' \in [Operators -> GitRequest] BY OpsStep DEF Ask
<1> QED BY <1>1, <1>2 DEF GitTyped, Ask

LEMMA TypedFinish ==
  ASSUME GitTyped, NEW o \in Operators, Finish(o)
  PROVE  ops' \in [Operators -> GitRequest]
BY OpsStep DEF Finish, GitRequest

\* The operations of an operator, each with what it needs of the request.
LEMMA TypedOperator ==
  ASSUME GitTyped, NEW o \in Operators,
         \/ StartConnect(o) \/ Converted(o) \/ ConnectFails(o) \/ CreateApp(o)
         \/ \E i \in github.insts : StartSetup(o, i)
         \/ StoreInstallation(o)
         \/ \E t \in Targets : StartToggle(o, t) \/ TurnOff(o, t)
         \/ Toggle(o) \/ Disconnect(o)
  PROVE  GitTyped'
<1>0. /\ ops[o] \in GitRequest /\ github.apps \in Nat /\ db.app \in Nat
      /\ db \in DbType /\ memo \in MemoType
  BY DEF GitTyped, GithubType, DbType
<1>1. CASE StartConnect(o)
  BY <1>1, TypedAsk DEF StartConnect, GitRequest
<1>2. CASE Converted(o)
  <2>1. CASE db.app # NoApp
    BY <1>2, <2>1, TypedFinish DEF Converted, GitTyped
  <2>2. CASE db.app = NoApp
    <3>1. [op |-> "create", app |-> github.apps + 1] \in GitRequest
      BY <1>0 DEF GitRequest, NoApp
    <3>2. ops' \in [Operators -> GitRequest]
      BY <1>2, <2>2, <3>1, OpsStep DEF Converted, ConvertAppManifest
    <3>3. github' \in GithubType /\ IsFiniteSet(github'.insts)
      <4>1. github \in GithubType /\ IsFiniteSet(github.insts) /\ github.apps + 1 \in Nat
        BY <1>0 DEF GitTyped
      <4>2. github' = [github EXCEPT !.apps = github.apps + 1]
        BY <1>2, <2>2 DEF Converted, ConvertAppManifest
      <4>3. github' \in GithubType  BY <4>1, <4>2 DEF GithubType
      <4>4. github'.insts = github.insts  BY <4>1, <4>2 DEF GithubType
      <4> QED BY <4>1, <4>3, <4>4
    <3> QED BY <1>2, <3>2, <3>3 DEF Converted, GitTyped
  <2> QED BY <2>1, <2>2
<1>3. CASE ConnectFails(o)
  BY <1>3, TypedFinish DEF ConnectFails, GitTyped
<1>4. CASE CreateApp(o)
  <2>1. ops[o].app \in Nat
    BY <1>0, <1>4 DEF CreateApp, GitRequest, NoRequest
  <2>2. db' \in DbType
    BY <1>0, <1>4, <2>1 DEF CreateApp, DbType
  <2> QED BY <1>4, <2>2, TypedFinish DEF CreateApp, GitTyped
<1>5. CASE \E i \in github.insts : StartSetup(o, i)
  <2>1. PICK i \in github.insts : StartSetup(o, i)
    BY <1>5
  <2>2. [op |-> "setup", app |-> db.app, inst |-> i.id] \in GitRequest
    BY <1>0, <2>1 DEF StartSetup, GitTyped, GithubType, Installation, GitRequest
  <2> QED BY <2>1, <2>2, TypedAsk DEF StartSetup
<1>6. CASE StoreInstallation(o)
  <2>1. ops[o].inst \in Nat
    BY <1>0, <1>6 DEF StoreInstallation, GitRequest, NoRequest
  <2>2. db' \in DbType
    BY <1>0, <1>6, <2>1 DEF StoreInstallation, DbType
  <2> QED BY <1>6, <2>2, TypedFinish DEF StoreInstallation, GitTyped
<1>7. CASE \E t \in Targets : StartToggle(o, t)
  <2>1. PICK t \in Targets : StartToggle(o, t)
    BY <1>7
  <2>2. [op |-> "toggle", target |-> t, app |-> db.app] \in GitRequest
    BY <1>0, <2>1 DEF StartToggle, GitRequest
  <2> QED BY <2>1, <2>2, TypedAsk DEF StartToggle
<1>8. CASE \E t \in Targets : TurnOff(o, t)
  <2>1. PICK t \in Targets : TurnOff(o, t)
    BY <1>8
  <2>2. db' \in DbType
    BY <1>0, <2>1 DEF TurnOff, DbType
  <2>3. memo' \in MemoType
    <3>1. memo.edits + 1 \in Nat /\ memo.raced \ {t} \in SUBSET Targets
      BY <1>0 DEF MemoType
    <3>2. memo' = [memo EXCEPT !.edits = memo.edits + 1, !.raced = memo.raced \ {t}]
      BY <2>1 DEF TurnOff
    <3> QED BY <1>0, <3>1, <3>2 DEF MemoType
  <2> QED BY <2>1, <2>2, <2>3 DEF TurnOff, GitTyped
<1>9. CASE Toggle(o)
  <2>1. ops[o].target \in Targets
    BY <1>0, <1>9 DEF Toggle, GitRequest, NoRequest
  <2>2. db' \in DbType /\ memo' \in MemoType
    BY <1>9, <2>1 DEF Toggle, GitTyped, DbType, MemoType
  <2> QED BY <1>9, <2>2, TypedFinish DEF Toggle, GitTyped
<1>10. CASE Disconnect(o)
  <2>1. db' \in DbType
    BY <1>10 DEF Disconnect, DbType, NoApp
  <2>2. memo' \in MemoType
    <3>1. memo.edits + 1 \in Nat /\ {} \in SUBSET Targets
      BY <1>0 DEF MemoType
    <3>2. memo' = [memo EXCEPT !.edits = memo.edits + 1, !.raced = {}]
      BY <1>10 DEF Disconnect
    <3> QED BY <1>0, <3>1, <3>2 DEF MemoType
  <2> QED BY <1>10, <2>1, <2>2 DEF Disconnect, GitTyped
<1> QED BY <1>1, <1>2, <1>3, <1>4, <1>5, <1>6, <1>7, <1>8, <1>9, <1>10

LEMMA GitTypedNext == GitTyped /\ [GitHubNext]_gitVars => GitTyped'
<1> SUFFICES ASSUME GitTyped, [GitHubNext]_gitVars PROVE GitTyped'
  OBVIOUS
<1>1. CASE PushCommit BY <1>1, TypedPush
<1>2. CASE \E app \in 1..github.apps : Install(app) BY <1>2, TypedInstall
<1>3. CASE \E i \in github.insts : Uninstall(i) \/ Suspend(i)
  BY <1>3, TypedUninstall, TypedSuspend
<1>4. CASE \E d \in wire : GiveUp(d)
  BY <1>4 DEF GiveUp, GitTyped
<1>5. CASE \E h \in Hooks, d \in wire : Receive(h, d)
  BY <1>5, TypedReceive
<1>6. CASE \E h \in Hooks :
             RemoveInstallation(h) \/ KnowInstallation(h) \/ ListTargets(h) \/ ListedAll(h)
  BY <1>6, TypedHook
<1>7. CASE \E h \in Hooks, t \in Targets : Enqueue(h, t) \/ EnqueueFails(h, t)
  BY <1>7, TypedEnqueue
<1>8. CASE \E q \in Queues : Clone(q) \/ Deployed(q) \/ DeployFails(q)
  BY <1>8, TypedWorker
<1>9. CASE \E o \in Operators :
       \/ StartConnect(o) \/ Converted(o) \/ ConnectFails(o) \/ CreateApp(o)
       \/ \E i \in github.insts : StartSetup(o, i)
       \/ StoreInstallation(o)
       \/ \E t \in Targets : StartToggle(o, t) \/ TurnOff(o, t)
       \/ Toggle(o) \/ Disconnect(o)
  BY <1>9, TypedOperator
<1>10. CASE UNCHANGED gitVars
  BY <1>10 DEF gitVars, GitTyped
<1> QED BY <1>1, <1>2, <1>3, <1>4, <1>5, <1>6, <1>7, <1>8, <1>9, <1>10 DEF GitHubNext

LEMMA SpecTyped == GitHubSpec => []GitTyped
<1>1. GitHubInit => GitTyped BY GitTypedInit
<1>2. GitTyped /\ [GitHubNext]_gitVars => GitTyped' BY GitTypedNext
<1> QED BY <1>1, <1>2, PTL DEF GitHubSpec

-----------------------------------------------------------------------------
(***************************************************************************)
(* Type correctness: installations keep numbers of their own, and neither  *)
(* commits nor Apps are known before they exist.                           *)
(***************************************************************************)
\* The actions that change what is on GitHub.
GitHubSide ==
  \/ PushCommit \/ \E app \in 1..github.apps : Install(app)
  \/ \E i \in github.insts : Uninstall(i) \/ Suspend(i)
  \/ \E o \in Operators : Converted(o)

LEMMA GithubFrame ==
  ASSUME [GitHubNext]_gitVars, ~GitHubSide
  PROVE  UNCHANGED github
BY DEF GitHubNext, GitHubSide, gitVars, GiveUp, Receive, RemoveInstallation, KnowInstallation,
       ListTargets, ListedAll, Enqueue, EnqueueFails, Clone, Deployed, DeployFails,
       StartConnect, ConnectFails,
       CreateApp, StartSetup, StoreInstallation, StartToggle, TurnOff, Toggle, Disconnect, Ask

LEMMA NumberedInit == GitHubInit => Numbered
BY DEF GitHubInit, Numbered

LEMMA NumberedNext ==
  ASSUME GitTyped, Numbered, [GitHubNext]_gitVars
  PROVE  Numbered'
<1>0. /\ github \in GithubType /\ IsFiniteSet(github.insts)
      /\ Cardinality(github.insts) \in Nat
  BY FS_CardinalityType DEF GitTyped
<1>1. CASE PushCommit
  BY <1>0, <1>1 DEF PushCommit, Numbered, GithubType
<1>2. ASSUME NEW app \in 1..github.apps, Install(app) PROVE Numbered'
  <2> DEFINE new == [id |-> Cardinality(github.insts) + github.gone + 1, app |-> app,
                     suspended |-> FALSE]
  <2>1. github'.insts = github.insts \cup {new} /\ github'.gone = github.gone
    BY <1>0, <1>2 DEF Install, GithubType
  <2>2. new.id = Cardinality(github.insts) + github.gone + 1
    OBVIOUS
  <2> HIDE DEF new
  <2>3. \A i \in github.insts : i.id \in Nat /\ i.id < new.id
    BY <1>0, <2>2 DEF Numbered, GithubType, Installation
  <2>4. new \notin github.insts
    BY <2>3
  <2>5. Cardinality(github'.insts) = Cardinality(github.insts) + 1
    BY <1>0, <2>1, <2>4, FS_AddElement
  <2>6. \A i \in github'.insts : i.id <= Cardinality(github'.insts) + github'.gone
    BY <1>0, <2>1, <2>2, <2>3, <2>5 DEF GithubType
  <2>7. \A i, j \in github'.insts : i.id = j.id => i = j
    BY <2>1, <2>3 DEF Numbered
  <2> QED BY <2>6, <2>7 DEF Numbered
<1>3. ASSUME NEW i \in github.insts, Uninstall(i) PROVE Numbered'
  <2>1. github'.insts = github.insts \ {i} /\ github'.gone = github.gone + 1
    BY <1>0, <1>3 DEF Uninstall, GithubType
  <2>2. Cardinality(github'.insts) = Cardinality(github.insts) - 1
    BY <1>0, <2>1, FS_RemoveElement
  <2> QED BY <1>0, <2>1, <2>2 DEF Numbered, GithubType
<1>4. ASSUME NEW i \in github.insts, Suspend(i) PROVE Numbered'
  <2> DEFINE new == [i EXCEPT !.suspended = TRUE]
  <2>0. i \in Installation BY <1>0 DEF GithubType
  <2>1. github'.insts = (github.insts \ {i}) \cup {new} /\ github'.gone = github.gone
    BY <1>0, <1>4 DEF Suspend, GithubType
  <2>2. new.id = i.id
    BY <2>0 DEF Installation
  <2> HIDE DEF new
  <2>3. new \notin github.insts \ {i}
    BY <2>2 DEF Numbered
  <2>4. IsFiniteSet(github.insts \ {i})
        /\ Cardinality(github.insts \ {i}) = Cardinality(github.insts) - 1
    BY <1>0, FS_RemoveElement
  <2>5. Cardinality((github.insts \ {i}) \cup {new}) = Cardinality(github.insts \ {i}) + 1
    BY <2>3, <2>4, FS_AddElement
  <2>8. Cardinality(github'.insts) = Cardinality(github.insts)
    BY <1>0, <2>1, <2>4, <2>5
  <2>6. \A j \in github'.insts : j.id <= Cardinality(github'.insts) + github'.gone
    BY <2>1, <2>2, <2>8 DEF Numbered
  <2>7. \A j, k \in github'.insts : j.id = k.id => j = k
    BY <2>1, <2>2 DEF Numbered
  <2> QED BY <2>6, <2>7 DEF Numbered
<1>5. CASE \E o \in Operators : Converted(o)
  BY <1>0, <1>5 DEF Converted, Numbered, GithubType
<1>6. CASE ~GitHubSide
  BY <1>6, GithubFrame DEF Numbered
<1> QED BY <1>1, <1>2, <1>3, <1>4, <1>5, <1>6 DEF GitHubSide

LEMMA PushedInit == GitHubInit => Pushed
BY DEF GitHubInit, Pushed, DeployedPushed, NoHook

\* The head of the branch and the Apps made only move on.
LEMMA GitHubGrows ==
  ASSUME GitTyped, [GitHubNext]_gitVars
  PROVE  /\ github.head \in Nat /\ github'.head \in Nat /\ github.head <= github'.head
         /\ github.apps \in Nat /\ github'.apps \in Nat /\ github.apps <= github'.apps
<1>0. github \in GithubType BY DEF GitTyped
<1>1. CASE PushCommit
  BY <1>0, <1>1 DEF PushCommit, GithubType
<1>2. CASE \E app \in 1..github.apps : Install(app)
  <2>1. github'.head = github.head /\ github'.apps = github.apps
    BY <1>0, <1>2 DEF Install, GithubType
  <2> QED BY <1>0, <2>1 DEF GithubType
<1>3. CASE \E i \in github.insts : Uninstall(i) \/ Suspend(i)
  <2>1. github'.head = github.head /\ github'.apps = github.apps
    BY <1>0, <1>3 DEF Uninstall, Suspend, GithubType
  <2> QED BY <1>0, <2>1 DEF GithubType
<1>4. CASE \E o \in Operators : Converted(o)
  <2>1. github' = github \/ github' = [github EXCEPT !.apps = github.apps + 1]
    BY <1>4 DEF Converted, ConvertAppManifest
  <2> QED BY <1>0, <2>1 DEF GithubType
<1>5. CASE ~GitHubSide
  BY <1>0, <1>5, GithubFrame DEF GithubType
<1> QED BY <1>1, <1>2, <1>3, <1>4, <1>5 DEF GitHubSide

\* What a step adds to the wire.
LEMMA WireStep ==
  ASSUME GitTyped, [GitHubNext]_gitVars, NEW d \in wire', d \notin wire
  PROVE  \E i \in github.insts :
           \/ PushCommit /\ d = PushTo(i, github.head + 1)
           \/ d = Removal(i)
<1>1. PushCommit \/ \E i \in github.insts : Uninstall(i) \/ Suspend(i)
  BY DEF GitHubNext, gitVars, Install, GiveUp, Receive, RemoveInstallation, KnowInstallation,
         ListTargets, ListedAll, Enqueue, EnqueueFails, Clone, Deployed, DeployFails,
         StartConnect, Converted,
         ConnectFails, CreateApp, StartSetup, StoreInstallation, StartToggle, TurnOff,
         Toggle, Disconnect, Ask
<1>2. CASE PushCommit
  BY <1>2 DEF PushCommit
<1>3. CASE \E i \in github.insts : Uninstall(i) \/ Suspend(i)
  BY <1>3 DEF Uninstall, Suspend
<1> QED BY <1>1, <1>2, <1>3

\* A request of the webhook stands still, ends, or goes on with a push it was handling or
\* received.
LEMMA HookStep ==
  ASSUME GitTyped, [GitHubNext]_gitVars, NEW g \in Hooks, hook'[g].at # "idle"
  PROVE  \/ hook[g].at # "idle" /\ hook'[g].sha = hook[g].sha
         \/ \E d \in wire : hook'[g].sha = d.sha
<1>0. hook \in [Hooks -> Hook] BY DEF GitTyped
<1>1. ASSUME NEW h \in Hooks, NEW d \in wire, Receive(h, d), g = h
      PROVE  \E e \in wire : hook'[g].sha = e.sha
  BY <1>0, <1>1 DEF Receive, NoHook
<1>2. ASSUME NEW h \in Hooks,
             RemoveInstallation(h) \/ KnowInstallation(h) \/ ListTargets(h) \/ ListedAll(h), g = h
      PROVE  hook[g].at # "idle" /\ hook'[g].sha = hook[g].sha
  BY <1>0, <1>2 DEF RemoveInstallation, EndHook, KnowInstallation, ListTargets, ListedAll, NoHook
<1>3. ASSUME NEW h \in Hooks, NEW t \in Targets, Enqueue(h, t) \/ EnqueueFails(h, t), g = h
      PROVE  hook[g].at # "idle" /\ hook'[g].sha = hook[g].sha
  <2>1. CASE Enqueue(h, t)
    <3>1. PICK x \in Hook : hook' = [hook EXCEPT ![h] = x] /\ x.sha = hook[h].sha
      BY <2>1, EnqueueRest
    <3>2. hook'[h] = x BY <3>1, HooksStep
    <3> QED BY <1>3, <2>1, <3>1, <3>2 DEF Enqueue
  <2>2. CASE EnqueueFails(h, t)
    BY <1>0, <1>3, <2>2 DEF EnqueueFails, EndHook, NoHook
  <2> QED BY <1>3, <2>1, <2>2
<1>4. ASSUME hook'[g] = hook[g]
      PROVE  hook[g].at # "idle" /\ hook'[g].sha = hook[g].sha
  BY <1>4
<1>5. ASSUME NEW h \in Hooks, h # g,
             \/ \E d \in wire : Receive(h, d)
             \/ RemoveInstallation(h) \/ KnowInstallation(h) \/ ListTargets(h) \/ ListedAll(h)
             \/ \E t \in Targets : Enqueue(h, t) \/ EnqueueFails(h, t)
      PROVE  hook'[g] = hook[g]
  BY <1>0, <1>5 DEF Receive, RemoveInstallation, KnowInstallation, ListTargets, ListedAll, Enqueue,
                    EnqueueFails, EndHook
<1>6. CASE UNCHANGED hook
  BY <1>4, <1>6
<1>7. CASE \E h \in Hooks :
             \/ \E d \in wire : Receive(h, d)
             \/ RemoveInstallation(h) \/ KnowInstallation(h) \/ ListTargets(h) \/ ListedAll(h)
             \/ \E t \in Targets : Enqueue(h, t) \/ EnqueueFails(h, t)
  BY <1>1, <1>2, <1>3, <1>4, <1>5, <1>7
<1> QED
  BY <1>6, <1>7
  DEF GitHubNext, gitVars, PushCommit, Install, Uninstall, Suspend, GiveUp, Clone, Deployed,
      DeployFails, StartConnect, Converted, ConnectFails, CreateApp, StartSetup,
      StoreInstallation, StartToggle, TurnOff, Toggle, Disconnect, Ask

\* The actions that change what waits, is deployed, runs or was asked for.
Deploying ==
  \/ \E h \in Hooks, t \in Targets : Enqueue(h, t)
  \/ \E q \in Queues : Clone(q) \/ Deployed(q) \/ DeployFails(q)

LEMMA DeployFrame ==
  ASSUME [GitHubNext]_gitVars, ~Deploying, GitTyped
  PROVE  /\ UNCHANGED <<queue, working, live>>
         /\ memo'.asked = memo.asked /\ memo'.failed = memo.failed
<1>0. memo \in MemoType BY DEF GitTyped
<1>1. UNCHANGED <<queue, working, live>>
  BY DEF GitHubNext, Deploying, gitVars, PushCommit, Install, Uninstall, Suspend, GiveUp, Receive,
         RemoveInstallation, KnowInstallation, ListTargets, ListedAll, EnqueueFails,
         StartConnect, Converted,
         ConnectFails, CreateApp, StartSetup, StoreInstallation, StartToggle, TurnOff,
         Toggle, Disconnect, Ask
<1>2. \/ memo' = memo
      \/ memo' = [memo EXCEPT !.handled = memo.handled + 1]
      \/ memo' = [memo EXCEPT !.edits = memo.edits + 1]
      \/ \E r : memo' = [memo EXCEPT !.raced = r]
      \/ \E r : memo' = [memo EXCEPT !.edits = memo.edits + 1, !.raced = r]
  <2>1. CASE \E o \in Operators : Toggle(o)
    BY <2>1 DEF Toggle
  <2>2. CASE \E o \in Operators, t \in Targets : TurnOff(o, t)
    BY <2>2 DEF TurnOff
  <2>3. CASE \E o \in Operators : Disconnect(o)
    BY <2>3 DEF Disconnect
  <2>4. CASE \E h \in Hooks, d \in wire : Receive(h, d)
    BY <2>4 DEF Receive
  <2>5. CASE \E o \in Operators : \E r : Ask(o, r)
    BY <2>5 DEF Ask
  <2>6. CASE memo' = memo
    BY <2>6
  <2> QED
    BY <2>1, <2>2, <2>3, <2>4, <2>5, <2>6
    DEF GitHubNext, Deploying, gitVars, PushCommit, Install, Uninstall, Suspend, GiveUp,
        RemoveInstallation, KnowInstallation, ListTargets, ListedAll, EnqueueFails,
        StartConnect, Converted,
        ConnectFails, CreateApp, StartSetup, StoreInstallation, StartToggle
<1>3. memo'.asked = memo.asked /\ memo'.failed = memo.failed
  BY <1>0, <1>2 DEF MemoType
<1> QED BY <1>1, <1>3

\* What each of them does, field by field.
LEMMA EnqueueStep ==
  ASSUME GitTyped, NEW h \in Hooks, NEW t \in Targets, Enqueue(h, t)
  PROVE  /\ hook[h].of \in Queues /\ t \in hook[h].of /\ hook[h].sha \in Nat
         /\ queue' = [queue EXCEPT ![hook[h].of] =
                        Append(queue[hook[h].of], [target |-> t, sha |-> hook[h].sha])]
         /\ memo'.asked = [memo.asked EXCEPT ![t] =
                             IF hook[h].sha > memo.asked[t] THEN hook[h].sha ELSE memo.asked[t]]
         /\ memo'.failed = memo.failed
         /\ UNCHANGED <<github, working, live>>
<1>1. hook[h] \in [at : {"enqueue"}, sha : Nat, of : Queues, todo : SUBSET Targets]
      /\ hook[h].todo \subseteq hook[h].of
  BY EnqueueHook DEF Enqueue
<1>2. memo \in MemoType BY DEF GitTyped
<1>3. memo' = [memo EXCEPT !.asked =
                 [memo.asked EXCEPT ![t] =
                    IF hook[h].sha > memo.asked[t] THEN hook[h].sha ELSE memo.asked[t]]]
  BY <1>2 DEF Enqueue, MemoType
<1>4. /\ memo'.failed = memo.failed
      /\ memo'.asked = [memo.asked EXCEPT ![t] =
                          IF hook[h].sha > memo.asked[t] THEN hook[h].sha ELSE memo.asked[t]]
  BY <1>2, <1>3 DEF MemoType
<1> QED BY <1>1, <1>4 DEF Enqueue

LEMMA WorkerMemo ==
  ASSUME GitTyped, NEW q \in Queues
  PROVE  /\ Deployed(q) => /\ memo'.asked = memo.asked
                           /\ memo'.failed = memo.failed \ {working[q].target}
         /\ DeployFails(q) => /\ memo'.asked = memo.asked
                              /\ memo'.failed = memo.failed \cup {working[q].target}
<1>1. memo \in MemoType BY DEF GitTyped
<1>2. Deployed(q) => /\ memo'.asked = memo.asked
                     /\ memo'.failed = memo.failed \ {working[q].target}
  BY <1>1 DEF Deployed, MemoType
<1>3. DeployFails(q) => /\ memo'.asked = memo.asked
                        /\ memo'.failed = memo.failed \cup {working[q].target}
  BY <1>1 DEF DeployFails, MemoType
<1> QED BY <1>2, <1>3

LEMMA PushedNext ==
  ASSUME GitTyped, Pushed, [GitHubNext]_gitVars
  PROVE  Pushed'
<1>0. github.head \in Nat /\ github'.head \in Nat /\ github.head <= github'.head
  BY GitHubGrows
<1>1. \A d \in wire : d.sha \in Nat /\ d.sha <= github.head
  BY DEF Pushed, GitTyped, Delivery
<1>2. \A d \in wire' : d.sha <= github'.head
  <2> SUFFICES ASSUME NEW d \in wire', d \notin wire PROVE d.sha <= github'.head
    BY <1>0, <1>1
  <2>1. PICK i \in github.insts : (PushCommit /\ d = PushTo(i, github.head + 1)) \/ d = Removal(i)
    BY WireStep
  <2>2. CASE PushCommit /\ d = PushTo(i, github.head + 1)
    BY <1>0, <2>2 DEF PushCommit, PushTo, GitTyped, GithubType
  <2>3. CASE d = Removal(i)
    BY <1>0, <2>3 DEF Removal
  <2> QED BY <2>1, <2>2, <2>3
<1>3. ASSUME NEW g \in Hooks, hook'[g].at # "idle" PROVE hook'[g].sha <= github'.head
  <2>1. hook[g] \in HookShape BY DEF GitTyped, Hook
  <2>2. hook[g].at # "idle" => hook[g].sha \in Nat /\ hook[g].sha <= github.head
    BY <2>1 DEF Pushed, HookShape, NoHook
  <2> QED BY <1>0, <1>1, <1>3, <2>2, HookStep
<1>4. DeployedPushed'
  <2>0. /\ \A q \in Queues : \A k \in DOMAIN queue[q] :
             queue[q][k].sha \in Nat /\ queue[q][k].sha <= github.head
        /\ \A q \in Queues : working[q] # NoWork =>
             working[q].sha \in Nat /\ working[q].sha <= github.head
        /\ \A t \in Targets : live[t] \in Nat /\ memo.asked[t] \in Nat
                              /\ live[t] <= github.head /\ memo.asked[t] <= github.head
    <3>1. ASSUME NEW q \in Queues, NEW k \in DOMAIN queue[q] PROVE queue[q][k].sha \in Nat
      <4>1. queue[q] \in Seq(Job(q)) BY DEF GitTyped
      <4>2. queue[q][k] \in Job(q) BY <4>1
      <4> QED BY <4>2 DEF Job
    <3>2. \A q \in Queues : working[q] # NoWork => working[q].sha \in Nat
      BY DEF GitTyped, Job
    <3>3. \A t \in Targets : live[t] \in Nat /\ memo.asked[t] \in Nat
      BY DEF GitTyped, MemoType
    <3> QED BY <3>1, <3>2, <3>3 DEF Pushed, DeployedPushed
  <2>1. CASE ~Deploying
    BY <1>0, <2>0, <2>1, DeployFrame DEF DeployedPushed
  <2>2. ASSUME NEW h \in Hooks, NEW u \in Targets, Enqueue(h, u) PROVE DeployedPushed'
    <3>1. /\ hook[h].of \in Queues /\ hook[h].sha \in Nat
          /\ queue' = [queue EXCEPT ![hook[h].of] =
                        Append(queue[hook[h].of], [target |-> u, sha |-> hook[h].sha])]
          /\ memo'.asked = [memo.asked EXCEPT ![u] =
                             IF hook[h].sha > memo.asked[u] THEN hook[h].sha ELSE memo.asked[u]]
          /\ UNCHANGED <<github, working, live>>
      BY <2>2, EnqueueStep
    <3>2. hook[h].sha <= github.head
      BY <2>2 DEF Enqueue, Pushed
    <3>3. \A t \in Targets : memo'.asked[t] <= github'.head
      BY <1>0, <2>0, <3>1, <3>2 DEF GitTyped, MemoType
    <3>4. \A k \in DOMAIN queue'[hook[h].of] : queue'[hook[h].of][k].sha <= github'.head
      <4> DEFINE s == queue[hook[h].of]  j == [target |-> u, sha |-> hook[h].sha]
      <4>1. s \in Seq(Job(hook[h].of)) BY <3>1 DEF GitTyped
      <4>2. queue'[hook[h].of] = Append(s, j) BY <3>1 DEF GitTyped
      <4>3. j.sha = hook[h].sha OBVIOUS
      <4>4. \A k \in DOMAIN s : s[k].sha <= github.head BY <2>0, <3>1
      <4> HIDE DEF s, j
      <4>5. \A k \in DOMAIN Append(s, j) :
              Append(s, j)[k] = j \/ (k \in DOMAIN s /\ Append(s, j)[k] = s[k])
        BY <4>1
      <4> QED BY <3>1, <3>2, <4>2, <4>3, <4>4, <4>5
    <3>5. \A q \in Queues : q # hook[h].of => queue'[q] = queue[q]
      BY <3>1 DEF GitTyped
    <3>6. \A q \in Queues : \A k \in DOMAIN queue'[q] : queue'[q][k].sha <= github'.head
      BY <2>0, <3>1, <3>4, <3>5
    <3> QED BY <2>0, <3>1, <3>3, <3>6 DEF DeployedPushed
  <2>3. ASSUME NEW p \in Queues, Clone(p) PROVE DeployedPushed'
    <3>1. /\ queue' = [queue EXCEPT ![p] = Tail(queue[p])]
          /\ working' = [working EXCEPT ![p] =
                            [target |-> Head(queue[p]).target, sha |-> github.head]]
          /\ UNCHANGED <<github, live, memo>>
      BY <2>3 DEF Clone
    <3>2. \A k \in DOMAIN queue'[p] : queue'[p][k].sha <= github'.head
      BY <2>0, <2>3, <3>1, HeadOfQueue DEF Clone, GitTyped
    <3>3. \A q \in Queues : q # p => queue'[q] = queue[q] /\ working'[q] = working[q]
      BY <3>1 DEF GitTyped
    <3>4. working'[p].sha = github.head
      BY <3>1 DEF GitTyped
    <3>5. \A q \in Queues : \A k \in DOMAIN queue'[q] : queue'[q][k].sha <= github'.head
      BY <2>0, <3>1, <3>2, <3>3
    <3>6. \A q \in Queues : working'[q] # NoWork => working'[q].sha <= github'.head
      BY <1>0, <2>0, <3>1, <3>3, <3>4
    <3> QED BY <2>0, <3>1, <3>5, <3>6 DEF DeployedPushed
  <2>4. ASSUME NEW p \in Queues, Deployed(p) \/ DeployFails(p) PROVE DeployedPushed'
    <3>1. /\ UNCHANGED <<github, queue>> /\ memo'.asked = memo.asked
          /\ working[p] # NoWork /\ working' = [working EXCEPT ![p] = NoWork]
          /\ live' = live \/ live' = [live EXCEPT ![working[p].target] = working[p].sha]
      BY <2>4, WorkerMemo DEF Deployed, DeployFails
    <3>2. \A t \in Targets : live'[t] <= github'.head
      BY <2>0, <3>1 DEF GitTyped
    <3>3. \A q \in Queues : working'[q] = NoWork \/ working'[q] = working[q]
      BY <3>1 DEF GitTyped
    <3>4. \A q \in Queues : working'[q] # NoWork => working'[q].sha <= github'.head
      BY <2>0, <3>1, <3>3
    <3>5. \A t \in Targets : memo'.asked[t] <= github'.head
      BY <2>0, <3>1
    <3>6. \A q \in Queues : \A k \in DOMAIN queue'[q] : queue'[q][k].sha <= github'.head
      BY <2>0, <3>1
    <3> QED BY <3>2, <3>4, <3>5, <3>6 DEF DeployedPushed
  <2> QED BY <2>1, <2>2, <2>3, <2>4 DEF Deploying
<1> QED BY <1>2, <1>3, <1>4 DEF Pushed

LEMMA MadeInit == GitHubInit => Made
BY DEF GitHubInit, Made, KnownMade, NoApp, NoRequest

LEMMA MadeNext ==
  ASSUME GitTyped, Made, [GitHubNext]_gitVars
  PROVE  Made'
<1>0. github.apps \in Nat /\ github'.apps \in Nat /\ github.apps <= github'.apps
  BY GitHubGrows
<1>1. github \in GithubType /\ db \in DbType /\ wire \subseteq Delivery
      /\ ops \in [Operators -> GitRequest]
  BY DEF GitTyped
<1>2. \A i \in github'.insts : i.app <= github'.apps
  <2>1. \A i \in github.insts : i \in Installation /\ i.app \in Nat /\ i.app <= github.apps
    BY <1>1 DEF Made, GithubType, Installation
  <2>2. CASE \E app \in 1..github.apps : Install(app)
    <3>1. PICK app \in 1..github.apps : Install(app) BY <2>2
    <3> DEFINE n == Cardinality(github.insts) + github.gone + 1
    <3>2. github'.insts = github.insts \cup {[id |-> n, app |-> app, suspended |-> FALSE]}
      BY <1>1, <3>1 DEF Install, GithubType
    <3> QED BY <1>0, <2>1, <3>2
  <2>3. CASE \E i \in github.insts : Suspend(i)
    <3>1. PICK i \in github.insts : Suspend(i) BY <2>3
    <3>2. github'.insts = (github.insts \ {i}) \cup {[i EXCEPT !.suspended = TRUE]}
      BY <1>1, <3>1 DEF Suspend, GithubType
    <3> DEFINE new == [i EXCEPT !.suspended = TRUE]
    <3>3. new.app = i.app /\ i.app \in Nat /\ i.app <= github.apps
      BY <2>1 DEF Installation
    <3>4. github'.insts = (github.insts \ {i}) \cup {new}
      BY <3>2
    <3> HIDE DEF new
    <3>5. \A j \in github'.insts : j.app \in Nat /\ j.app <= github.apps
      BY <2>1, <3>3, <3>4
    <3> QED BY <1>0, <3>5
  <2>4. CASE PushCommit \/ (\E i \in github.insts : Uninstall(i))
             \/ (\E o \in Operators : Converted(o)) \/ ~GitHubSide
    <3>1. github'.insts \subseteq github.insts
      <4>1. CASE PushCommit BY <1>1, <4>1 DEF PushCommit, GithubType
      <4>2. CASE \E i \in github.insts : Uninstall(i) BY <1>1, <4>2 DEF Uninstall, GithubType
      <4>3. CASE \E o \in Operators : Converted(o) BY <1>1, <4>3 DEF Converted, GithubType
      <4>4. CASE ~GitHubSide BY <4>4, GithubFrame
      <4> QED BY <2>4, <4>1, <4>2, <4>3, <4>4
    <3> QED BY <1>0, <2>1, <3>1
  <2> QED BY <2>2, <2>3, <2>4 DEF GitHubSide
<1>3. \A d \in wire' : d.app <= github'.apps
  <2>0. \A d \in wire : d.app \in Nat /\ d.app <= github.apps
    BY <1>1 DEF Made, Delivery
  <2> SUFFICES ASSUME NEW d \in wire', d \notin wire PROVE d.app <= github'.apps
    BY <1>0, <2>0
  <2>1. PICK i \in github.insts : d = PushTo(i, github.head + 1) \/ d = Removal(i)
    BY WireStep
  <2>2. d.app = i.app BY <2>1 DEF PushTo, Removal
  <2>3. i.app \in Nat /\ i.app <= github.apps BY <1>1 DEF Made, GithubType, Installation
  <2> QED BY <1>0, <2>2, <2>3
<1>4. KnownMade'
  <2>0. /\ db.app \in Nat /\ db.app <= github.apps
        /\ \A o \in Operators : ops[o].op \in {"create", "setup", "toggle"}
                                => ops[o].app \in Nat /\ ops[o].app <= github.apps
    <3>1. \A o \in Operators : ops[o].op \in {"create", "setup", "toggle"} => ops[o].app \in Nat
      BY <1>1 DEF GitRequest, NoRequest
    <3> QED BY <1>1, <3>1 DEF Made, KnownMade, DbType
  <2>1. CASE UNCHANGED <<db, ops>>
    BY <1>0, <2>0, <2>1 DEF KnownMade
  <2>2. CASE \E h \in Hooks : RemoveInstallation(h)
    <3>1. db'.app = db.app /\ ops' = ops BY <1>1, <2>2 DEF RemoveInstallation, DbType
    <3> QED BY <1>0, <2>0, <3>1 DEF KnownMade
  <2>3. ASSUME NEW o \in Operators,
           \/ StartConnect(o) \/ Converted(o) \/ ConnectFails(o) \/ CreateApp(o)
           \/ \E i \in github.insts : StartSetup(o, i)
           \/ StoreInstallation(o)
           \/ \E t \in Targets : StartToggle(o, t) \/ TurnOff(o, t)
           \/ Toggle(o) \/ Disconnect(o)
        PROVE KnownMade'
    <3>1. db'.app <= github'.apps
      <4>1. CASE CreateApp(o)
        <5>1. db' = db \/ db' = [db EXCEPT !.app = ops[o].app]
          BY <4>1 DEF CreateApp
        <5>2. db'.app = db.app \/ db'.app = ops[o].app
          BY <1>1, <5>1 DEF DbType
        <5>3. ops[o].app <= github.apps /\ ops[o].app \in Nat
          BY <2>0, <4>1 DEF CreateApp
        <5> QED BY <1>0, <2>0, <5>2, <5>3
      <4>2. CASE Disconnect(o)
        BY <1>0, <4>2 DEF Disconnect, NoApp
      <4>3. CASE ~CreateApp(o) /\ ~Disconnect(o)
        <5>1. \/ db' = db \/ (\E x : db' = [db EXCEPT !.insts = x])
              \/ (\E t, x : db' = [db EXCEPT !.auto[t] = x])
          <6>1. CASE StartConnect(o) \/ (\E t \in Targets : StartToggle(o, t))
                       \/ (\E i \in github.insts : StartSetup(o, i))
            BY <6>1 DEF StartConnect, StartToggle, StartSetup, Ask
          <6>2. CASE Converted(o) \/ ConnectFails(o)
            BY <6>2 DEF Converted, ConnectFails
          <6>3. CASE StoreInstallation(o)
            BY <6>3 DEF StoreInstallation
          <6>4. CASE Toggle(o)
            BY <6>4 DEF Toggle
          <6>5. CASE \E t \in Targets : TurnOff(o, t)
            BY <6>5 DEF TurnOff
          <6> QED BY <2>3, <4>3, <6>1, <6>2, <6>3, <6>4, <6>5
        <5>2. db'.app = db.app
          BY <1>1, <5>1 DEF DbType
        <5> QED BY <1>0, <2>0, <5>2
      <4> QED BY <4>1, <4>2, <4>3
    <3>2. \E r : /\ ops' = [ops EXCEPT ![o] = r]
                 /\ \/ r.op \in {"idle", "connect"}
                    \/ r = ops[o]
                    \/ r.app \in {db.app, github'.apps}
      <4>1. CASE \E i \in github.insts : StartSetup(o, i)
        BY <4>1 DEF StartSetup, Ask
      <4>2. CASE \E t \in Targets : StartToggle(o, t)
        BY <4>2 DEF StartToggle, Ask
      <4>3. CASE StartConnect(o)
        <5> DEFINE r == [op |-> "connect"]
        <5>1. ops' = [ops EXCEPT ![o] = r] /\ r.op = "connect"
          BY <4>3 DEF StartConnect, Ask
        <5> QED BY <5>1
      <4>4. CASE Converted(o)
        BY <1>1, <4>4 DEF Converted, Finish, NoRequest, ConvertAppManifest, GithubType
      <4>5. CASE ConnectFails(o) \/ CreateApp(o) \/ StoreInstallation(o) \/ Toggle(o)
        BY <4>5 DEF ConnectFails, CreateApp, StoreInstallation, Toggle, Finish, NoRequest
      <4>6. CASE (\E t \in Targets : TurnOff(o, t)) \/ Disconnect(o)
        <5>1. ops' = ops
          BY <4>6 DEF TurnOff, Disconnect
        <5>2. ops' = [ops EXCEPT ![o] = ops[o]]
          BY <1>1, <5>1
        <5> QED BY <5>2
      <4> QED BY <2>3, <4>1, <4>2, <4>3, <4>4, <4>5, <4>6
    <3>3. \A p \in Operators : ops'[p].op \in {"create", "setup", "toggle"}
                                 => ops'[p].app <= github'.apps
      BY <1>0, <1>1, <2>0, <3>2
    <3> QED BY <3>1, <3>3 DEF KnownMade
  <2>4. CASE ~(\E h \in Hooks : RemoveInstallation(h))
             /\ ~(\E o \in Operators :
                    \/ StartConnect(o) \/ Converted(o) \/ ConnectFails(o) \/ CreateApp(o)
                    \/ \E i \in github.insts : StartSetup(o, i)
                    \/ StoreInstallation(o)
                    \/ \E t \in Targets : StartToggle(o, t) \/ TurnOff(o, t)
                    \/ Toggle(o) \/ Disconnect(o))
    <3>1. UNCHANGED <<db, ops>>
      BY <2>4 DEF GitHubNext, gitVars, PushCommit, Install, Uninstall, Suspend, GiveUp, Receive,
         KnowInstallation, ListTargets, ListedAll, Enqueue, EnqueueFails, Clone, Deployed,
         DeployFails
    <3> QED BY <2>1, <3>1
  <2> QED BY <2>2, <2>3, <2>4
<1> QED BY <1>2, <1>3, <1>4 DEF Made

LEMMA StoredWithAppNext ==
  ASSUME GitTyped, StoredWithApp, [GitHubNext]_gitVars
  PROVE  StoredWithApp'
<1>0. db \in DbType /\ ops \in [Operators -> GitRequest]
  BY DEF GitTyped
<1>1. CASE \E h \in Hooks : RemoveInstallation(h)
  <2>1. db'.app = db.app /\ db'.insts \subseteq db.insts
    BY <1>0, <1>1 DEF RemoveInstallation, DbType
  <2> QED BY <2>1 DEF StoredWithApp
<1>2. ASSUME NEW o \in Operators, CreateApp(o) PROVE StoredWithApp'
  <2>1. ops[o].app # NoApp
    BY <1>0, <1>2 DEF CreateApp, GitRequest, NoRequest
  <2>2. db' = db \/ db'.app = ops[o].app
    BY <1>0, <1>2 DEF CreateApp, DbType
  <2> QED BY <2>1, <2>2 DEF StoredWithApp
<1>3. ASSUME NEW o \in Operators, StoreInstallation(o) PROVE StoredWithApp'
  <2>1. ops[o].app # NoApp
    BY <1>0, <1>3 DEF StoreInstallation, GitRequest, NoRequest
  <2>2. db' = db \/ (db.app = ops[o].app /\ db'.app = db.app)
    BY <1>0, <1>3 DEF StoreInstallation, DbType
  <2> QED BY <2>1, <2>2 DEF StoredWithApp
<1>4. CASE \E o \in Operators : Toggle(o) \/ Disconnect(o) \/ \E t \in Targets : TurnOff(o, t)
  <2>1. CASE \E o \in Operators : Disconnect(o)
    BY <2>1 DEF Disconnect, StoredWithApp
  <2>2. CASE \E o \in Operators : Toggle(o) \/ \E t \in Targets : TurnOff(o, t)
    <3>1. db'.app = db.app /\ db'.insts = db.insts
      <4>1. \E t, x : db' = [db EXCEPT !.auto[t] = x]
        BY <2>2 DEF Toggle, TurnOff
      <4> QED BY <1>0, <4>1 DEF DbType
    <3> QED BY <3>1 DEF StoredWithApp
  <2> QED BY <1>4, <2>1, <2>2
<1>5. CASE UNCHANGED db
  BY <1>5 DEF StoredWithApp
<1> QED
  BY <1>1, <1>2, <1>3, <1>4, <1>5
  DEF GitHubNext, gitVars, PushCommit, Install, Uninstall, Suspend, GiveUp, Receive,
      KnowInstallation,
      ListTargets, ListedAll, Enqueue, EnqueueFails, Clone, Deployed, DeployFails,
      StartConnect, Converted, ConnectFails, StartSetup, StartToggle, Ask

\* The bounds of the model hold in every state.
Bounded == github.head <= MaxPushes /\ github.apps <= MaxApps

LEMMA BoundedNext ==
  ASSUME MaxPushes \in Nat, MaxApps \in Nat, GitTyped, Bounded, [GitHubNext]_gitVars
  PROVE  Bounded'
<1>0. github \in GithubType BY DEF GitTyped
<1>1. CASE PushCommit
  BY <1>0, <1>1 DEF PushCommit, GithubType, Bounded
<1>2. CASE \E app \in 1..github.apps : Install(app)
  BY <1>0, <1>2 DEF Install, GithubType, Bounded
<1>3. CASE \E i \in github.insts : Uninstall(i) \/ Suspend(i)
  BY <1>0, <1>3 DEF Uninstall, Suspend, GithubType, Bounded
<1>4. ASSUME NEW o \in Operators, Converted(o) PROVE Bounded'
  <2>1. github' = github
        \/ (github' = [github EXCEPT !.apps = github.apps + 1] /\ github.apps < MaxApps)
    BY <1>4 DEF Converted, ConvertAppManifest
  <2> QED BY <1>0, <2>1 DEF GithubType, Bounded
<1>5. CASE ~GitHubSide
  BY <1>5, GithubFrame DEF Bounded
<1> QED BY <1>1, <1>2, <1>3, <1>4, <1>5 DEF GitHubSide

TypeInv == GitTyped /\ Numbered /\ Pushed /\ Made /\ StoredWithApp

LEMMA TypeInvariant == GitHubSpec => []TypeInv
<1>1. GitHubInit => TypeInv
  BY GitTypedInit, NumberedInit, PushedInit, MadeInit DEF TypeInv, StoredWithApp, GitHubInit
<1>2. TypeInv /\ [GitHubNext]_gitVars => TypeInv'
  BY GitTypedNext, NumberedNext, PushedNext, MadeNext, StoredWithAppNext DEF TypeInv
<1> QED BY <1>1, <1>2, PTL DEF GitHubSpec

LEMMA TypeInvImpliesTypeOK == TypeInv /\ Bounded => GitHubTypeOK
<1> SUFFICES ASSUME TypeInv, Bounded PROVE GitHubTypeOK
  OBVIOUS
<1>0. GitTyped /\ Numbered /\ Pushed /\ Made /\ StoredWithApp
  BY DEF TypeInv
<1>1. wire \subseteq [event : {"push", "installation"}, app : 0..github.apps,
                      inst : Nat, sha : 0..github.head]
  BY <1>0 DEF GitTyped, GithubType, Delivery, Pushed, Made
<1>2. \A h \in Hooks : hook[h].at \in {"idle", "push", "installation", "list", "enqueue"}
  <2>1. \A h \in Hooks : hook[h] \in HookShape BY <1>0 DEF GitTyped, Hook
  <2> QED BY <2>1 DEF HookShape, NoHook
<1>3. db.app \in {NoApp} \cup 1..github.apps /\ db.auto \in [Targets -> BOOLEAN]
  BY <1>0 DEF GitTyped, DbType, GithubType, Made, KnownMade, NoApp
<1>4. ASSUME NEW q \in Queues
      PROVE  /\ \A i \in DOMAIN queue[q] : queue[q][i] \in [target : q, sha : 0..github.head]
             /\ working[q] = NoWork \/ working[q] \in [target : q, sha : 0..github.head]
  <2>1. ASSUME NEW i \in DOMAIN queue[q] PROVE queue[q][i] \in [target : q, sha : 0..github.head]
    <3>1. queue[q] \in Seq(Job(q)) /\ queue[q][i].sha <= github.head
      BY <1>0 DEF GitTyped, Pushed, DeployedPushed
    <3>2. queue[q][i] \in Job(q)
      BY <3>1
    <3> QED BY <1>0, <3>1, <3>2 DEF Job, GitTyped, GithubType
  <2>2. working[q] = NoWork \/ working[q] \in [target : q, sha : 0..github.head]
    BY <1>0 DEF GitTyped, GithubType, Pushed, DeployedPushed, Job
  <2> QED BY <2>1, <2>2
<1>5. live \in [Targets -> 0..github.head]
  BY <1>0 DEF GitTyped, GithubType, Pushed, DeployedPushed
<1>6. DOMAIN ops = Operators
  BY <1>0 DEF GitTyped
<1>7. (\A i, j \in github.insts : i.id = j.id => i = j) /\ (db.app = NoApp => db.insts = {})
  BY <1>0 DEF Numbered, StoredWithApp
<1> QED BY <1>1, <1>2, <1>3, <1>4, <1>5, <1>6, <1>7 DEF GitHubTypeOK, Bounded

(* Type correctness: only commits that were pushed are delivered, queued or *)
(* run, installations are kept apart, and one is stored only with an App.   *)
THEOREM GitHubTypeCorrect ==
  ASSUME MaxPushes \in Nat, MaxApps \in Nat
  PROVE  GitHubSpec => []GitHubTypeOK
<1>1. GitHubInit => Bounded
  BY DEF GitHubInit, Bounded
<1>2. GitTyped /\ Bounded /\ [GitHubNext]_gitVars => Bounded'
  BY BoundedNext
<1> QED BY <1>1, <1>2, SpecTyped, TypeInvariant, TypeInvImpliesTypeOK, PTL DEF GitHubSpec, TypeInv

-----------------------------------------------------------------------------
(***************************************************************************)
(* Deployments on push need an App: a toggle holds on to the App it was    *)
(* checked against, and only a toggle that lost it leaves a mark.          *)
(***************************************************************************)
AppInv == GitTyped /\ AutoDeployNeedsApp

LEMMA AppNext ==
  ASSUME AppInv, [GitHubNext]_gitVars
  PROVE  AutoDeployNeedsApp'
<1>0. db \in DbType /\ memo \in MemoType /\ ops \in [Operators -> GitRequest]
  BY DEF AppInv, GitTyped
<1> USE DEF AppInv
<1>1. ASSUME NEW o \in Operators, CreateApp(o) PROVE AutoDeployNeedsApp'
  <2>1. ops[o].app # NoApp
    BY <1>0, <1>1 DEF CreateApp, GitRequest, NoRequest
  <2>2. db'.auto = db.auto /\ (db.app # NoApp => db'.app # NoApp) /\ memo' = memo
    BY <1>0, <1>1, <2>1 DEF CreateApp, DbType
  <2> QED BY <2>2 DEF AutoDeployNeedsApp
<1>2. ASSUME NEW o \in Operators, Toggle(o) PROVE AutoDeployNeedsApp'
  <2>1. ops[o].target \in Targets /\ ops[o].app # NoApp
    BY <1>0, <1>2 DEF Toggle, GitRequest, NoRequest
  <2>2. db'.app = db.app /\ db'.auto = [db.auto EXCEPT ![ops[o].target] = TRUE]
    BY <1>0, <1>2 DEF Toggle, DbType
  <2>3. memo'.raced = IF db.app # ops[o].app THEN memo.raced \cup {ops[o].target} ELSE memo.raced
    BY <1>0, <1>2 DEF Toggle, MemoType
  <2>4. \A t \in Targets : t # ops[o].target => db'.auto[t] = db.auto[t]
    BY <1>0, <2>2 DEF DbType
  <2> QED BY <2>1, <2>2, <2>3, <2>4 DEF AutoDeployNeedsApp
<1>3. ASSUME NEW o \in Operators, NEW u \in Targets, TurnOff(o, u) PROVE AutoDeployNeedsApp'
  <2>1. db'.app = db.app /\ db'.auto = [db.auto EXCEPT ![u] = FALSE]
    BY <1>0, <1>3 DEF TurnOff, DbType
  <2>2. memo'.raced = memo.raced \ {u}
    BY <1>0, <1>3 DEF TurnOff, MemoType
  <2>3. ~db'.auto[u] /\ \A t \in Targets : t # u => db'.auto[t] = db.auto[t]
    BY <1>0, <2>1 DEF DbType
  <2> QED BY <2>1, <2>2, <2>3 DEF AutoDeployNeedsApp
<1>4. ASSUME NEW o \in Operators, Disconnect(o) PROVE AutoDeployNeedsApp'
  BY <1>4 DEF Disconnect, AutoDeployNeedsApp
<1>5. ASSUME db'.auto = db.auto, db'.app = db.app, memo'.raced = memo.raced
      PROVE  AutoDeployNeedsApp'
  BY <1>5 DEF AutoDeployNeedsApp
<1>6. CASE (\E h \in Hooks : RemoveInstallation(h)) \/ \E o \in Operators : StoreInstallation(o)
  <2>1. db'.auto = db.auto /\ db'.app = db.app
    BY <1>0, <1>6 DEF RemoveInstallation, StoreInstallation, DbType
  <2>2. memo'.raced = memo.raced
    BY <1>6 DEF RemoveInstallation, StoreInstallation
  <2> QED BY <1>5, <2>1, <2>2
<1>7. CASE \E h \in Hooks : (\E d \in wire : Receive(h, d)) \/ \E t \in Targets : Enqueue(h, t)
  <2>1. db' = db /\ memo'.raced = memo.raced
    BY <1>0, <1>7 DEF Receive, Enqueue, MemoType
  <2> QED BY <1>5, <2>1
<1>8. CASE \E q \in Queues : Deployed(q) \/ DeployFails(q)
  <2>1. db' = db /\ memo'.raced = memo.raced
    BY <1>0, <1>8 DEF Deployed, DeployFails, MemoType
  <2> QED BY <1>5, <2>1
<1>9. CASE \E o \in Operators : \E r : Ask(o, r)
  <2>1. db' = db /\ memo'.raced = memo.raced
    BY <1>0, <1>9 DEF Ask, MemoType
  <2> QED BY <1>5, <2>1
<1>10. CASE UNCHANGED <<db, memo>>
  BY <1>5, <1>10
<1> QED
  BY <1>1, <1>2, <1>3, <1>4, <1>6, <1>7, <1>8, <1>9, <1>10
  DEF GitHubNext, gitVars, PushCommit, Install, Uninstall, Suspend, GiveUp, KnowInstallation,
      ListTargets, ListedAll, EnqueueFails, Clone, StartConnect, Converted, ConnectFails,
      StartSetup, StartToggle

(* A target deploys on push only while an App is connected, unless its      *)
(* toggle was written after the App it was checked against had gone         *)
(* (autoDeployBlocker, DELETE /api/github/app).                             *)
THEOREM AppStaysConnected == GitHubSpec => []AutoDeployNeedsApp
<1>1. GitHubInit => AppInv
  BY GitTypedInit DEF GitHubInit, AppInv, AutoDeployNeedsApp
<1>2. AppInv /\ [GitHubNext]_gitVars => AppInv'
  BY GitTypedNext, AppNext DEF AppInv
<1> QED BY <1>1, <1>2, PTL DEF GitHubSpec, AppInv

-----------------------------------------------------------------------------
(***************************************************************************)
(* The newest push: what was queued for a target waits, is deployed from   *)
(* the head of the branch, failed, or runs.                                *)
(***************************************************************************)
FreshInv == TypeInv /\ AllFresh

LEMMA FreshNext ==
  ASSUME Applications \cap Projects = {}, FreshInv, [GitHubNext]_gitVars
  PROVE  AllFresh'
<1>0. GitTyped /\ Pushed /\ AllFresh
  BY DEF FreshInv, TypeInv
<1>1. \A q \in Queues : q \subseteq Targets
  BY DEF Queues, Targets
<1>2. \A p, q \in Queues : \A t \in p : t \in q => p = q
  BY DEF Queues
<1>3. \A t \in Targets : /\ memo.asked[t] \in Nat /\ live[t] \in Nat
                         /\ memo.asked[t] <= github.head
  BY <1>0 DEF GitTyped, MemoType, Pushed, DeployedPushed
<1>4. CASE ~Deploying
  BY <1>0, <1>4, DeployFrame DEF AllFresh, Fresh, Waiting, Serving
<1>5. ASSUME NEW h \in Hooks, NEW u \in Targets, Enqueue(h, u) PROVE AllFresh'
  <2>1. /\ hook[h].of \in Queues /\ u \in hook[h].of
        /\ queue' = [queue EXCEPT ![hook[h].of] =
                      Append(queue[hook[h].of], [target |-> u, sha |-> hook[h].sha])]
        /\ memo'.asked = [memo.asked EXCEPT ![u] =
                           IF hook[h].sha > memo.asked[u] THEN hook[h].sha ELSE memo.asked[u]]
        /\ memo'.failed = memo.failed
        /\ UNCHANGED <<github, working, live>>
    BY <1>0, <1>5, EnqueueStep
  <2> SUFFICES ASSUME NEW q \in Queues, NEW t \in q PROVE Fresh(q, t)'
    BY DEF AllFresh
  <2>2. Fresh(q, t) BY <1>0 DEF AllFresh
  <2> DEFINE s == queue[hook[h].of]  j == [target |-> u, sha |-> hook[h].sha]
  <2>3. s \in Seq(Job(hook[h].of)) BY <1>0, <2>1 DEF GitTyped
  <2>4. queue'[hook[h].of] = Append(s, j) BY <1>0, <2>1 DEF GitTyped
  <2>5. j.target = u OBVIOUS
  <2> HIDE DEF j
  <2>6. CASE t = u
    <3>1. q = hook[h].of BY <1>2, <2>1, <2>6
    <3>2. Len(s) + 1 \in DOMAIN Append(s, j) /\ Append(s, j)[Len(s) + 1] = j
      BY <2>3
    <3> QED BY <2>4, <2>5, <2>6, <3>1, <3>2 DEF Fresh, Waiting
  <2>7. CASE t # u
    <3>1. memo'.asked[t] = memo.asked[t]
      BY <1>0, <2>1, <2>7 DEF GitTyped, MemoType
    <3>2. Waiting(q, t) => Waiting(q, t)'
      <4>1. CASE q # hook[h].of
        BY <1>0, <2>1, <4>1 DEF Waiting, GitTyped
      <4>2. CASE q = hook[h].of
        <5>1. \A k \in DOMAIN s : k \in DOMAIN Append(s, j) /\ Append(s, j)[k] = s[k]
          BY <2>3
        <5> QED BY <2>4, <4>2, <5>1 DEF Waiting
      <4> QED BY <4>1, <4>2
    <3> QED BY <2>1, <2>2, <3>1, <3>2 DEF Fresh, Serving
  <2> QED BY <2>6, <2>7
<1>6. ASSUME NEW p \in Queues, Clone(p) PROVE AllFresh'
  <2>1. /\ working[p] = NoWork /\ queue[p] # <<>>
        /\ queue' = [queue EXCEPT ![p] = Tail(queue[p])]
        /\ working' = [working EXCEPT ![p] =
                         [target |-> Head(queue[p]).target, sha |-> github.head]]
        /\ UNCHANGED <<github, live, memo>>
    BY <1>6 DEF Clone
  <2> SUFFICES ASSUME NEW q \in Queues, NEW t \in q PROVE Fresh(q, t)'
    BY DEF AllFresh
  <2>2. Fresh(q, t) BY <1>0 DEF AllFresh
  <2>3. CASE q # p
    <3>1. queue'[q] = queue[q] /\ working'[q] = working[q]
      BY <1>0, <2>1, <2>3 DEF GitTyped
    <3> QED BY <2>1, <2>2, <3>1 DEF Fresh, Waiting, Serving
  <2>4. CASE q = p
    <3> DEFINE job == [target |-> Head(queue[p]).target, sha |-> github.head]
    <3>1. queue'[p] = Tail(queue[p]) /\ working'[p] = job
      BY <1>0, <2>1 DEF GitTyped
    <3>2. job.target = queue[p][1].target /\ job.sha = github.head /\ job # NoWork
      BY <1>0, <2>1, HeadOfQueue DEF NoWork
    <3> HIDE DEF job
    <3>3. CASE job.target = t
      BY <1>1, <1>3, <2>1, <2>4, <3>1, <3>2, <3>3 DEF Fresh, Serving
    <3>4. CASE job.target # t
      <4>1. Waiting(q, t) => Waiting(q, t)'
        <5>1. ASSUME NEW k \in DOMAIN queue[p], queue[p][k].target = t PROVE Waiting(q, t)'
          <6>1. k # 1 BY <3>2, <3>4, <5>1
          <6>2. k - 1 \in DOMAIN queue'[p] /\ queue'[p][k - 1] = queue[p][k]
            BY <1>0, <2>1, <3>1, <6>1, HeadOfQueue
          <6> QED BY <2>4, <5>1, <6>2 DEF Waiting
        <5> QED BY <2>4, <5>1 DEF Waiting
      <4>2. ~Serving(q, t) /\ ~Serving(q, t)'
        BY <2>1, <2>4, <3>1, <3>4 DEF Serving
      <4> QED BY <2>1, <2>2, <4>1, <4>2 DEF Fresh
    <3> QED BY <3>3, <3>4
  <2> QED BY <2>3, <2>4
<1>7. ASSUME NEW p \in Queues, Deployed(p) \/ DeployFails(p) PROVE AllFresh'
  <2>1. /\ UNCHANGED <<github, queue>> /\ memo'.asked = memo.asked
        /\ working[p] # NoWork /\ working' = [working EXCEPT ![p] = NoWork]
        /\ \/ /\ live' = [live EXCEPT ![working[p].target] = working[p].sha]
              /\ memo'.failed = memo.failed \ {working[p].target}
           \/ /\ live' = live
              /\ memo'.failed = memo.failed \cup {working[p].target}
    BY <1>0, <1>7, WorkerMemo DEF Deployed, DeployFails
  <2>2. working[p].target \in p
    BY <1>0, <2>1 DEF GitTyped, Job
  <2> SUFFICES ASSUME NEW q \in Queues, NEW t \in q PROVE Fresh(q, t)'
    BY DEF AllFresh
  <2>3. Fresh(q, t) BY <1>0 DEF AllFresh
  <2>4. Waiting(q, t)' = Waiting(q, t)
    BY <2>1 DEF Waiting
  <2>5. CASE t = working[p].target
    <3>1. q = p BY <1>2, <2>2, <2>5
    <3>2. Serving(q, t) /\ ~Serving(q, t)'
      BY <1>0, <2>1, <2>5, <3>1 DEF Serving, GitTyped
    <3>3. live' = [live EXCEPT ![t] = working[p].sha] => live'[t] = working[p].sha
      BY <1>0, <1>1, <2>5 DEF GitTyped
    <3> QED BY <2>1, <2>3, <2>4, <2>5, <3>1, <3>2, <3>3 DEF Fresh
  <2>6. CASE t # working[p].target
    <3>1. live'[t] = live[t] /\ (t \in memo'.failed <=> t \in memo.failed)
      BY <1>0, <1>1, <2>1, <2>6 DEF GitTyped
    <3>2. Serving(q, t)' <=> Serving(q, t)
      <4>1. CASE q = p
        BY <1>0, <2>1, <2>6, <4>1 DEF Serving, GitTyped
      <4>2. CASE q # p
        BY <1>0, <2>1, <4>2 DEF Serving, GitTyped
      <4> QED BY <4>1, <4>2
    <3>3. working'[q] = working[q] \/ ~Serving(q, t)
      BY <1>0, <2>1, <2>6 DEF Serving, GitTyped
    <3> QED BY <2>1, <2>3, <2>4, <3>1, <3>2, <3>3 DEF Fresh
  <2> QED BY <2>5, <2>6
<1> QED BY <1>4, <1>5, <1>6, <1>7 DEF Deploying

(* However its deliveries were delayed, repeated or reordered, a target with *)
(* no deployment left to run whose last one succeeded runs a commit at least *)
(* as new as every push queued for it: the clone takes the head of the       *)
(* branch, not the commit of the delivery (gitClone).                        *)
THEOREM NewestPushRuns ==
  ASSUME Applications \cap Projects = {}
  PROVE  GitHubSpec => []NewestPushDeployed
<1>1. GitHubInit => FreshInv
  <2>1. GitHubInit => AllFresh
    BY DEF GitHubInit, AllFresh, Fresh, Waiting, Serving, Queues, Targets
  <2> QED BY <2>1, GitTypedInit, NumberedInit, PushedInit, MadeInit
          DEF FreshInv, TypeInv, StoredWithApp, GitHubInit
<1>2. FreshInv /\ [GitHubNext]_gitVars => FreshInv'
  BY GitTypedNext, NumberedNext, PushedNext, MadeNext, StoredWithAppNext, FreshNext
  DEF FreshInv, TypeInv
<1>3. FreshInv => NewestPushDeployed
  BY DEF FreshInv, AllFresh, Fresh, Waiting, Serving, NewestPushDeployed
<1> QED BY <1>1, <1>2, <1>3, PTL DEF GitHubSpec
=============================================================================
