------------------------------ MODULE Members ------------------------------
(***************************************************************************)
(* Members of one organization and invitations to it.  Every request is a  *)
(* sequence of separate reads and writes of the database, so requests      *)
(* interleave between a check and the write it was made for; only the      *)
(* redemption of an invitation is one transaction.                         *)
(*                                                                         *)
(* Source: apps/api/src/routes/members.ts, with rbac.ts and session.ts.    *)
(***************************************************************************)
EXTENDS Naturals, FiniteSets

CONSTANTS
  People,       \* e-mail addresses; an account is known by its address
  Founder,      \* the owner created by the first-run setup
  Invitations,  \* ids of the invitations rows that may be created
  Clients,      \* requests that may be in hand at the same time
  None,
  Overlapping   \* whether two role changes or removals may be in hand at once

ASSUME FounderAssumption == Founder \in People
ASSUME NoneAssumption == None \notin People \cup Invitations
ASSUME OverlappingAssumption == Overlapping \in BOOLEAN

VARIABLES
  role,   \* users rows: the role, "none" where there is no account
  inv,    \* invitations rows
  rq      \* by client: the request in hand, where it is and what it has read

vars == <<role, inv, rq>>

Roles == {"member", "admin", "owner"}
Rank == [none |-> 0, member |-> 1, admin |-> 2, owner |-> 3]

NoInv == [email |-> None, role |-> "member", accepted |-> FALSE, revoked |-> FALSE,
          expired |-> FALSE]

\* Operation, acting user and role read with the session, and the person, role and
\* invitation the request names.
Idle == [pc |-> "idle", op |-> "none", by |-> None, byRole |-> "none", who |-> None,
         to |-> "none", inv |-> None]

TypeOK ==
  /\ role \in [People -> Roles \cup {"none"}]
  /\ inv \in [Invitations -> [email : People \cup {None}, role : {"member", "admin"},
                              accepted : BOOLEAN, revoked : BOOLEAN, expired : BOOLEAN]]
  /\ rq \in [Clients -> [pc : {"idle", "read", "count", "pending", "write"},
                         op : {"none", "role", "remove", "invite", "revoke", "accept"},
                         by : People \cup {None}, byRole : Roles \cup {"none"},
                         who : People \cup {None}, to : Roles \cup {"none"},
                         inv : Invitations \cup {None}]]
  /\ \A c \in Clients : rq[c].pc = "idle" <=> rq[c].op = "none"

Init ==
  /\ role = [p \in People |-> IF p = Founder THEN "owner" ELSE "none"]
  /\ inv = [i \in Invitations |-> NoInv]
  /\ rq = [c \in Clients |-> Idle]

Owners == {p \in People : role[p] = "owner"}

\* invitationStatus: in this order accepted, revoked, expired, pending.
Pending(i) == /\ inv[i].email # None
              /\ ~inv[i].accepted /\ ~inv[i].revoked /\ ~inv[i].expired

OnMembers(c) == rq[c].op \in {"role", "remove"}

At(c, op, pc) == rq[c].op = op /\ rq[c].pc = pc
Goto(c, p) == rq' = [rq EXCEPT ![c].pc = p]
Answer(c) == rq' = [rq EXCEPT ![c] = Idle]

-----------------------------------------------------------------------------
(***************************************************************************)
(* requireRole: the session's user is read once, at the door.              *)
(***************************************************************************)
MinRole(op) == IF op = "role" THEN "owner" ELSE "admin"

Authenticate(c, by, request) ==
  /\ rq[c] = Idle
  /\ Rank[role[by]] >= Rank[MinRole(request.op)]
  /\ request.op \in {"role", "remove"} /\ ~Overlapping
       => \A other \in Clients : ~OnMembers(other)
  /\ rq' = [rq EXCEPT ![c] = [request EXCEPT !.pc = "read", !.by = by,
                                             !.byRole = role[by]]]
  /\ UNCHANGED <<role, inv>>

AskRole(c, by, p, to) ==
  Authenticate(c, by, [Idle EXCEPT !.op = "role", !.who = p, !.to = to])
AskRemove(c, by, p) ==
  Authenticate(c, by, [Idle EXCEPT !.op = "remove", !.who = p])

\* CreateInvitationSchema knows no invitation to be an owner.
AskInvite(c, by, p, to) ==
  /\ to # "owner"
  /\ Authenticate(c, by, [Idle EXCEPT !.op = "invite", !.who = p, !.to = to])

AskRevoke(c, by, i) ==
  Authenticate(c, by, [Idle EXCEPT !.op = "revoke", !.inv = i])

\* The link is the only credential of an acceptance.
AskAccept(c, i) ==
  /\ rq[c] = Idle /\ inv[i].email # None
  /\ rq' = [rq EXCEPT ![c] = [Idle EXCEPT !.op = "accept", !.pc = "read", !.inv = i]]
  /\ UNCHANGED <<role, inv>>

-----------------------------------------------------------------------------
(***************************************************************************)
(* Role changes and removals.                                              *)
(***************************************************************************)

\* Mutant: an administrator is not kept from removing an owner.
RefusedWithoutRank(c) ==
  LET seen == role[rq[c].who] IN
    \/ seen = "none" \/ rq[c].who = rq[c].by
    \/ rq[c].op = "role" /\ seen = rq[c].to

\* Nobody there, oneself, nothing to change, or an owner and the caller is none.
Refused(c) ==
  LET seen == role[rq[c].who] IN
    \/ seen = "none" \/ rq[c].who = rq[c].by
    \/ rq[c].op = "role" /\ seen = rq[c].to
    \/ rq[c].op = "remove" /\ seen = "owner" /\ rq[c].byRole # "owner"

ReadMember(c) ==
  /\ OnMembers(c) /\ rq[c].pc = "read"
  /\ IF Refused(c) THEN Answer(c)
     ELSE Goto(c, IF role[rq[c].who] = "owner" THEN "count" ELSE "write")
  /\ UNCHANGED <<role, inv>>

CountOwners(c) ==
  /\ OnMembers(c) /\ rq[c].pc = "count"
  /\ IF Cardinality(Owners) <= 1 THEN Answer(c) ELSE Goto(c, "write")
  /\ UNCHANGED <<role, inv>>

\* The update or delete by id; a row that is gone makes it throw.
WriteMember(c) ==
  /\ OnMembers(c) /\ rq[c].pc = "write"
  /\ LET p == rq[c].who
         new == IF rq[c].op = "role" THEN rq[c].to ELSE "none" IN
       role' = IF role[p] = "none" THEN role ELSE [role EXCEPT ![p] = new]
  /\ Answer(c)
  /\ UNCHANGED inv

-----------------------------------------------------------------------------
(***************************************************************************)
(* Invitations.                                                            *)
(***************************************************************************)
CheckAccount(c) ==
  /\ At(c, "invite", "read")
  /\ IF role[rq[c].who] # "none" THEN Answer(c) ELSE Goto(c, "pending")
  /\ UNCHANGED <<role, inv>>

CheckPending(c) ==
  /\ At(c, "invite", "pending")
  /\ IF \E i \in Invitations : Pending(i) /\ inv[i].email = rq[c].who
       THEN Answer(c) ELSE Goto(c, "write")
  /\ UNCHANGED <<role, inv>>

\* The row refers to the inviter; without that account the insert is refused.
CreateInvitation(c, i) ==
  /\ At(c, "invite", "write") /\ inv[i] = NoInv
  /\ inv' = IF role[rq[c].by] = "none" THEN inv
            ELSE [inv EXCEPT ![i].email = rq[c].who, ![i].role = rq[c].to]
  /\ Answer(c)
  /\ UNCHANGED role

ReadRevoked(c) ==
  /\ At(c, "revoke", "read")
  /\ LET i == rq[c].inv IN
       IF inv[i].email = None \/ inv[i].accepted \/ inv[i].revoked
         THEN Answer(c) ELSE Goto(c, "write")
  /\ UNCHANGED <<role, inv>>

\* The update does not ask again whether the invitation was accepted meanwhile.
Revoke(c) ==
  /\ At(c, "revoke", "write")
  /\ inv' = [inv EXCEPT ![rq[c].inv].revoked = TRUE]
  /\ Answer(c)
  /\ UNCHANGED role

\* Then the password is hashed, off the event loop.
LookUp(c) ==
  /\ At(c, "accept", "read")
  /\ IF Pending(rq[c].inv) THEN Goto(c, "write") ELSE Answer(c)
  /\ UNCHANGED <<role, inv>>

Join(i) ==
  /\ role' = [role EXCEPT ![inv[i].email] = inv[i].role]
  /\ inv' = [inv EXCEPT ![i].accepted = TRUE]

\* Mutant: the row is claimed whatever became of it since it was looked up.
ClaimBlindly(c) ==
  /\ At(c, "accept", "write")
  /\ LET i == rq[c].inv IN
       IF role[inv[i].email] = "none" THEN Join(i) ELSE UNCHANGED <<role, inv>>
  /\ Answer(c)

\* Mutant: an account that exists is updated, not refused.
ClaimAndUpsert(c) ==
  /\ At(c, "accept", "write")
  /\ LET i == rq[c].inv IN IF Pending(i) THEN Join(i) ELSE UNCHANGED <<role, inv>>
  /\ Answer(c)

\* One transaction: the conditional claim and the account; an account under that
\* address makes it roll back (P2002).
ClaimAndCreate(c) ==
  /\ At(c, "accept", "write")
  /\ LET i == rq[c].inv IN
       IF Pending(i) /\ role[inv[i].email] = "none"
         THEN Join(i) ELSE UNCHANGED <<role, inv>>
  /\ Answer(c)

\* INVITATION_TTL_DAYS pass; a spent invitation stays what it is.
Expire(i) ==
  /\ Pending(i)
  /\ inv' = [inv EXCEPT ![i].expired = TRUE]
  /\ UNCHANGED <<role, rq>>

Step(c) ==
  \/ \E by, p \in People : \/ AskRemove(c, by, p)
                           \/ \E to \in Roles : AskRole(c, by, p, to)
                           \/ \E to \in Roles : AskInvite(c, by, p, to)
  \/ \E by \in People, i \in Invitations : AskRevoke(c, by, i)
  \/ \E i \in Invitations : AskAccept(c, i) \/ CreateInvitation(c, i)
  \/ ReadMember(c) \/ CountOwners(c) \/ WriteMember(c)
  \/ CheckAccount(c) \/ CheckPending(c) \/ ReadRevoked(c) \/ Revoke(c)
  \/ LookUp(c) \/ ClaimAndCreate(c)

Next == (\E c \in Clients : Step(c)) \/ (\E i \in Invitations : Expire(i))

Spec == Init /\ [][Next]_vars

-----------------------------------------------------------------------------
\* While role changes and removals are handled one after the other, the organization
\* keeps an owner, whatever invitations are made and redeemed meanwhile.
SerialKeepsOwner == ~Overlapping => Owners # {}

\* The request that a step finishes by writing to person p.
Writes(c, p) == /\ OnMembers(c) /\ rq[c].pc = "write" /\ rq[c].who = p
                /\ rq'[c] = Idle

\* Roles change and accounts go only by a request of somebody else who still has the
\* rank for it when it is carried out: an owner for a role or for an owner's account,
\* an administrator for anybody else's.
AuthorityRespected ==
  [][~Overlapping =>
       \A p \in People : role[p] # "none" /\ role'[p] # role[p] =>
         \E c \in Clients :
           /\ Writes(c, p) /\ rq[c].by # p
           /\ IF role'[p] # "none" \/ role[p] = "owner"
                THEN role[rq[c].by] = "owner"
                ELSE Rank[role[rq[c].by]] >= Rank["admin"]]_vars

\* An account comes into being only through an invitation to that address that is
\* pending at that very moment, which it uses up, with the role it grants: a link
\* that was used, revoked or has expired while the password was hashed, or that
\* belongs to somebody who was removed since, admits nobody.
JoinOnlyWhilePending ==
  [][\A p \in People : role[p] = "none" /\ role'[p] # "none" =>
       \E i \in Invitations :
         /\ Pending(i) /\ inv'[i].accepted
         /\ inv[i].email = p /\ inv[i].role = role'[p]]_vars

(***************************************************************************)
(* What the repository says of the program and the code does not do.       *)
(***************************************************************************)

\* CHANGELOG: "The organization can never be left without an owner"; members.ts:
\* "Demoting the last owner would leave the org with nobody who can manage roles".
NeverWithoutOwner == Owners # {}
=============================================================================
