----------------------------- MODULE MCMembers -----------------------------
(***************************************************************************)
(* Small instances of Members: the founder and one or two people invited,  *)
(* two requests in hand at once.                                           *)
(***************************************************************************)
EXTENDS Members, TLC

CONSTANTS founder, guest1, guest2, i1, i2, c1, c2

\* Which of the requests in hand, of the rows and of the invited people is which does
\* not matter.
MemberSymmetry == Permutations(Clients) \cup Permutations(Invitations)
                    \cup Permutations(People \ {Founder})
=============================================================================
