--------------------------- MODULE MCOrganization ---------------------------
(***************************************************************************)
(* What owners and administrators change in one organization at the same   *)
(* time: its members and invitations, and its connection to GitHub with    *)
(* the deployments pushes lead to.  The two share no state; a behaviour    *)
(* follows one of them and leaves the other alone.                         *)
(***************************************************************************)
EXTENDS MCMembers, GitHub

VARIABLE part

\* The part a behaviour does not follow stays in its initial state.
OrganizationInit == part \in {"members", "github"} /\ Init /\ GitHubInit

OrganizationNext ==
  \/ part = "members" /\ Next /\ UNCHANGED <<part, gitVars>>
  \/ part = "github" /\ GitHubNext /\ UNCHANGED <<part, vars>>

OrganizationSpec == OrganizationInit /\ [][OrganizationNext]_<<part, vars, gitVars>>
=============================================================================
