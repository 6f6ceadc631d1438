------------------------------ MODULE MCProject ------------------------------
(***************************************************************************)
(* A project in two views: its releases, whose services stay the same, and *)
(* the editing and deletion of the services, beside one job at a time.     *)
(* The views share no state; a behaviour follows one of them and leaves    *)
(* the other alone.                                                        *)
(***************************************************************************)
EXTENDS MCProjectRelease

CONSTANTS Admin, MaxAsked, MaxRefused   \* of Projects

\* A project has finitely many services; the actors are told apart.
ASSUME ServicesAssumption ==
  /\ IsFiniteSet(Services) /\ Admin \notin Services
  /\ None \notin Services \cup {Admin} /\ MaxAsked \in Nat

VARIABLES part, project, deps, asks, editor, release, releaseJob, ctrs, network, history

P == INSTANCE Projects WITH req <- asks, job <- releaseJob

editVars == <<project, deps, asks, editor, release, releaseJob, ctrs, network, history>>

\* The view a behaviour does not follow stays in its initial state, or has no value.
ProjectInit ==
  /\ part \in {"releases", "editing"}
  /\ Init
  /\ \/ part = "editing" /\ P!Init
     \/ /\ part = "releases"
        /\ project = None /\ deps = None /\ asks = None /\ editor = None /\ release = None
        /\ releaseJob = None /\ ctrs = None /\ network = None /\ history = None

ProjectNext ==
  \/ part = "releases" /\ Next /\ UNCHANGED <<part, editVars>>
  \/ part = "editing" /\ P!Next /\ UNCHANGED <<part, vars>>

\* The fairness of ProjectRelease.
ProjectSpec ==
  /\ ProjectInit /\ [][ProjectNext]_<<part, vars, editVars>>
  /\ WF_vars(part = "releases" /\ WorkerStep) /\ WF_vars(part = "releases" /\ QueueStep)
  /\ \A r \in Releases : /\ WF_vars(part = "releases" /\ CreateRelease(r))
                         /\ WF_vars(part = "releases" /\ EnqueueRelease(r))

-----------------------------------------------------------------------------
\* While no two requests about services overlap, what is stored is a project the schema
\* would accept: no cycle, at most one release service that nothing depends on, and a
\* service left (routes/projects.ts).
SerialKeepsDocument == part = "editing" => P!SerialKeepsDocument

\* A release starts a service only after all that it depends on, in a topology without a
\* cycle - however edits overlapped the release (project-deploy.ts).
OnlyOrderedServicesStart == part = "editing" => P!OnlyOrderedServicesStart

\* A save the editor reports as done, with no other edit in between, left every service
\* depending on what the document said (EditProjectDialog.tsx).
SavedAsAsked == part = "editing" => P!SavedAsAsked

\* Once the job of a deleted project is over none of its containers runs, and there is
\* none but those Docker refused to remove - unless the job made the network again between
\* its removal and that of the row (projects.ts, project-deploy.ts).
DeletedLeavesNoContainer == part = "editing" => P!DeletedLeavesNoContainer
=============================================================================
