---------------------------- MODULE MCAppDeploy ----------------------------
(***************************************************************************)
(* Small instances of AppDeploy: two or three deployments of one           *)
(* application.                                                            *)
(***************************************************************************)
EXTENDS AppDeploy, TLC

CONSTANTS d1, d2, d3

\* Deployment ids are interchangeable in the runs that check no liveness.
DeploymentSymmetry == Permutations(Deployments)
=============================================================================
