-------------------------- MODULE MCProjectRelease --------------------------
(***************************************************************************)
(* Small instances of ProjectRelease: one HTTP service that needs a        *)
(* healthy worker, and a release job sharing the worker's image.           *)
(***************************************************************************)
EXTENDS ProjectReleaseRefinement, TLC

CONSTANTS web, bg, job, r1, r2, r3, d1

MCServices == {web, bg, job}
MCKind == web :> "http" @@ bg :> "worker" @@ job :> "release"
MCBuildKey == web :> "front" @@ bg :> "back" @@ job :> "back"
MCHealthyDeps == web :> {bg} @@ bg :> {} @@ job :> {}
MCStartedDeps == web :> {} @@ bg :> {} @@ job :> {}

\* Two HTTP services, no release job: promotions that overlap and half succeed.
TwoHttpServices == {web, bg}
TwoHttpKind == web :> "http" @@ bg :> "http"
TwoHttpBuildKey == web :> "front" @@ bg :> "back"
TwoHttpHealthyDeps == web :> {} @@ bg :> {}
TwoHttpStartedDeps == web :> {bg} @@ bg :> {}

\* Release ids are interchangeable in the runs that check no liveness.
ReleaseSymmetry == Permutations(Releases)
=============================================================================
