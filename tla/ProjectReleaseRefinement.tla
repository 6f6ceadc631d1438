---------------------- MODULE ProjectReleaseRefinement ----------------------
(***************************************************************************)
(* ProjectRelease implements ReleaseLedger: the ledger's phases are read   *)
(* off the status column, its serving set off the containers.              *)
(***************************************************************************)
EXTENDS ProjectRelease

ASSUME RuntimeAssumption == Runtime # {}

PhaseOf(st) == CASE st = "absent"  -> "none"
                 [] st = "pending" -> "waiting"
                 [] st = "success" -> "succeeded"
                 [] st = "failed"  -> "failed"
                 [] OTHER          -> "trying"

Ledger == INSTANCE ReleaseLedger WITH
            phase   <- [r \in Releases |-> PhaseOf(status[r])],
            cur     <- current,
            serving <- {r \in Releases : Serving(r)}

\* Every behaviour of the release machinery without worker crashes or database
\* errors is one of the ledger: outcomes are final, one release is attempted at a
\* time, only a serving release becomes current and service is never interrupted.
ImplementsLedger == Ledger!LedgerSpec
=============================================================================
