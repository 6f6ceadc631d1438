----------------------------- MODULE MCDatastore -----------------------------
(***************************************************************************)
(* Small instances of Datastore: one datastore of either kind and one      *)
(* application that may be bound to it.                                    *)
(***************************************************************************)
EXTENDS Datastore

CONSTANT a1
=============================================================================
