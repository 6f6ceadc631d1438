----------------------------- MODULE MCStorage -----------------------------
(***************************************************************************)
(* The worker's subsystems with a queue of their own: a managed datastore, *)
(* and the scheduled backups.  They share no state; a behaviour follows one*)
(* of them and leaves the other alone.                                     *)
(***************************************************************************)
EXTENDS MCDatastore

CONSTANTS
  None, Schedules, Destinations,      \* of Backups
  Periods, Retentions, MaxTime, MaxEdits, MaxBackupFaults

VARIABLES part, now, dests, sched, rows, files, jobs, work, hand, history

K == INSTANCE Backups WITH queue <- jobs, MaxFaults <- MaxBackupFaults

\* Expressions are units of time apart, a retention is a number of bundles, and None is no
\* schedule and no destination.
ASSUME BackupsAssumption ==
  /\ Periods \subseteq Nat \ {0} /\ Retentions \subseteq Nat
  /\ None \notin Schedules /\ None \notin Destinations

backupVars == <<now, dests, sched, rows, files, jobs, work, hand, history>>

\* The part a behaviour does not follow stays in an initial state.
StorageInit ==
  /\ part \in {"datastore", "backups"}
  /\ Init /\ K!Init
  /\ part = "datastore" =>
       sched = [s \in Schedules |-> K!NewSchedule(CHOOSE d \in Destinations : TRUE, 1, 1, 1)]
  /\ part = "backups" => kind = "postgres"

StorageNext ==
  \/ part = "datastore" /\ Next /\ UNCHANGED <<part, backupVars>>
  \/ part = "backups" /\ K!Next /\ UNCHANGED <<part, vars>>

\* The fairness of Datastore and of Backups.
StorageSpec ==
  /\ StorageInit /\ [][StorageNext]_<<part, vars, backupVars>>
  /\ WF_vars(part = "datastore" /\ WorkerStep) /\ WF_vars(part = "datastore" /\ RequeueStalled)
  /\ \A x \in Routes : WF_vars(part = "datastore" /\ AddJob(x))
  /\ WF_backupVars(part = "backups" /\ K!ScheduleTick)
  /\ WF_backupVars(part = "backups" /\ K!Work)

-----------------------------------------------------------------------------
\* Whatever was deleted, refused or interrupted, the newest bundle the history calls
\* ready for a schedule, and every one exported by hand to a destination it still names, is
\* stored (backups/export.ts); a download has a ready row too, and is stored nowhere.
NewestIsStored == K!NewestIsStored

\* While the worker does not die, no occurrence of a schedule is exported twice, nor waits
\* for an export twice or after one, however long an export of it waits (worker/backups.ts).
OccurrenceExportedOnce == K!OccurrenceExportedOnce

\* A due schedule nobody edits is run, and the history gets an entry for its newest run, as
\* long as no call fails and the worker does not die (worker/backups.ts).
DueIsRecorded == K!DueIsRecorded
=============================================================================
