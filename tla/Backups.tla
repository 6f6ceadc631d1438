------------------------------ MODULE Backups ------------------------------
(***************************************************************************)
(* Backup schedules: the worker's tick that finds the due ones and queues  *)
(* an export for each, the export that writes a bundle, records it and     *)
(* prunes the older ones, and the administrators who edit schedules and    *)
(* destinations and export by hand meanwhile.                              *)
(*                                                                         *)
(* Source: apps/worker/src/backups.ts, packages/backups/src/export.ts,     *)
(* apps/api/src/routes/backups.ts.                                         *)
(***************************************************************************)
EXTENDS Naturals, Sequences, FiniteSets

CONSTANTS
  Schedules,
  Destinations,
  Periods,     \* cron expressions, by how many units apart they fall due, at least 1
  Retentions,  \* 0: keep everything
  None,        \* neither a schedule nor a destination
  MaxTime,     \* bound on the clock
  MaxEdits,    \* bound on the requests of administrators
  MaxFaults    \* bound on crashes, refused calls and failed writes

VARIABLES
  now,
  dests,    \* backup_destinations rows
  sched,    \* backup_schedules row of each schedule, or None
  rows,     \* bundles rows
  files,    \* the bundles that are stored
  queue,    \* the backup queue: ticks and exports
  work,     \* the job the worker runs; its concurrency is one
  hand,     \* an export by hand
  history   \* ghosts: bundles made, edits, faults, crashes, edited schedules

vars == <<now, dests, sched, rows, files, queue, work, hand, history>>

Tick == [kind |-> "tick", s |-> None, slot |-> 0, rerun |-> FALSE]
Idle == [pc |-> "idle", job |-> Tick, todo |-> {}, keep |-> 0, dest |-> None, id |-> 0]

NewSchedule(d, p, k, t) ==
  [dest |-> d, period |-> p, keep |-> k, enabled |-> TRUE, base |-> t]

Row(id, s, d, status, slot) ==
  [id |-> id, s |-> s, dest |-> d, status |-> status, slot |-> slot]

\* The first occurrence after the last run, or after the creation, has passed.
Due(s) == /\ sched[s] # None /\ sched[s].enabled
          /\ (sched[s].base \div sched[s].period + 1) * sched[s].period <= now

Faulty(n) == history.faults + n <= MaxFaults
Faults == history' = [history EXCEPT !.faults = @ + 1]

-----------------------------------------------------------------------------
Init ==
  /\ now = 1
  /\ dests = Destinations
  /\ sched \in [Schedules -> {NewSchedule(d, p, k, 1) :
                   d \in Destinations, p \in Periods, k \in Retentions \ {0}}]
  /\ rows = {} /\ files = {}
  /\ queue = <<Tick>> /\ work = Idle
  /\ hand = [pc |-> "idle", dest |-> None, id |-> 0]
  /\ history = [made |-> 0, edits |-> 0, faults |-> 0, crashed |-> FALSE, edited |-> {}]

\* Rows name destinations that exist and at most one bundle each, jobs an occurrence that
\* has passed.
TypeOK ==
  /\ now \in 1..MaxTime /\ dests \subseteq Destinations
  /\ \A s \in Schedules : sched[s] # None =>
       sched[s] \in [dest : dests, period : Periods, keep : Retentions,
                     enabled : BOOLEAN, base : 1..now]
  /\ rows \subseteq [id : 1..history.made, s : Schedules \cup {None},
                     dest : Destinations \cup {None}, status : {"ready", "failed"}, slot : 0..now]
  /\ \A q, r \in rows : q.id = r.id => q = r
  /\ files \subseteq 1..history.made
  /\ \A j \in {work.job} \cup {queue[i] : i \in DOMAIN queue} :
       j \in [kind : {"tick", "export"}, s : Schedules \cup {None},
              slot : 0..now, rerun : BOOLEAN]
  /\ hand.pc \in {"idle", "write", "record"} /\ hand.id \in 0..history.made

TimePasses ==
  /\ now < MaxTime
  /\ now' = now + 1
  /\ UNCHANGED <<dests, sched, rows, files, queue, work, hand, history>>

\* The repeatable tick: one is waiting at any time.
ScheduleTick ==
  /\ \A i \in DOMAIN queue : queue[i].kind # "tick"
  /\ work.pc = "idle" \/ work.job.kind # "tick"
  /\ queue' = Append(queue, Tick)
  /\ UNCHANGED <<now, dests, sched, rows, files, work, hand, history>>

-----------------------------------------------------------------------------
(***************************************************************************)
(* The tick.                                                               *)
(***************************************************************************)
TakeTick ==
  /\ work.pc = "idle" /\ queue # <<>> /\ Head(queue).kind = "tick"
  /\ queue' = Tail(queue)
  /\ work' = [Idle EXCEPT !.pc = "scan", !.job = Head(queue),
                          !.todo = {s \in Schedules : Due(s)}, !.keep = now]
  /\ UNCHANGED <<now, dests, sched, rows, files, hand, history>>

\* Mutant: the run is only recorded by the export.
AdvanceLater ==
  /\ work.pc = "scan" /\ work.todo # {}
  /\ \E s \in work.todo :
       work' = [work EXCEPT !.pc = "add", !.todo = @ \ {s}, !.job.s = s,
                            !.job.slot = work.keep]
  /\ UNCHANGED <<now, dests, sched, rows, files, queue, hand, history>>

\* A schedule deleted since ends the tick: its update finds no row.
Advance ==
  /\ work.pc = "scan" /\ work.todo # {}
  /\ \E s \in work.todo :
       IF sched[s] = None
       THEN work' = Idle /\ UNCHANGED sched
       ELSE /\ sched' = [sched EXCEPT ![s].base = work.keep]
            /\ work' = [work EXCEPT !.pc = "add", !.todo = @ \ {s},
                                    !.job.s = s, !.job.slot = work.keep]
  /\ UNCHANGED <<now, dests, rows, files, queue, hand, history>>

\* Mutant: one job id for all schedules, so that a waiting export swallows the next.
EnqueueOneId ==
  /\ work.pc = "add"
  /\ queue' = IF \E i \in DOMAIN queue : queue[i].kind = "export" THEN queue
              ELSE Append(queue, [Tick EXCEPT !.kind = "export", !.s = work.job.s,
                                              !.slot = work.job.slot])
  /\ work' = [work EXCEPT !.pc = "scan"]
  /\ UNCHANGED <<now, dests, sched, rows, files, hand, history>>

Enqueue ==
  /\ work.pc = "add"
  /\ queue' = Append(queue, [Tick EXCEPT !.kind = "export", !.s = work.job.s,
                                         !.slot = work.job.slot])
  /\ work' = [work EXCEPT !.pc = "scan"]
  /\ UNCHANGED <<now, dests, sched, rows, files, hand, history>>

\* The queue refuses: the occurrence is lost, the rest waits for the next tick.
EnqueueRefused ==
  /\ work.pc = "add" /\ Faulty(1) /\ Faults
  /\ work' = Idle
  /\ UNCHANGED <<now, dests, sched, rows, files, queue, hand>>

TickDone ==
  /\ work.pc = "scan" /\ work.todo = {}
  /\ work' = Idle
  /\ UNCHANGED <<now, dests, sched, rows, files, queue, hand, history>>

-----------------------------------------------------------------------------
(***************************************************************************)
(* runScheduledExport.                                                     *)
(***************************************************************************)
TakeExport ==
  /\ work.pc = "idle" /\ queue # <<>> /\ Head(queue).kind = "export"
  /\ queue' = Tail(queue)
  /\ LET job == Head(queue) IN
       work' = IF sched[job.s] = None THEN Idle
               ELSE [Idle EXCEPT !.pc = "write", !.job = job, !.id = history.made + 1,
                                 !.keep = sched[job.s].keep, !.dest = sched[job.s].dest]
  /\ history' = [history EXCEPT !.made = @ + 1]
  /\ UNCHANGED <<now, dests, sched, rows, files, hand>>

\* The foreign keys of a bundles row.
CanRecord == sched[work.job.s] # None /\ work.dest \in dests

WriteBundle ==
  /\ work.pc = "write"
  /\ files' = files \cup {work.id}
  /\ work' = [work EXCEPT !.pc = "record"]
  /\ UNCHANGED <<now, dests, sched, rows, queue, hand, history>>

\* A failed row, if it can still be stored; part of a file may be left and is not modelled.
WriteFails ==
  /\ work.pc = "write" /\ Faulty(1) /\ Faults
  /\ rows' = IF CanRecord
             THEN rows \cup {Row(work.id, work.job.s, work.dest, "failed", work.job.slot)}
             ELSE rows
  /\ work' = Idle
  /\ UNCHANGED <<now, dests, sched, files, queue, hand>>

Record ==
  /\ work.pc = "record"
  /\ IF CanRecord
     THEN /\ rows' = rows \cup {Row(work.id, work.job.s, work.dest, "ready", work.job.slot)}
          /\ work' = [work EXCEPT !.pc = IF work.keep = 0 THEN "done" ELSE "list"]
     ELSE work' = Idle /\ UNCHANGED rows
  /\ UNCHANGED <<now, dests, sched, files, queue, hand, history>>

Ready(s) == {r \in rows : r.s = s /\ r.status = "ready"}
Newer(r, S) == {q \in S : q.id > r.id}

\* Mutant: oldest first, as the order of the query decides what is kept.
ExcessOldest(s, keep) ==
  {r \in Ready(s) : Cardinality({q \in Ready(s) : q.id < r.id}) >= keep}

\* All but the newest retentionCount, by creation.
Excess(s, keep) == {r \in Ready(s) : Cardinality(Newer(r, Ready(s))) >= keep}

ListExcess ==
  /\ work.pc = "list"
  /\ work' = [work EXCEPT !.pc = "file", !.todo = Excess(work.job.s, work.keep)]
  /\ UNCHANGED <<now, dests, sched, rows, files, queue, hand, history>>

\* Newest first; the row goes whether the file could be deleted or not.
NextExcess == CHOOSE r \in work.todo : Newer(r, work.todo) = {}

DeleteFile ==
  /\ work.pc = "file" /\ work.todo # {}
  /\ \/ files' = files \ {NextExcess.id} /\ UNCHANGED history
     \/ Faulty(1) /\ Faults /\ UNCHANGED files
  /\ work' = [work EXCEPT !.pc = "row"]
  /\ UNCHANGED <<now, dests, sched, rows, queue, hand>>

DeleteRow ==
  /\ work.pc = "row"
  /\ rows' = {r \in rows : r.id # NextExcess.id}
  /\ work' = [work EXCEPT !.pc = "file", !.todo = @ \ {NextExcess}]
  /\ UNCHANGED <<now, dests, sched, files, queue, hand, history>>

ExportDone ==
  /\ work.pc = "done" \/ (work.pc = "file" /\ work.todo = {})
  /\ work' = Idle
  /\ UNCHANGED <<now, dests, sched, rows, files, queue, hand, history>>

\* The job stalls and runs again, once.
Crash ==
  /\ work.pc # "idle" /\ Faulty(1)
  /\ history' = [history EXCEPT !.faults = @ + 1, !.crashed = TRUE]
  /\ work' = Idle
  /\ queue' = IF work.job.rerun THEN queue
              ELSE LET job == IF work.job.kind = "tick" THEN Tick ELSE work.job
                   IN  <<[job EXCEPT !.rerun = TRUE]>> \o queue
  /\ UNCHANGED <<now, dests, sched, rows, files, hand>>

-----------------------------------------------------------------------------
(***************************************************************************)
(* The API.                                                                *)
(***************************************************************************)
Edit(S) == /\ history.edits < MaxEdits
           /\ history' = [history EXCEPT !.edits = @ + 1, !.edited = @ \cup S]

CreateSchedule(s, d, p, k) ==
  /\ sched[s] = None /\ d \in dests /\ Edit({s})
  /\ sched' = [sched EXCEPT ![s] = NewSchedule(d, p, k, now)]
  /\ UNCHANGED <<now, dests, rows, files, queue, work, hand>>

UpdateSchedule(s, p, k, on) ==
  /\ sched[s] # None /\ Edit({s})
  /\ sched' = [sched EXCEPT ![s].period = p, ![s].keep = k, ![s].enabled = on]
  /\ UNCHANGED <<now, dests, rows, files, queue, work, hand>>

\* The history keeps the bundles.
DeleteSchedule(s) ==
  /\ sched[s] # None /\ Edit({s})
  /\ sched' = [sched EXCEPT ![s] = None]
  /\ rows' = {IF r.s = s THEN [r EXCEPT !.s = None] ELSE r : r \in rows}
  /\ UNCHANGED <<now, dests, files, queue, work, hand>>

\* Its schedules go with it.
DeleteDestination(d) ==
  /\ d \in dests
  /\ LET gone == {s \in Schedules : sched[s] # None /\ sched[s].dest = d} IN
       /\ Edit(gone)
       /\ sched' = [s \in Schedules |-> IF s \in gone THEN None ELSE sched[s]]
       /\ rows' = {[r EXCEPT !.s = IF r.s \in gone THEN None ELSE r.s,
                             !.dest = IF r.dest = d THEN None ELSE r.dest] : r \in rows}
  /\ dests' = dests \ {d}
  /\ UNCHANGED <<now, files, queue, work, hand>>

\* POST /api/backups/export to a destination.
ExportByHand(d) ==
  /\ hand.pc = "idle" /\ d \in dests /\ Edit({})
  /\ hand' = [pc |-> "write", dest |-> d, id |-> 0]
  /\ UNCHANGED <<now, dests, sched, rows, files, queue, work>>

WriteByHand ==
  /\ hand.pc = "write"
  /\ history' = [history EXCEPT !.made = @ + 1]
  /\ files' = files \cup {history.made + 1}
  /\ hand' = [hand EXCEPT !.pc = "record", !.id = history.made + 1]
  /\ UNCHANGED <<now, dests, sched, rows, queue, work>>

RecordByHand ==
  /\ hand.pc = "record"
  /\ rows' = IF hand.dest \in dests
             THEN rows \cup {Row(hand.id, None, hand.dest, "ready", 0)} ELSE rows
  /\ hand' = [hand EXCEPT !.pc = "idle"]
  /\ UNCHANGED <<now, dests, sched, files, queue, work, history>>

\* Without a destination the bundle is the answer: its row is ready, and nothing is stored.
Download ==
  /\ history.edits < MaxEdits
  /\ history' = [history EXCEPT !.edits = @ + 1, !.made = @ + 1]
  /\ rows' = rows \cup {Row(history.made + 1, None, None, "ready", 0)}
  /\ UNCHANGED <<now, dests, sched, files, queue, work, hand>>

-----------------------------------------------------------------------------
Work ==
  \/ TakeTick \/ Advance \/ Enqueue \/ TickDone
  \/ TakeExport \/ WriteBundle \/ Record \/ ListExcess \/ DeleteFile \/ DeleteRow
  \/ ExportDone

Next ==
  \/ TimePasses \/ ScheduleTick \/ Work
  \/ EnqueueRefused \/ WriteFails \/ Crash
  \/ \E s \in Schedules, p \in Periods, k \in Retentions :
       \/ \E d \in Destinations : CreateSchedule(s, d, p, k)
       \/ \E on \in BOOLEAN : UpdateSchedule(s, p, k, on)
  \/ \E s \in Schedules : DeleteSchedule(s)
  \/ \E d \in Destinations : DeleteDestination(d) \/ ExportByHand(d)
  \/ WriteByHand \/ RecordByHand \/ Download

\* The queue's scheduler and the worker keep running.
Spec == Init /\ [][Next]_vars /\ WF_vars(ScheduleTick) /\ WF_vars(Work)

-----------------------------------------------------------------------------
(***************************************************************************)
(* Properties.                                                             *)
(***************************************************************************)
\* Whatever was deleted, refused or interrupted, the newest bundle the history calls
\* ready for a schedule, and every one exported by hand to a destination it still names, is
\* stored: a download has a ready row, without a destination, and is stored nowhere.
NewestIsStored ==
  \A r \in rows : r.status = "ready" /\ r.dest # None /\ (r.s = None => r.slot = 0)
                    /\ (r.s # None => Newer(r, Ready(r.s)) = {}) => r.id \in files

\* While the worker does not die, no occurrence of a schedule is exported twice, nor waits
\* for an export twice or after one, however long an export of it waits.
OccurrenceExportedOnce ==
  LET jobs(s) == {i \in DOMAIN queue : queue[i].kind = "export" /\ queue[i].s = s}
      occurrence(s, slot) == slot \div sched[s].period
  IN  ~history.crashed =>
        \A s \in Schedules \ history.edited :
          /\ \A r, q \in rows : r.s = s /\ q.s = s /\ r # q =>
               occurrence(s, r.slot) # occurrence(s, q.slot)
          /\ \A r \in rows, i \in jobs(s) : r.s = s =>
               occurrence(s, r.slot) # occurrence(s, queue[i].slot)
          /\ \A i, j \in jobs(s) : i < j =>
               occurrence(s, queue[i].slot) # occurrence(s, queue[j].slot)

\* A due schedule nobody edits is run, and the history gets an entry for its newest run, as
\* long as no call fails and the worker does not die.
DueIsRecorded ==
  []<>(\A s \in Schedules :
         \/ history.faults > 0 \/ s \in history.edited
         \/ /\ ~Due(s)
            /\ sched[s].base > 1 => \E r \in rows : r.s = s /\ r.slot = sched[s].base)
=============================================================================
