------------------------------ MODULE BuildLog ------------------------------
(***************************************************************************)
(* The stored build log of one deployment: the worker's LogSink, the       *)
(* database writes its timer starts without waiting for them, and a viewer *)
(* who gets the stored copy replayed before the live lines.                *)
(*                                                                         *)
(* Sources: apps/worker/src/build-log.ts and its uses in index.ts and      *)
(* project-deploy.ts; GET /api/deployments/:id/logs in                     *)
(* apps/api/src/routes/applications.ts.  Every line counts as one unit of  *)
(* the byte budgets.                                                       *)
(***************************************************************************)
EXTENDS Naturals, Sequences

CONSTANTS
  HeadCap,     \* BUILD_LOG_HEAD_BYTES, at least one line
  TailCap,     \* BUILD_LOG_TAIL_BYTES, at least one line
  Notice,      \* BUILD_LOG_TRUNCATION_NOTICE; not a line
  MaxLines,    \* bound on the lines of an attempt
  MaxAttempts, \* bound on the attempts: runs of the job, by crashes of the worker
  MaxFaults    \* bound on the writes the database rejects

VARIABLES
  attempt, n,  \* the run of the job, the lines it has logged so far
  phase,       \* of the run (see Phases)
  sink,        \* the fields of LogSink
  writes,      \* writes under way, in the order they were issued
  stored,      \* the build_logs column
  viewer,      \* a client of the SSE route and what it was sent
  ordered,     \* whether the database executes writes in the order they are issued
  faults

vars == <<attempt, n, phase, sink, writes, stored, viewer, ordered, faults>>

Line(a, k) == <<a, k>>
Lines(a, first, last) == [i \in 1..(last - first + 1) |-> Line(a, first + i - 1)]
LastOf(s, k) == IF Len(s) <= k THEN s ELSE SubSeq(s, Len(s) - k + 1, Len(s))
Elements(s) == {s[i] : i \in 1..Len(s)}

\* timer: a flush is due; limited: the last rewrite is less than
\* BUILD_LOG_TAIL_FLUSH_MS ago.
NewSink == [pending |-> <<>>, head |-> <<>>, unwritten |-> <<>>, headFull |-> FALSE,
            tail |-> <<>>, tailDirty |-> FALSE, timer |-> FALSE, limited |-> FALSE]
\* caught: the end() of a success rejected and the failure path took over; reporting:
\* that path awaits its own end(); broken: end() failed and nothing more is logged.
Phases == {"begin", "open", "ending", "closed", "caught", "reporting", "broken", "down"}
Texts == Seq((1..MaxAttempts) \X (1..MaxLines))
Stored == Seq(((1..MaxAttempts) \X (1..MaxLines)) \cup {Notice})

TypeOK ==
  /\ attempt \in 1..MaxAttempts /\ n \in 0..MaxLines
  /\ phase \in Phases
  /\ sink \in [pending : Texts, head : Texts, unwritten : Texts, headFull : BOOLEAN,
               tail : Texts, tailDirty : BOOLEAN, timer : BOOLEAN, limited : BOOLEAN]
  /\ Len(sink.head) <= HeadCap /\ Len(sink.tail) <= TailCap
  /\ writes \in Seq([op : {"append", "replace"}, text : Stored, awaited : BOOLEAN])
  /\ stored \in Stored
  /\ viewer \in [pc : {"away", "replayed", "live"}, shown : Stored]
  /\ ordered \in BOOLEAN /\ faults \in Nat

Init ==
  /\ attempt = 1 /\ n = 0 /\ phase = "begin" /\ sink = NewSink
  /\ writes = <<>> /\ stored = <<>>
  /\ viewer = [pc |-> "away", shown |-> <<>>]
  /\ ordered \in BOOLEAN /\ faults = 0

-----------------------------------------------------------------------------
(***************************************************************************)
(* The sink.                                                               *)
(***************************************************************************)

\* The update that sets the deployment to building clears its log.
ClearLog ==
  /\ phase = "begin"
  /\ stored' = <<>>
  /\ phase' = "open"
  /\ UNCHANGED <<attempt, n, sink, writes, viewer, ordered, faults>>

\* onLog: the line is published and handed to the sink.
LogLine ==
  /\ phase = "open" /\ n < MaxLines
  /\ n' = n + 1
  /\ sink' = [sink EXCEPT !.pending = Append(@, Line(attempt, n + 1)), !.timer = TRUE]
  /\ viewer' = IF viewer.pc = "live"
                 THEN [viewer EXCEPT !.shown = Append(@, Line(attempt, n + 1))] ELSE viewer
  /\ UNCHANGED <<attempt, phase, writes, stored, ordered, faults>>

Room(s) == IF s.headFull THEN 0 ELSE HeadCap - Len(s.head)

FirstOf(s, k) == IF Len(s) <= k THEN s ELSE SubSeq(s, 1, k)

\* absorb(): the head takes what it has room for, the tail keeps the newest rest.
Absorb(s) ==
  LET take == FirstOf(s.pending, Room(s))
      rest == SubSeq(s.pending, Len(take) + 1, Len(s.pending)) IN
    [s EXCEPT !.pending = <<>>, !.head = @ \o take, !.unwritten = @ \o take,
               !.headFull = @ \/ rest # <<>>,
               !.tail = LastOf(@ \o rest, TailCap),
               !.tailDirty = @ \/ rest # <<>>]

Write(op, text, awaited) ==
  writes' = Append(writes, [op |-> op, text |-> text, awaited |-> awaited])

\* unwritten is emptied before the write is awaited, so no flush sends it twice.
AppendHead(s, final) ==
  /\ sink' = [s EXCEPT !.unwritten = <<>>, !.timer = FALSE]
  /\ Write("append", s.unwritten, final)

RewriteAll(s, final) ==
  /\ sink' = [s EXCEPT !.unwritten = <<>>, !.tailDirty = FALSE, !.limited = TRUE,
                       !.timer = FALSE]
  /\ Write("replace", s.head \o <<Notice>> \o s.tail, final)

\* Mutant: the last flush is put off like the others.
DueAlways(s, final) ==
  IF ~s.headFull THEN s.unwritten # <<>>
  ELSE (s.tailDirty \/ s.unwritten # <<>>) /\ ~s.limited

\* Mutant: single lines wait for company.
DueInBatches(s, final) ==
  IF ~s.headFull THEN Len(s.unwritten) > (IF final THEN 0 ELSE 1)
  ELSE (s.tailDirty \/ s.unwritten # <<>>) /\ (final \/ ~s.limited)

\* Is there something to write, and may it be written now?
Due(s, final) ==
  IF ~s.headFull THEN s.unwritten # <<>>
  ELSE (s.tailDirty \/ s.unwritten # <<>>) /\ (final \/ ~s.limited)

Send(s, final) == IF s.headFull THEN RewriteAll(s, final) ELSE AppendHead(s, final)

\* A flush of what has been logged so far.
Flush(final) ==
  LET s == Absorb(sink) IN
    IF Due(s, final) THEN Send(s, final)
    ELSE sink' = [s EXCEPT !.timer = FALSE] /\ UNCHANGED writes

\* BUILD_LOG_FLUSH_MS after a line; nobody awaits this flush.
TimerFires ==
  /\ phase = "open" /\ sink.timer
  /\ Flush(FALSE)
  /\ UNCHANGED <<attempt, n, phase, stored, viewer, ordered, faults>>

\* end(): clears the timer, awaits a flush of its own and no other.
End ==
  /\ phase = "open"
  /\ Flush(TRUE)
  /\ phase' = IF Due(Absorb(sink), TRUE) THEN "ending" ELSE "closed"
  /\ UNCHANGED <<attempt, n, stored, viewer, ordered, faults>>

\* The failure path adds the error and ends the log once more.  What the rejected
\* write held is not sent again, so the log counts as broken from here on.
ReportFailure ==
  /\ phase = "caught" /\ n < MaxLines
  /\ n' = n + 1 /\ phase' = "reporting"
  /\ LET s == [sink EXCEPT !.pending = Append(@, Line(attempt, n + 1))] IN
       Send(Absorb(s), TRUE)
  /\ viewer' = IF viewer.pc = "live"
                 THEN [viewer EXCEPT !.shown = Append(@, Line(attempt, n + 1))] ELSE viewer
  /\ UNCHANGED <<attempt, stored, ordered, faults>>

LimitPasses ==
  /\ sink.limited
  /\ sink' = [sink EXCEPT !.limited = FALSE]
  /\ UNCHANGED <<attempt, n, phase, writes, stored, viewer, ordered, faults>>

-----------------------------------------------------------------------------
(***************************************************************************)
(* The database and the worker's process.                                  *)
(***************************************************************************)
Without(i) == [j \in 1..(Len(writes) - 1) |-> IF j < i THEN writes[j] ELSE writes[j + 1]]

CompleteWrite(i) ==
  /\ i \in 1..Len(writes) /\ (ordered => i = 1)
  /\ stored' = IF writes[i].op = "append" THEN stored \o writes[i].text ELSE writes[i].text
  /\ writes' = Without(i)
  /\ phase' = IF ~writes[i].awaited THEN phase
               ELSE IF phase = "ending" THEN "closed"
               ELSE IF phase = "reporting" THEN "broken" ELSE phase
  /\ UNCHANGED <<attempt, n, sink, viewer, ordered, faults>>

\* A rejection of the write end() awaits fails the job, by way of the failure path if
\* it was the end() of a success; any other is a rejection nobody handles, and ends
\* the process.
RejectWrite(i) ==
  /\ i \in 1..Len(writes) /\ phase # "down" /\ faults < MaxFaults
  /\ faults' = faults + 1
  /\ writes' = Without(i)
  /\ IF writes[i].awaited
       THEN /\ phase' \in IF phase = "ending" THEN {"caught", "broken"} ELSE {"broken"}
            /\ UNCHANGED sink
       ELSE phase' = "down" /\ sink' = NewSink
  /\ UNCHANGED <<attempt, n, stored, viewer, ordered>>

WorkerCrash ==
  /\ phase \notin {"closed", "broken", "down"} /\ attempt < MaxAttempts
  /\ phase' = "down" /\ sink' = NewSink
  /\ UNCHANGED <<attempt, n, writes, stored, viewer, ordered, faults>>

\* What the process had sent may or may not have reached the database.
LoseWrite(i) ==
  /\ phase = "down" /\ i \in 1..Len(writes)
  /\ writes' = Without(i)
  /\ UNCHANGED <<attempt, n, phase, sink, stored, viewer, ordered, faults>>

\* BullMQ runs the stalled job again; by then the old connections are gone.
RunAgain ==
  /\ phase = "down" /\ writes = <<>> /\ attempt < MaxAttempts
  /\ attempt' = attempt + 1 /\ n' = 0 /\ phase' = "begin"
  /\ UNCHANGED <<sink, writes, stored, viewer, ordered, faults>>

-----------------------------------------------------------------------------
(***************************************************************************)
(* The viewer.                                                             *)
(***************************************************************************)

\* The row is read and replayed ...
Replay ==
  /\ viewer.pc = "away"
  /\ viewer' = [pc |-> "replayed", shown |-> stored]
  /\ UNCHANGED <<attempt, n, phase, sink, writes, stored, ordered, faults>>

\* ... and only then the live channel is subscribed to.
Subscribe ==
  /\ viewer.pc = "replayed"
  /\ viewer' = [viewer EXCEPT !.pc = "live"]
  /\ UNCHANGED <<attempt, n, phase, sink, writes, stored, ordered, faults>>

Hangup ==
  /\ viewer.pc # "away"
  /\ viewer' = [pc |-> "away", shown |-> <<>>]
  /\ UNCHANGED <<attempt, n, phase, sink, writes, stored, ordered, faults>>

WriteStep == \E i \in 1..Len(writes) : CompleteWrite(i)

Next ==
  \/ ClearLog \/ LogLine \/ TimerFires \/ End \/ ReportFailure \/ LimitPasses
  \/ WriteStep \/ (\E i \in 1..Len(writes) : RejectWrite(i) \/ LoseWrite(i))
  \/ WorkerCrash \/ RunAgain
  \/ Replay \/ Subscribe \/ Hangup

Spec == Init /\ [][Next]_vars

\* Timers fire and writes are answered.
FairSpec == Spec /\ WF_vars(TimerFires) /\ WF_vars(WriteStep)

-----------------------------------------------------------------------------
\* What is kept of a run of k lines: all of it, or its beginning, the notice and its
\* most recent lines.
Kept(a, k) ==
  IF k <= HeadCap THEN Lines(a, 1, k)
  ELSE Lines(a, 1, HeadCap) \o <<Notice>>
         \o LastOf(Lines(a, HeadCap + 1, k), TailCap)

\* When end() has returned and no write is under way, the stored log is complete: up
\* to the size limit every line, in order; beyond it the beginning and the most recent
\* lines.  (Where the database executes the writes in their order.)
StoredIsComplete ==
  ordered /\ phase = "closed" /\ writes = <<>> => stored = Kept(attempt, n)

\* However the writes overtake each other, a log within the limit loses no line and
\* gets none twice.
NothingLostOrDoubled ==
  phase = "closed" /\ writes = <<>> /\ n <= HeadCap =>
    Len(stored) = n /\ Elements(stored) = Elements(Lines(attempt, 1, n))

\* What a reader finds at any moment of a run is the log as it was after some number
\* of its lines, never a mixture with an earlier run, and never beyond the limit.
StoredIsASnapshot ==
  ordered /\ phase \in {"open", "ending", "closed"}
    => \E k \in 0..n : stored = Kept(attempt, k)

Before(x, y) == x[1] < y[1] \/ (x[1] = y[1] /\ x[2] < y[2])

\* A viewer is shown no line twice and none after a later one, across the change from
\* the replayed copy to the live lines and across re-runs of the job.
ViewerInOrder ==
  ordered =>
    \A i, j \in 1..Len(viewer.shown) :
      i < j /\ viewer.shown[i] # Notice /\ viewer.shown[j] # Notice
        => Before(viewer.shown[i], viewer.shown[j])

\* recentLines(): what a failure is diagnosed from.
Seen == sink.head \o sink.tail \o sink.pending

\* The diagnosis of a failure reads the very last lines, even when they have not been
\* flushed and even when the middle of the log was dropped.
DiagnosisSeesTheEnd ==
  phase \in {"open", "caught"} =>
    LastOf(Seen, TailCap) = LastOf(Lines(attempt, 1, n), TailCap)

\* Lines within the limit reach the database although the build goes on and nobody
\* calls end(), unless the worker dies or the database rejects the last write.
LinesGetStored ==
  \A k \in 1..HeadCap :
    n >= k
      ~> Line(attempt, k) \in Elements(stored) 
          \/ phase \in {"down", "caught", "reporting", "broken"}
=============================================================================
