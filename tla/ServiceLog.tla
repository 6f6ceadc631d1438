----------------------------- MODULE ServiceLog -----------------------------
(***************************************************************************)
(* Output of a project's services: the worker follows every container,     *)
(* stores each line before it publishes it, removes all but the newest     *)
(* lines of the project now and then, and starts over from what is stored  *)
(* when it is restarted; a page loads the newest lines and then follows a  *)
(* stream that it reconnects from the last line it has seen.               *)
(*                                                                         *)
(* Source: apps/worker/src/service-logs.ts, project-deploy.ts (persist,    *)
(* publish, recover), apps/api/src/routes/projects.ts (log-history, logs)  *)
(* and the dashboard's ProjectLogs.tsx.                                    *)
(***************************************************************************)
EXTENDS Naturals, FiniteSets, FiniteSetsExt, SequencesExt

CONSTANTS
  Sources,        \* containers of the project, each in a service of its own
  LinesPerSecond, \* line k of a container carries the time (k - 1) \div LinesPerSecond
  HistoryLimit, ReplayLimit,  \* rows of one page, rows of one replay
  MaxPersisted,   \* rows of the project that a removal leaves
  Absent,
  MaxPrinted, MaxLogFaults  \* bounds: lines of all, crashes, errors and disconnects

VARIABLES
  printed,  \* lines each container has printed; Docker retains them
  tail,     \* what the worker's tail of each container reads next, 0 without a tail
  chain,    \* lines read and not stored yet
  storing,  \* the line being stored, and its row once there is one
  stage,    \* what its persist awaits: the insert, the removal of old rows, its publication
  table,    \* service_logs
  serial,   \* ids drawn from the sequence of the table
  channel,  \* published rows on their way to the stream's handler
  stream,   \* the handler of the page's stream
  page,     \* rows the page shows, and its cursor
  slog      \* ghosts and bounds

logVars == <<printed, tail, chain, storing, stage, table, serial, channel, stream, page, slog>>

Second(k) == (k - 1) \div LinesPerSecond
Down == 0
NotOpen == [shown |-> {}, cursor |-> 0, open |-> FALSE]
NoStream == [at |-> "off", after |-> 0, kept |-> <<>>, seen |-> {}]

LastOfRows(S) == CHOOSE r \in S : \A q \in S : q.id <= r.id
Newest(S, n) == {r \in S : Cardinality({q \in S : q.id > r.id}) < n}
RowsOf(c) == {r \in table : r.src = c}

\* Every row there ever was: those of the table and those removed from it.
Ever == table \cup slog.pruned
EverOf(c) == {r \in Ever : r.src = c}

\* persist and publish of a line are over.
LineDone(c) ==
  /\ storing' = [storing EXCEPT ![c] = Absent]
  /\ stage' = [stage EXCEPT ![c] = "insert"]
  /\ chain' = [chain EXCEPT ![c] = Tail(@)]

-----------------------------------------------------------------------------
(***************************************************************************)
(* The worker.                                                             *)
(***************************************************************************)
PrintLine(c) ==
  /\ MapThenSumSet(LAMBDA d : printed[d], Sources) < MaxPrinted
  /\ printed' = [printed EXCEPT ![c] = @ + 1]
  /\ UNCHANGED <<tail, chain, storing, stage, table, serial, channel, stream, page, slog>>

Read(c) ==
  /\ tail[c] # Down /\ tail[c] <= printed[c]
  /\ chain' = [chain EXCEPT ![c] = Append(@, tail[c])]
  /\ tail' = [tail EXCEPT ![c] = @ + 1]
  /\ UNCHANGED <<printed, storing, stage, table, serial, channel, stream, page, slog>>

\* The container stops - its restart policy starts it again - and Docker ends the
\* stream: nothing attaches to it before the worker is started again.
StreamEnds(c) ==
  /\ tail[c] # Down /\ slog.faults < MaxLogFaults
  /\ tail' = [tail EXCEPT ![c] = Down]
  /\ slog' = [slog EXCEPT !.faults = @ + 1]
  /\ UNCHANGED <<printed, chain, storing, stage, table, serial, channel, stream, page>>

\* serviceLog.create draws an id; the unique event key refuses a line that is stored,
\* though not one whose row was removed.
Insert(c) ==
  /\ storing[c] = Absent /\ chain[c] # <<>>
  /\ serial' = serial + 1
  /\ IF \E r \in RowsOf(c) : r.line = Head(chain[c])
       THEN /\ chain' = [chain EXCEPT ![c] = Tail(@)]
            /\ UNCHANGED <<storing, slog>>
       ELSE /\ storing' = [storing EXCEPT ![c] = [id |-> serial + 1, src |-> c,
                                                  line |-> Head(chain[c])]]
            /\ slog' = [slog EXCEPT !.again =
                 IF \E r \in EverOf(c) : r.line = Head(chain[c]) THEN @ \cup {c} ELSE @]
            /\ UNCHANGED chain
  /\ UNCHANGED <<printed, tail, stage, table, channel, stream, page>>

\* The rejection is swallowed: the line is gone and the next one follows.
InsertFails(c) ==
  /\ storing[c] # Absent /\ stage[c] = "insert"
  /\ slog.faults < MaxLogFaults
  /\ slog' = [slog EXCEPT !.faults = @ + 1, !.dropped = @ \cup {c}]
  /\ LineDone(c)
  /\ UNCHANGED <<printed, tail, table, serial, channel, stream, page>>

\* Rows are committed in any order, whatever their ids.  Every two hundredth line of all
\* projects is followed by a removal in its own, so any line may be.
Commit(c) ==
  /\ storing[c] # Absent /\ stage[c] = "insert"
  /\ table' = table \cup {storing[c]}
  /\ \E next \in {"prune", "publish"} : stage' = [stage EXCEPT ![c] = next]
  /\ UNCHANGED <<printed, tail, chain, storing, serial, channel, stream, page, slog>>

\* The rows with the greatest ids stay, whichever containers they are of.
Prune(c) ==
  /\ stage[c] = "prune"
  /\ table' = Newest(table, MaxPersisted)
  /\ slog' = [slog EXCEPT !.pruned = @ \cup (table \ Newest(table, MaxPersisted))]
  /\ stage' = [stage EXCEPT ![c] = "publish"]
  /\ UNCHANGED <<printed, tail, chain, storing, serial, channel, stream, page>>

\* Published once it is stored; it reaches the streams subscribed by now.
Publish(c) ==
  /\ stage[c] = "publish"
  /\ channel' = IF stream.at = "off" THEN channel ELSE Append(channel, storing[c])
  /\ LineDone(c)
  /\ UNCHANGED <<printed, tail, table, serial, stream, page, slog>>

\* A stored line is never published: its persist throws when the removal does, and a
\* publication that is refused is swallowed.
NeverPublished(c) ==
  /\ stage[c] \in {"prune", "publish"} /\ slog.faults < MaxLogFaults
  /\ slog' = [slog EXCEPT !.faults = @ + 1, !.silent = @ \cup {storing[c]}]
  /\ LineDone(c)
  /\ UNCHANGED <<printed, tail, table, serial, channel, stream, page>>

\* What was read and not stored is forgotten, and what was stored is not published.
WorkerCrash ==
  /\ slog.faults < MaxLogFaults
  /\ slog' = [slog EXCEPT !.crashes = @ + 1, !.faults = @ + 1,
       !.silent = @ \cup {storing[c] : c \in {d \in Sources : storing[d] # Absent}}]
  /\ tail' = [c \in Sources |-> Down]
  /\ chain' = [c \in Sources |-> <<>>]
  /\ \E done \in SUBSET {c \in Sources : storing[c] # Absent /\ stage[c] = "insert"} :
       table' = table \cup {storing[c] : c \in done}
  /\ storing' = [c \in Sources |-> Absent] /\ stage' = [c \in Sources |-> "insert"]
  /\ UNCHANGED <<printed, serial, channel, stream, page>>

\* Mutant: a container without stored lines is followed from now on.
SinceNow(c) ==
  LET from == Second(LastOfRows(RowsOf(c)).line) IN
  IF RowsOf(c) = {} THEN Second(printed[c] + 1) ELSE IF from = 0 THEN 0 ELSE from - 1

\* Where the tail of a recovered container starts: a second before the last stored line.
Since(c) ==
  LET from == Second(LastOfRows(RowsOf(c)).line) IN
  IF RowsOf(c) = {} \/ from = 0 THEN 0 ELSE from - 1

\* recover(), once when the worker starts.
Recover(c) ==
  /\ tail[c] = Down /\ slog.started[c] <= slog.crashes
  /\ chain[c] = <<>> /\ storing[c] = Absent
  /\ tail' = [tail EXCEPT ![c] = CHOOSE k \in 1..MaxPrinted + 1 :
                /\ k = MaxPrinted + 1 \/ Second(k) >= Since(c)
                /\ \A j \in 1..k - 1 : Second(j) < Since(c)]
  /\ slog' = [slog EXCEPT !.started[c] = slog.crashes + 1]
  /\ UNCHANGED <<printed, chain, storing, stage, table, serial, channel, stream, page>>

-----------------------------------------------------------------------------
(***************************************************************************)
(* GET /api/projects/:id/log-history and /logs, and the page.              *)
(***************************************************************************)
Show(rows) ==
  page' = [page EXCEPT !.shown = @ \cup rows,
             !.cursor = Max({@} \cup {r.id : r \in rows})]

OpenPage ==
  /\ ~page.open
  /\ page' = [open |-> TRUE, shown |-> Newest(table, HistoryLimit),
              cursor |-> Max({0} \cup {r.id : r \in Newest(table, HistoryLimit)})]
  /\ UNCHANGED <<printed, tail, chain, storing, stage, table, serial, channel, stream, slog>>

\* The subscription comes before the replay is read.
Connect ==
  /\ page.open /\ stream.at = "off"
  /\ stream' = [at |-> "subscribed", after |-> page.cursor, kept |-> <<>>, seen |-> {}]
  /\ channel' = <<>>
  /\ UNCHANGED <<printed, tail, chain, storing, stage, table, serial, page, slog>>

\* Mutant: the row next to the cursor is taken for the cursor's own.
AfterNext(r) == r.id > stream.after + 1

After(r) == r.id > stream.after

\* What the reader has, by the cursor it came with or by this stream.
Sent(r) == r.id \in stream.seen \/ ~After(r)

\* onMessage: what the cursor or the replay covers is left out, and a row that comes
\* before the replay is kept for after it.
Receive ==
  LET r == Head(channel) IN
  /\ stream.at # "off" /\ channel # <<>>
  /\ channel' = Tail(channel)
  /\ IF Sent(r)
       THEN UNCHANGED <<stream, page>>
       ELSE IF stream.at = "subscribed"
       THEN stream' = [stream EXCEPT !.kept = Append(@, r)] /\ UNCHANGED page
       ELSE stream' = [stream EXCEPT !.seen = @ \cup {r.id}] /\ Show({r})
  /\ UNCHANGED <<printed, tail, chain, storing, stage, table, serial, slog>>

\* The newest rows after the cursor, then what was kept and is not among them.
Replay ==
  /\ stream.at = "subscribed"
  /\ LET rows == Newest({r \in table : After(r)}, ReplayLimit)
         later == Range(stream.kept) \ rows
     IN
     /\ stream' = [stream EXCEPT !.at = "live", !.kept = <<>>,
                                 !.seen = {r.id : r \in rows \cup later}]
     /\ Show(rows \cup later)
     /\ slog' = [slog EXCEPT !.cut = {r \in table : After(r)} \ (rows \cup later)]
  /\ UNCHANGED <<printed, tail, chain, storing, stage, table, serial, channel>>

\* The connection breaks, or the reader pauses and resumes.
Drop ==
  /\ stream.at # "off" /\ slog.faults < MaxLogFaults
  /\ stream' = NoStream
  /\ channel' = <<>>
  /\ slog' = [slog EXCEPT !.faults = @ + 1, !.cut = {}]
  /\ UNCHANGED <<printed, tail, chain, storing, stage, table, serial, page>>

\* "Load older logs": the page before the first row shown.
LoadOlder ==
  /\ page.shown # {}
  /\ \E r \in table : \A q \in page.shown : r.id < q.id
  /\ page' = [page EXCEPT !.shown = @ \cup
                Newest({r \in table : \A q \in page.shown : r.id < q.id}, HistoryLimit)]
  /\ UNCHANGED <<printed, tail, chain, storing, stage, table, serial, channel, stream, slog>>

-----------------------------------------------------------------------------
Init ==
  /\ printed = [c \in Sources |-> 0] /\ tail = [c \in Sources |-> 1]
  /\ chain = [c \in Sources |-> <<>>] /\ storing = [c \in Sources |-> Absent]
  /\ stage = [c \in Sources |-> "insert"]
  /\ table = {} /\ serial = 0
  /\ channel = <<>> /\ stream = NoStream /\ page = NotOpen
  /\ slog = [crashes |-> 0, faults |-> 0, dropped |-> {}, silent |-> {},
             pruned |-> {}, again |-> {}, cut |-> {}, started |-> [c \in Sources |-> 1]]

\* Rows have ids that were drawn and lines that were printed, each at most once.
TypeOK ==
  /\ \A c \in Sources : /\ printed[c] \in 0..MaxPrinted /\ tail[c] \in 0..(printed[c] + 1)
                        /\ \A i \in DOMAIN chain[c] : chain[c][i] \in 1..printed[c]
                        /\ storing[c] # Absent => storing[c].line = Head(chain[c])
                        /\ stage[c] \in {"insert", "prune", "publish"}
                        /\ storing[c] = Absent => stage[c] = "insert"
  /\ Ever \subseteq [id : 1..serial, src : Sources, line : 1..MaxPrinted]
  /\ \A q, r \in table : q.id = r.id \/ (q.src = r.src /\ q.line = r.line) => q = r
  /\ page.shown \subseteq Ever /\ page.cursor \in 0..serial
  /\ stream.at \in {"off", "subscribed", "live"} /\ stream.after \in 0..serial
  /\ \A s \in {channel, stream.kept} : \A i \in DOMAIN s : s[i] \in Ever
  /\ slog.faults \in 0..MaxLogFaults

Next ==
  \/ \E c \in Sources :
       \/ PrintLine(c) \/ Read(c) \/ StreamEnds(c) \/ Insert(c) \/ InsertFails(c)
       \/ Commit(c) \/ Prune(c) \/ Publish(c) \/ NeverPublished(c) \/ Recover(c)
  \/ WorkerCrash
  \/ OpenPage \/ Connect \/ Receive \/ Replay \/ Drop \/ LoadOlder

Spec == Init /\ [][Next]_logVars

-----------------------------------------------------------------------------
(* Unless the database refused one, the lines ever stored of a container   *)
(* are the first it printed, whenever the worker was restarted; they are    *)
(* in order and each there once, unless one was read again after its row    *)
(* was removed; and what is left of a container's rows are its newest       *)
(* (service-logs.ts, persist and recover in project-deploy.ts).             *)
StoredWithoutGap ==
  \A c \in Sources :
    LET lines == {r.line : r \in EverOf(c)} IN
    /\ c \notin slog.dropped => lines = 1..Cardinality(lines)
    /\ c \notin slog.dropped \cup slog.again =>
         \A r, q \in EverOf(c) : r.id < q.id => r.line < q.line
    /\ \A r \in EverOf(c) \ table, q \in RowsOf(c) : r.id < q.id

Underway(r) ==
  r \in Range(channel) \/ \E c \in Sources : storing[c] = r

(* Between what is stored and what is live nothing is lost: a connected page *)
(* shows every stored row after its cursor, but those beyond the limit of    *)
(* the replay, those that were never published - the worker crashed, the     *)
(* removal of old rows failed, or the publication was refused - and those on *)
(* their way (GET /api/projects/:id/logs).                                   *)
HandoffWithoutGap ==
  stream.at = "live" =>
    \A r \in table \ (slog.cut \cup slog.silent) :
      r.id > stream.after /\ ~Underway(r) => r \in page.shown

(* What a page shows has no hole: "reconnect cursors and no gaps or          *)
(* duplicates at the persisted/live handoff" (UPCOMING_PLANS.md).            *)
ReconnectWithoutGap ==
  stream.at = "live" /\ page.shown # {} =>
    \A r \in table : ~Underway(r) /\ r.id < page.cursor
                       /\ (\E q \in page.shown : q.id < r.id) => r \in page.shown
=============================================================================
