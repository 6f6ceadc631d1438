----------------------------- MODULE RuntimeLog -----------------------------
(***************************************************************************)
(* The runtime log of one application: the worker's tail of the            *)
(* application's container (at most one follow stream, registered under    *)
(* the application), the deployment that replaces the container, the scan  *)
(* with which a starting worker re-attaches to what runs, a viewer of the  *)
(* live lines, and the history of a range of time.                         *)
(*                                                                         *)
(* Sources: apps/worker/src/runtime-logs.ts and its uses in index.ts;      *)
(* GET /api/applications/:id/logs and /log-history in                      *)
(* apps/api/src/routes/applications.ts, runtime-log-history.ts.            *)
(***************************************************************************)
EXTENDS Naturals, Sequences, FiniteSets

CONSTANTS
  MaxContainers, \* bound on the deployments, each makes one container
  MaxLines,      \* bound on the lines a container prints
  PerSecond,     \* clock ticks in a second, the unit of Docker's since and until
  MaxTime,       \* bound on the clock
  HistoryCap,    \* MAX_RUNTIME_HISTORY_LINES
  MaxMishaps     \* bound on failed attachments, broken streams, and ends of the worker or
                 \* of the container's process

VARIABLES
  clock,
  ctr,        \* Docker: the state of each container
  log,        \* Docker: per container, the time each of its lines was printed
  streams,    \* the follow streams of this worker process
  tail,       \* `tails`: the stream registered for the application, or 0
  job, scan,  \* progress of runDeploy and of startForRunning
  viewer,     \* a client of the SSE route and the last live line it was sent
  lost,       \* containers whose stream failed, or whose process exited
  raced,      \* whether the scan and a deployment ran at the same time
  mishaps

tailVars == <<streams, tail, job, scan>>
vars == <<clock, ctr, log, tailVars, viewer, lost, raced, mishaps>>

Containers == 1..MaxContainers
MaxStreams == MaxContainers + 1  \* every deployment opens at most one, the scan another
Second(t) == t \div PerSecond

\* closing: destroyed, its close event still to come; ending: the daemon has ended it
\* after line upto; closed: its end has been handled, and the number may be used again.
StreamType == [ctr : 0..MaxContainers, next : Nat, upto : Nat,
               state : {"open", "ending", "closing", "closed"}]
Closed == [ctr |-> 0, next |-> 0, upto |-> 0, state |-> "closed"]

Idle == [pc |-> "idle", ctr |-> 0, since |-> 0]
NoLine == [ctr |-> 0, second |-> 0]

TypeOK ==
  /\ clock \in 0..MaxTime
  /\ ctr \in [Containers -> {"unmade", "running", "exited", "removed"}]
  /\ log \in [Containers -> Seq(0..MaxTime)]
  /\ streams \in [1..MaxStreams -> StreamType] /\ tail \in 0..MaxStreams
  /\ job \in [pc : {"idle", "stopped", "removed", "started", "attaching", "down"},
              ctr : 0..MaxContainers, since : Nat]
  /\ scan \in [pc : {"idle", "begin", "listed", "attaching", "down"},
               ctr : 0..MaxContainers, since : Nat]
  /\ viewer \in [pc : {"away", "live"},
                 last : [ctr : 0..MaxContainers, second : Nat]]
  /\ lost \subseteq Containers /\ raced \in BOOLEAN
  /\ mishaps \in 0..MaxMishaps

Init ==
  /\ clock = 0
  /\ ctr = [c \in Containers |-> "unmade"] /\ log = [c \in Containers |-> <<>>]
  /\ streams = [s \in 1..MaxStreams |-> Closed] /\ tail = 0
  /\ job = Idle /\ scan = [Idle EXCEPT !.pc = "begin"]
  /\ viewer = [pc |-> "away", last |-> NoLine]
  /\ lost = {} /\ raced = FALSE /\ mishaps = 0

Up == job.pc # "down"
Running == {c \in Containers : ctr[c] = "running"}
Made == {c \in Containers : ctr[c] # "unmade"}

-----------------------------------------------------------------------------
(***************************************************************************)
(* Docker: the clock of its timestamps, the process and what it prints.    *)
(***************************************************************************)
Tick ==
  /\ clock < MaxTime
  /\ clock' = clock + 1
  /\ UNCHANGED <<ctr, log, tailVars, viewer, lost, raced, mishaps>>

PrintLine(c) ==
  /\ c \in Running /\ Len(log[c]) < MaxLines
  /\ log' = [log EXCEPT ![c] = Append(@, clock)]
  /\ UNCHANGED <<clock, ctr, tailVars, viewer, lost, raced, mishaps>>

\* The daemon ends the streams that follow a container when it stops.
Ended(cs) ==
  [s \in DOMAIN streams |->
     IF streams[s].ctr \in cs /\ streams[s].state = "open"
       THEN [streams[s] EXCEPT !.state = "ending", !.upto = Len(log[streams[s].ctr])]
       ELSE streams[s]]

\* The process exits; the restart policy may start it again, which no stream follows.
ProcessExits(c) ==
  /\ c \in Running /\ mishaps < MaxMishaps
  /\ ctr' = [ctr EXCEPT ![c] = "exited"]
  /\ streams' = Ended({c})
  /\ lost' = lost \cup {c} /\ mishaps' = mishaps + 1
  /\ UNCHANGED <<clock, log, tail, job, scan, viewer, raced>>

ProcessRestarts(c) ==
  /\ ctr[c] = "exited"
  /\ ctr' = [ctr EXCEPT ![c] = "running"]
  /\ UNCHANGED <<clock, log, tailVars, viewer, lost, raced, mishaps>>

-----------------------------------------------------------------------------
(***************************************************************************)
(* The tail manager.                                                       *)
(***************************************************************************)

\* stop(): the registration goes at once, the close event of the stream comes later.
StopTail ==
  /\ tail' = 0
  /\ streams' = IF tail = 0 THEN streams
                ELSE [streams EXCEPT ![tail] =
                        [Closed EXCEPT !.ctr = streams[tail].ctr, !.state = "closing"]]

\* The line after which a stream from second `since` on begins.
Skipped(c, since) == Cardinality({i \in 1..Len(log[c]) : Second(log[c][i]) < since})

\* container.logs() has resolved: the stream is registered, whatever is registered now.
Register(c, since) ==
  LET s == CHOOSE k \in 1..MaxStreams : streams[k] = Closed IN
    /\ streams' = [streams EXCEPT ![s] =
         [ctr |-> c, next |-> Skipped(c, since) + 1,
          upto |-> IF ctr[c] = "running" THEN 0 ELSE Len(log[c]),
          state |-> IF ctr[c] = "running" THEN "open" ELSE "ending"]]
    /\ tail' = s

\* onData: a line of an open stream, or of the rest of an ended one, is published.
Deliver(s) ==
  /\ s \in DOMAIN streams
  /\ LET st == streams[s] IN
       /\ \/ st.state = "open" /\ st.next <= Len(log[st.ctr])
          \/ st.state = "ending" /\ st.next <= st.upto
       /\ viewer' = IF viewer.pc = "live"
                      THEN [viewer EXCEPT !.last =
                              [ctr |-> st.ctr, second |-> Second(log[st.ctr][st.next])]]
                      ELSE viewer
  /\ streams' = [streams EXCEPT ![s].next = @ + 1]
  /\ UNCHANGED <<clock, ctr, log, tail, job, scan, lost, raced, mishaps>>

\* Mutant: the end of any stream clears the registration.
UnregisterAny(s) == tail' = 0

\* onEnd clears the registration only if it is this container's.
Unregister(s) ==
  tail' = IF tail # 0 /\ streams[tail].ctr = streams[s].ctr THEN 0 ELSE tail

\* The end of a stopped container (what remains of a removed one may be cut off), the
\* close of a destroyed stream.
StreamEnds(s) ==
  /\ s \in DOMAIN streams
  /\ \/ streams[s].state = "closing"
     \/ /\ streams[s].state = "ending"
        /\ streams[s].next > streams[s].upto \/ ctr[streams[s].ctr] = "removed"
  /\ Unregister(s)
  /\ streams' = [streams EXCEPT ![s] = Closed]
  /\ UNCHANGED <<clock, ctr, log, job, scan, viewer, lost, raced, mishaps>>

StreamBreaks(s) ==
  /\ s \in DOMAIN streams /\ streams[s].state = "open"
  /\ mishaps < MaxMishaps /\ mishaps' = mishaps + 1
  /\ Unregister(s)
  /\ streams' = [streams EXCEPT ![s] = Closed]
  /\ lost' = lost \cup {streams[s].ctr}
  /\ UNCHANGED <<clock, ctr, log, job, scan, viewer, raced>>

-----------------------------------------------------------------------------
(***************************************************************************)
(* runDeploy's use of it, and the startup scan.                            *)
(***************************************************************************)

\* logTails.stop, before the old containers are listed and removed.
StopOld ==
  /\ job.pc = "idle" /\ Made # Containers
  /\ job' = [job EXCEPT !.pc = "stopped"]
  /\ StopTail
  /\ raced' = (raced \/ scan.pc # "idle")
  /\ UNCHANGED <<clock, ctr, log, scan, viewer, lost, mishaps>>

RemoveOld ==
  /\ job.pc = "stopped"
  /\ ctr' = [c \in Containers |-> IF c \in Made THEN "removed" ELSE ctr[c]]
  /\ streams' = Ended(Made)
  /\ job' = [job EXCEPT !.pc = "removed"]
  /\ UNCHANGED <<clock, log, tail, scan, viewer, lost, raced, mishaps>>

\* The job may fail here, until the new container runs.
StartNew ==
  /\ job.pc = "removed"
  /\ LET c == Cardinality(Made) + 1 IN
       \/ /\ ctr' = [ctr EXCEPT ![c] = "running"]
          /\ job' = [job EXCEPT !.pc = "started", !.ctr = c]
       \/ /\ ctr' = [ctr EXCEPT ![c] = "removed"]
          /\ job' = Idle
  /\ UNCHANGED <<clock, log, streams, tail, scan, viewer, lost, raced, mishaps>>

\* logTails.start with the second before this one, for what the process has printed.
JobAttaches ==
  /\ job.pc = "started"
  /\ job' = [job EXCEPT !.pc = "attaching",
                        !.since = IF Second(clock) = 0 THEN 0 ELSE Second(clock) - 1]
  /\ StopTail
  /\ UNCHANGED <<clock, ctr, log, scan, viewer, lost, raced, mishaps>>

JobAttached ==
  /\ job.pc = "attaching"
  /\ Register(job.ctr, job.since)
  /\ job' = Idle
  /\ lost' = IF job.ctr \in Running THEN lost \ {job.ctr} ELSE lost
  /\ UNCHANGED <<clock, ctr, log, scan, viewer, raced, mishaps>>

\* The failure is published as a line of the application; the deployment goes on.
JobAttachFails ==
  /\ job.pc = "attaching"
  /\ mishaps < MaxMishaps /\ mishaps' = mishaps + 1
  /\ job' = Idle /\ lost' = lost \cup {job.ctr}
  /\ UNCHANGED <<clock, ctr, log, streams, tail, scan, viewer, raced>>

\* startForRunning lists what runs; the containers of other applications come before
\* this one.  The workers take jobs already.
ScanLists ==
  /\ scan.pc = "begin"
  /\ \/ \E c \in Running : scan' = [scan EXCEPT !.pc = "listed", !.ctr = c]
     \/ Running = {} /\ scan' = Idle
  /\ raced' = (raced \/ job.pc # "idle")
  /\ UNCHANGED <<clock, ctr, log, streams, tail, job, viewer, lost, mishaps>>

\* Mutant: a re-attached tail begins with everything the daemon retains.
FromTheBeginning == 0

\* The default of start().
SinceNow == Second(clock)

ScanAttaches ==
  /\ scan.pc = "listed"
  /\ scan' = [scan EXCEPT !.pc = "attaching", !.since = SinceNow]
  /\ StopTail
  /\ UNCHANGED <<clock, ctr, log, job, viewer, lost, raced, mishaps>>

ScanAttached ==
  /\ scan.pc = "attaching" /\ ctr[scan.ctr] # "removed"
  /\ Register(scan.ctr, scan.since)
  /\ scan' = Idle
  /\ lost' = IF scan.ctr \in Running THEN lost \ {scan.ctr} ELSE lost
  /\ UNCHANGED <<clock, ctr, log, job, viewer, raced, mishaps>>

\* By a fault, or because the container is gone.
ScanAttachFails ==
  /\ scan.pc = "attaching"
  /\ \/ ctr[scan.ctr] = "removed" /\ UNCHANGED mishaps
     \/ mishaps < MaxMishaps /\ mishaps' = mishaps + 1
  /\ scan' = Idle /\ lost' = lost \cup {scan.ctr}
  /\ UNCHANGED <<clock, ctr, log, streams, tail, job, viewer, raced>>

\* A shutdown (stopAll) or the death of the worker: its streams are gone with it, the
\* containers run on.
WorkerStops ==
  /\ Up /\ mishaps < MaxMishaps
  /\ mishaps' = mishaps + 1
  /\ streams' = [s \in 1..MaxStreams |-> Closed] /\ tail' = 0
  /\ job' = [Idle EXCEPT !.pc = "down"] /\ scan' = [Idle EXCEPT !.pc = "down"]
  /\ UNCHANGED <<clock, ctr, log, viewer, lost, raced>>

WorkerStarts ==
  /\ ~Up
  /\ job' = Idle /\ scan' = [Idle EXCEPT !.pc = "begin"]
  /\ UNCHANGED <<clock, ctr, log, streams, tail, viewer, lost, raced, mishaps>>

-----------------------------------------------------------------------------
(***************************************************************************)
(* The viewer of the live lines.                                           *)
(***************************************************************************)

\* The container's last lines are read and sent, and then the channel is subscribed to;
\* no property is about the lines read, and what is published in between is missed like
\* what was published before.
Subscribe ==
  /\ viewer.pc = "away"
  /\ viewer' = [viewer EXCEPT !.pc = "live"]
  /\ UNCHANGED <<clock, ctr, log, tailVars, lost, raced, mishaps>>

Hangup ==
  /\ viewer.pc # "away"
  /\ viewer' = [pc |-> "away", last |-> NoLine]
  /\ UNCHANGED <<clock, ctr, log, tailVars, lost, raced, mishaps>>

Next ==
  \/ Tick \/ (\E c \in Containers : PrintLine(c) \/ ProcessExits(c) \/ ProcessRestarts(c))
  \/ \E s \in DOMAIN streams : Deliver(s) \/ StreamEnds(s) \/ StreamBreaks(s)
  \/ StopOld \/ RemoveOld \/ StartNew \/ JobAttaches \/ JobAttached \/ JobAttachFails
  \/ ScanLists \/ ScanAttaches \/ ScanAttached \/ ScanAttachFails
  \/ WorkerStops \/ WorkerStarts
  \/ Subscribe \/ Hangup

Spec == Init /\ [][Next]_vars

-----------------------------------------------------------------------------
(***************************************************************************)
(* The history of a range of time.                                         *)
(***************************************************************************)
LastOf(s, k) == IF Len(s) <= k THEN s ELSE SubSeq(s, Len(s) - k + 1, Len(s))

\* Numbers of the lines of container c printed from a to b.
Printed(c, a, b) ==
  SelectSeq([i \in 1..Len(log[c]) |-> i], LAMBDA i : log[c][i] \in a..b)

\* The end of the second, as Math.ceil makes it.
CeilSecond(t) == ((t + PerSecond - 1) \div PerSecond) * PerSecond
FloorSecond(t) == Second(t) * PerSecond

\* What the daemon answers to since, until and tail = limit + 1.  Whether it counts the
\* last lines among those of the range or among all is not in this repository.
Answers(c, a, b) ==
  LET wide == Printed(c, FloorSecond(a), CeilSecond(b))
      last == LastOf([i \in 1..Len(log[c]) |-> i], HistoryCap + 1) IN
    {LastOf(wide, HistoryCap + 1),
     SelectSeq(last, LAMBDA i : \E k \in 1..Len(wide) : wide[k] = i)}

Shown(rows) == LastOf(rows, HistoryCap)

\* filterTimestampedRuntimeLogs.
History(c, answer, a, b) ==
  LET rows == SelectSeq(answer, LAMBDA i : log[c][i] \in a..b) IN
    [lines |-> IF Len(rows) > HistoryCap THEN Shown(rows) ELSE rows,
     truncated |-> Len(rows) > HistoryCap]

-----------------------------------------------------------------------------
\* When no deployment and no startup scan is under way, the registered stream is one
\* that follows the running container, unless that stream failed or the process exited
\* under it, or a deployment overtook the startup scan: the late end of a replaced
\* stream does not take the registration of its successor (runtime-logs.ts:99).
LiveIsTailed ==
  job.pc = "idle" /\ scan.pc = "idle" /\ ~raced =>
    \A c \in Running \ lost :
      tail # 0 /\ streams[tail].ctr = c /\ streams[tail].state = "open"

\* Unless a deployment overtakes the startup scan, the application has at most one
\* stream that still publishes (the comment at runtime-logs.ts:5).
OneFollowStream ==
  ~raced =>
    Cardinality({s \in DOMAIN streams : streams[s].state \in {"open", "ending"}}) <= 1

\* What the running container prints is published once.
FollowedOnce == LiveIsTailed /\ OneFollowStream

\* The live lines a viewer gets never go back: no line of a replaced container after
\* one of its successor, no line of an earlier second after one of a later second, also
\* across restarts of the worker (unless a deployment overtakes the startup scan).
LiveInOrder ==
  [][viewer'.pc = "live" /\ ~raced =>
       \/ viewer.last.ctr < viewer'.last.ctr
       \/ /\ viewer.last.ctr = viewer'.last.ctr
          /\ viewer.last.second <= viewer'.last.second]_vars

\* The history of a range shows the newest lines of the range, at most the limit, and
\* when no more than the limit have been printed since its beginning, it shows them all
\* and does not call itself truncated (runtime-log-history.ts, applications.ts:749).
HistoryIsNewest ==
  \A c \in Containers : \A a \in 0..MaxTime : \A b \in a..MaxTime :
    \A answer \in Answers(c, a, b) :
      LET range == Printed(c, a, b)
          shown == History(c, answer, a, b) IN
        /\ shown.lines = LastOf(range, Len(shown.lines)) /\ Len(shown.lines) <= HistoryCap
        /\ Len(Printed(c, a, MaxTime)) <= HistoryCap
             => shown.lines = range /\ ~shown.truncated
=============================================================================
