---------------------------- MODULE MCDeployment ----------------------------
(***************************************************************************)
(* A deployment, the log of its build, and the runtime log of the          *)
(* container it starts: three things one job of the worker drives.  They   *)
(* share no state; a behaviour follows one of them and leaves the others   *)
(* alone.                                                                  *)
(***************************************************************************)
EXTENDS MCAppDeploy

CONSTANTS
  HeadCap, TailCap, Notice, MaxLines, MaxAttempts, MaxWriteFaults, \* of BuildLog
  MaxContainers, MaxPrinted, PerSecond, MaxTime, HistoryCap, MaxMishaps \* of RuntimeLog

\* Lengths of the log, at least one line each, its bounds, and the unit of Docker's seconds.
ASSUME LogsAssumption ==
  /\ HeadCap \in Nat \ {0} /\ TailCap \in Nat \ {0}
  /\ MaxLines \in Nat /\ MaxAttempts \in Nat \ {0}
  /\ MaxContainers \in Nat /\ PerSecond \in Nat \ {0}

VARIABLES
  part,
  attempt, n, phase, sink, writes, stored, viewer, ordered, rejected,
  clock, containers, log, streams, tail, job, scan, reader, lost, raced, mishaps

B == INSTANCE BuildLog WITH MaxFaults <- MaxWriteFaults, faults <- rejected
R == INSTANCE RuntimeLog WITH MaxLines <- MaxPrinted, ctr <- containers, viewer <- reader

logVars == <<attempt, n, phase, sink, writes, stored, viewer, ordered, rejected>>
tailVars == <<clock, containers, log, streams, tail, job, scan, reader, lost, raced,
              mishaps>>

\* The parts a behaviour does not follow stay in an initial state.
DeploymentInit ==
  /\ part \in {"app", "log", "tail"}
  /\ Init /\ B!Init /\ R!Init
  /\ part # "log" => ordered

DeploymentNext ==
  \/ part = "app" /\ Next /\ UNCHANGED <<part, logVars, tailVars>>
  \/ part = "log" /\ B!Next /\ UNCHANGED <<part, vars, tailVars>>
  \/ part = "tail" /\ R!Next /\ UNCHANGED <<part, vars, logVars>>

\* The fairness of AppDeploy and of BuildLog.
DeploymentSpec ==
  /\ DeploymentInit /\ [][DeploymentNext]_<<part, vars, logVars, tailVars>>
  /\ WF_vars(part = "app" /\ WorkerStep) /\ WF_vars(part = "app" /\ QueueStep)
  /\ \A d \in Deployments : WF_vars(part = "app" /\ Enqueue(d))
  /\ WF_logVars(part = "log" /\ B!TimerFires) /\ WF_logVars(part = "log" /\ B!WriteStep)

-----------------------------------------------------------------------------
\* When end() has returned and no write is under way, the stored log is complete, where
\* the database executes the writes in their order (build-log.ts).
StoredIsComplete == B!StoredIsComplete

\* Lines within the limit reach the database although the build goes on, unless the worker
\* dies or the database rejects the last write (build-log.ts).
LinesGetStored == B!LinesGetStored

\* At rest, the registered tail follows the running container: the late end of a replaced
\* stream does not take its successor's registration.  And no second stream publishes,
\* unless a deployment overtakes the startup scan (runtime-logs.ts).
FollowedOnce == part = "tail" => R!FollowedOnce

\* The live lines a viewer gets never go back to a replaced container or to an earlier
\* second, unless a deployment overtakes the startup scan (runtime-logs.ts).
LiveInOrder == R!LiveInOrder
=============================================================================
