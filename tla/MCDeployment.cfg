\* Two deployments, one fault of any kind (a failing await is none), one crash of the
\* application's process, deletion of the application at any time; a log limit of one line
\* at the beginning and one at the end, three lines, a crash of the worker and a rejected
\* write, writes in order or not; two containers of two lines each, printed in three
\* ticks of half a second, one failure of a tail or end of the worker or of a
\* container's process, a history of one line.
SPECIFICATION DeploymentSpec
CONSTANTS
  d1 = d1  d2 = d2  d3 = d3
  Deployments = {d1, d2}
  None = None
  FaultKinds = {"worker", "docker", "db", "api", "events"}
  MaxFaults = 1
  MaxCrashes = 1
  MaxStalled = 1
  Deletable = TRUE
  HeadCap = 1
  TailCap = 1
  Notice = Notice
  MaxLines = 3
  MaxAttempts = 2
  MaxWriteFaults = 1
  MaxContainers = 2
  MaxPrinted = 2
  PerSecond = 2
  MaxTime = 2
  HistoryCap = 1
  MaxMishaps = 1
INVARIANTS
  RunningIsDeployed
  FailureReportsWhatRuns
  StoredIsComplete
  FollowedOnce
PROPERTIES
  QueuedDeploymentEnds
  LinesGetStored
  LiveInOrder
CHECK_DEADLOCK FALSE
