\* One worker crash, two releases.
SPECIFICATION Spec
CONSTANTS
  web = web  bg = bg  job = job  r1 = r1  r2 = r2  r3 = r3  d1 = d1
  Releases = {r1, r2}
  Services <- MCServices
  Kind <- MCKind
  BuildKey <- MCBuildKey
  HealthyDeps <- MCHealthyDeps
  StartedDeps <- MCStartedDeps
  Datastores = {}
  None = None
  NoImage = NoImage
  FaultKinds = {"worker"}
  MaxFaults = 1
  MaxStalled = 1
INVARIANTS
  FailureLeavesCurrentLive
CHECK_DEADLOCK FALSE
