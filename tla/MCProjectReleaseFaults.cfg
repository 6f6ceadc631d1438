\* Two releases and up to two infrastructure faults of any kind at any point.
SPECIFICATION Spec
CONSTANTS
  web = web  bg = bg  job = job  r1 = r1  r2 = r2  r3 = r3  d1 = d1
  Releases = {r1, r2}
  Services <- MCServices
  Kind <- MCKind
  BuildKey <- MCBuildKey
  HealthyDeps <- MCHealthyDeps
  StartedDeps <- MCStartedDeps
  Datastores = {}
  None = None
  NoImage = NoImage
  FaultKinds = {"worker", "docker", "db", "api", "redis"}
  MaxFaults = 2
  MaxStalled = 1
SYMMETRY ReleaseSymmetry
INVARIANTS
  AtRestExactlyCurrent
  AlwaysServed
  RollbackKeepsImages
PROPERTIES
  LiveRemovedOnlyWhenReplaced
CHECK_DEADLOCK FALSE
