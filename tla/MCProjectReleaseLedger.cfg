\* Two HTTP services, a datastore bound and unbound at any time, one Docker, Redis or API fault.
SPECIFICATION Spec
CONSTANTS
  web = web  bg = bg  job = job  r1 = r1  r2 = r2  r3 = r3  d1 = d1
  Releases = {r1, r2, r3}
  Services <- TwoHttpServices
  Kind <- TwoHttpKind
  BuildKey <- TwoHttpBuildKey
  HealthyDeps <- TwoHttpHealthyDeps
  StartedDeps <- TwoHttpStartedDeps
  Datastores = {d1}
  None = None
  NoImage = NoImage
  FaultKinds = {"docker", "redis", "api"}
  MaxFaults = 1
  MaxStalled = 1
SYMMETRY ReleaseSymmetry
PROPERTIES
  ImplementsLedger
CHECK_DEADLOCK FALSE
