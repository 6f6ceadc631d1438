\* One datastore bound and unbound between two releases, no fault.
SPECIFICATION Spec
CONSTANTS
  web = web  bg = bg  job = job  r1 = r1  r2 = r2  r3 = r3  d1 = d1
  Releases = {r1, r2}
  Services <- MCServices
  Kind <- MCKind
  BuildKey <- MCBuildKey
  HealthyDeps <- MCHealthyDeps
  StartedDeps <- MCStartedDeps
  Datastores = {d1}
  None = None
  NoImage = NoImage
  FaultKinds = {}
  MaxFaults = 0
  MaxStalled = 1
PROPERTIES
  DetachOnlyAfterPromotion
CHECK_DEADLOCK FALSE
