\* Two releases and one worker crash: everything queued still finishes; two runtime
\* services and a release job, two requests or saves beside those of the editor.
SPECIFICATION ProjectSpec
CONSTANTS
  web = web  bg = bg  job = job  r1 = r1  r2 = r2  r3 = r3  d1 = d1
  Releases = {r1, r2}
  Services <- MCServices
  Kind <- MCKind
  BuildKey <- MCBuildKey
  HealthyDeps <- MCHealthyDeps
  StartedDeps <- MCStartedDeps
  Datastores = {}
  None = None
  NoImage = NoImage
  FaultKinds = {"worker"}
  MaxFaults = 1
  MaxStalled = 1
  Admin = Admin
  MaxAsked = 2
  MaxRefused = 1
INVARIANTS
  SerialKeepsDocument
  OnlyOrderedServicesStart
  SavedAsAsked
  
PROPERTIES
  QueuedReleaseFinishes
CHECK_DEADLOCK FALSE
