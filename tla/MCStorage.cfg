\* Either engine, two requests after the creation, one binding, one fault of any kind; two
\* schedules, one destination, an occurrence per unit or every other unit, one request of
\* an administrator, one crash, refused call or failed write.
SPECIFICATION StorageSpec
CONSTANTS
  a1 = a1
  Kinds = {"postgres", "redis"}
  Apps = {a1}
  FaultKinds = {"docker", "db", "redis", "worker"}
  MaxFaults = 1
  MaxRequests = 2
  MaxStalled = 1
  None = None
  Schedules = {"nightly", "weekly"}
  Destinations = {"disk"}
  Periods = {1, 2}
  Retentions = {0, 1}
  MaxTime = 4
  MaxEdits = 1
  MaxBackupFaults = 1
INVARIANTS
  DeletedLeavesNothing
  RunningAnswers
  NewestIsStored
  OccurrenceExportedOnce
PROPERTIES
  StoredOnlyWhenAccepted
  DueIsRecorded
CHECK_DEADLOCK FALSE
