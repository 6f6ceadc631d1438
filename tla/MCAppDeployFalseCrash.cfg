\* Two deployments, no fault, no crash of the process.
SPECIFICATION Spec
CONSTANTS
  d1 = d1  d2 = d2  d3 = d3
  Deployments = {d1, d2}
  None = None
  FaultKinds = {}
  MaxFaults = 0
  MaxCrashes = 0
  MaxStalled = 1
  Deletable = FALSE
INVARIANTS
  CrashedOnlyAfterCrash
CHECK_DEADLOCK FALSE
