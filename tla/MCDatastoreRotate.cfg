\* One rotation and one binding, no fault.
SPECIFICATION Spec
CONSTANTS
  a1 = a1
  Kinds = {"postgres", "redis"}
  Apps = {a1}
  FaultKinds = {}
  MaxFaults = 0
  MaxRequests = 1
  MaxStalled = 1
INVARIANTS
  BoundAppsFollowRotation
CHECK_DEADLOCK FALSE
