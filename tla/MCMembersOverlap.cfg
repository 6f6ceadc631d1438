\* Two owners change each other's role at the same time.
SPECIFICATION Spec
CONSTANTS
  founder = founder  guest1 = guest1  guest2 = guest2   i1 = i1  i2 = i2  c1 = c1  c2 = c2
  People = {founder, guest1}
  Founder = founder
  Invitations = {i1}
  Clients = {c1, c2}
  None = None
  Overlapping = TRUE
INVARIANTS
  NeverWithoutOwner
CHECK_DEADLOCK FALSE
