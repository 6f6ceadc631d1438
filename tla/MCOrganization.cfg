\* The founder and two people who are invited, removed and invited again, two requests at
\* once, of which at most one changes or removes a member; one application and one project
\* that track a branch, two pushes, one App, one installation, two deliveries handled,
\* at the same time if they arrive so (the values that name invitations and clients name
\* the handlers of deliveries and the operators too: one symmetry permutes both).
SPECIFICATION OrganizationSpec
CONSTANTS
  founder = founder  guest1 = guest1  guest2 = guest2   i1 = i1  i2 = i2  c1 = c1  c2 = c2
  People = {founder, guest1, guest2}
  Founder = founder
  Invitations = {i1, i2}
  Clients = {c1, c2}
  None = None
  Overlapping = FALSE
  Operators = {c1, c2}  Hooks = {i1, i2}
  Applications = {app}  Projects = {proj}
  MaxPushes = 2  MaxApps = 1  MaxInstalls = 1  MaxHandled = 2  MaxGitEdits = 4
SYMMETRY MemberSymmetry
INVARIANTS
  SerialKeepsOwner
  NewestPushDeployed
  AutoDeployNeedsApp
PROPERTIES
  AuthorityRespected
  JoinOnlyWhilePending
CHECK_DEADLOCK FALSE
