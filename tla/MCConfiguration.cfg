\* Up to three requests before, between and after the reads of an export, two restores of
\* the bundle; two editors and three requests on two keys of an image application or of a
\* service, which has all that an application from Git has; an application, a service, their
\* addresses and one more hostname under four requests; two providers, two edits of zones,
\* records and tokens, two requests about a record; three lines of two containers, a page of
\* one row and a replay of one, two rows kept, a crash or a refused call; two browsers, two
\* addresses and two organizations, two accounts and two sessions in three days, of which
\* gate cookies and sessions live one.
SPECIFICATION ConfigurationSpec
CONSTANTS
  shop = shop  h1 = h1  a1 = a1  a2 = a2  b1 = b1  b2 = b2  ann = ann  bob = bob
  None = None
  Names = {shop}
  ServiceNames = {a1, a2}
  Hosts = {h1}
  Kinds = {b1, b2}
  Port = Port  Own = Own  Url = Url
  MaxEdits = 3
  MaxRestores = 2
  Keys = {a1, a2}
  Values = {b1, b2}
  VarKinds = {"image", "service"}
  Editors = {ann, bob}
  MaxVarEdits = 3
  Apps = {shop}  Fronts = {web}
  MaxDomainEdits = 4
  Here = Here  Edge = Edge  Other = Other  Providers = {b1, b2}
  MaxDnsEdits = 2  MaxDnsRequests = 2
  Sources = {a1, a2}  LinesPerSecond = 2  HistoryLimit = 1  ReplayLimit = 1  MaxPersisted = 2
  MaxPrinted = 3
  MaxLogFaults = 1
  Browsers = {ann, bob}  People = {a1, a2}  OrgSlugs = {b1, b2}
  GateLife = 1  SessionLife = 1  MaxAccounts = 2  MaxSessions = 2  MaxDays = 2
SYMMETRY ConfigurationSymmetry
INVARIANTS
  RoundTrip
  RestoreOnlyAdds
  RestoredBindingsAnswer
  EditsKept
  SerialKeepsRouting
  DeployedRoutesAgree
  AppliedRecordVerifies
  
  HandoffWithoutGap
  SerialOneOrganization
  LetInExactlyWhileLoggedIn
CHECK_DEADLOCK FALSE
