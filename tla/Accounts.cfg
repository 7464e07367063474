SPECIFICATION Spec
CONSTANTS
  ann = ann
  bob = bob
  h1 = h1
  h2 = h2
  c1 = c1
  None = None
  Nothing = Nothing
  Absent = Absent
  Emails <- MCEmails
  Tenants <- MCEmails
  Codes = {k1, k2}
  Tokens = {s1}
  Threads <- MCThreads
  Clients <- MCClients
  RobotIds = {r1, r2}
  SetupIds = {e1}
  Uploads <- MCUploads
  Requests <- MCRequests
  CodeLife = 1
  MaxAttempts = 1
  RateLimit = 1
  RateWindow = 1
  SessionLife = 1
  MaxIssues = 2
  RobotQuota = 1
  SetupQuota = 1
  MaxPreparations = 1
SYMMETRY MCSymmetry
INVARIANTS
  TypeOK
  ComparisonsAreBounded
  HistoryIsWhole
