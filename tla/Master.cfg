\* two users, two threads, two moves, a sign-in or failure or restart; two
\* logins of two accounts, a change of name, a failure or restart; two
\* publications of a share, a scan or failure or restart
CONSTANTS
  User = {u1, u2}
  Addr = {a1, a2}
  Req = {r1, r2}
  Hosted = Hosted
  None = None
  Other = {apex}
  MaxHosts = 2
  Mixed = Mixed
  Absent = Absent
  MoveLimit = 2
  UpsetLimit = 1
  Flow = {1, 2}
  Account = {g1, g2}
  Name = {n1, n2}
  Unset = Unset
  Broken = Broken
  RenameLimit = 1
  LossLimit = 1
  Share = {s1}
  Pub = {p1, p2}
  Nothing = Nothing
  FileCount = 2
  ManifestLimit = 1
  TroubleLimit = 1
SPECIFICATION MasterSpec
SYMMETRY Symmetric
INVARIANTS MasterTypeOK QuietRequestServes
INVARIANTS ClaimsFit QuietSignInTakes FailureHasCause
INVARIANTS QuietPublication RevisionNamesOne RegisteredIsListed
PROPERTIES NothingTakenAway
\* flows and publications end
CHECK_DEADLOCK FALSE
