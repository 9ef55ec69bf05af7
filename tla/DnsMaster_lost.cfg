\* two users claim at once
CONSTANTS
  User = {u1, u2}
  Addr = {a1}
  Req = {r1, r2}
  Hosted = Hosted
  None = None
  Other = {apex}
  MaxHosts = 3
  Mixed = Mixed
  Absent = Absent
  MoveLimit = 2
  UpsetLimit = 0
SPECIFICATION Spec
PROPERTY OthersKept
