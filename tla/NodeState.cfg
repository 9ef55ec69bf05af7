\* one request thread: a port request or a turn of the master or of the token,
\* and a sign-in or a new address; a failure or a restart
CONSTANTS
  Wan = {w1, w2}
  Port = {p0, p1}
  User = {u1}
  ListenPort = p0
  FirstWan = w1
  Main = main
  Prober = prober
  Loop = loop
  Claimer = {c1}
  Req = {r1}
  None = None
  TryLimit = 1
  MeetLimit = 2
  DueLimit = 1
  RequestLimit = 1
  FaultLimit = 1
  ChangeLimit = 1
SPECIFICATION FairSpec
INVARIANTS TypeOK QuietStateTells RemapCleansUp
PROPERTIES ClaimSettles
\* without a sign-in the claim loop has nothing to do: the model may stop
CHECK_DEADLOCK FALSE
