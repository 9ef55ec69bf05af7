\* a crash, and a payload published within the two minutes
CONSTANTS
  Payload = {p1, p2}
  Proc = {1, 2, 3}
  NoProc = NoProc
  NoPayload = NoPayload
  FirstPayload = p1
  PublishLimit = 1
  BuildLimit = 1
  CrashLimit = 1
  FaultLimit = 0
  StartLimit = 0
  RelaunchLimit = 0
  TroubleLimit = 1
SPECIFICATION Spec
INVARIANTS OneNode
\* the installer may be told to stop, and everything is bounded
CHECK_DEADLOCK FALSE
