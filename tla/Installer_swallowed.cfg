\* a crash, after a first installation too
CONSTANTS
  Payload = {p1}
  Proc = {1, 2}
  NoProc = NoProc
  NoPayload = NoPayload
  FirstPayload = p1
  PublishLimit = 0
  BuildLimit = 0
  CrashLimit = 1
  FaultLimit = 0
  StartLimit = 0
  RelaunchLimit = 0
  TroubleLimit = 1
SPECIFICATION Spec
PROPERTIES CrashesAreNotStops
\* the installer may be told to stop, and everything is bounded
CHECK_DEADLOCK FALSE
