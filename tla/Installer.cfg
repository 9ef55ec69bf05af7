\* with and without a payload installed; two publications, the second of which
\* may take the first back, and two troubles: a crash,
\* a failing download, archive or pip, a failing start, or a relaunch for both
CONSTANTS
  Payload = {p1, p2}
  Proc = {1, 2, 3, 4, 5}
  NoProc = NoProc
  NoPayload = NoPayload
  FirstPayload = p1
  PublishLimit = 2
  BuildLimit = 1
  CrashLimit = 1
  FaultLimit = 1
  StartLimit = 1
  RelaunchLimit = 1
  TroubleLimit = 2
SPECIFICATION FairSpec
INVARIANTS TypeOK UpdatesAreClean
PROPERTIES ExitsJudged NodeComesBack PayloadArrives
\* the installer may be told to stop, and everything is bounded
CHECK_DEADLOCK FALSE
