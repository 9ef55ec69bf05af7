\* two workers, one share with a photo, two requests, a restart and a failing
\* statement; three connections; two images of one stem, two makers, two
\* changes, a failure or restart
CONSTANTS
  Task = {1,2,3,4}
  Worker = {w1,w2}
  Share = {s1}
  Path = {"photo"}
  Kind <- KindByName
  NoTask = NoTask
  NoJob = NoJob
  NoRow = NoRow
  FileLimit = 2
  RequestLimit = 2
  RestartLimit = 1
  FaultLimit = 1
  Connection = {c1, c2, c3}
  Nobody = Nobody
  Image = {jpg, png}
  Maker = {m1, m2}
  NoPoster = NoPoster
  Empty = Empty
  Mixed = Mixed
  NoImage = NoImage
  DueLimit = 1
  EditLimit = 2
  TroubleLimit = 1
SYMMETRY AllSymmetric
SPECIFICATION IndexSpec
INVARIANTS IndexTypeOK NoMediaForgotten SharesAttended
INVARIANTS HarmHasCause PosterIsCurrent
PROPERTIES MisreadNeverWritten
\* tasks, file ids and requests are bounded: the model may stop
CHECK_DEADLOCK FALSE
