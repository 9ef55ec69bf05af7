\* one worker, a photo and a clip, scanned twice, and a restart
CONSTANTS
  Task = {1,2,3,4,5,6}
  Worker = {w1}
  Share = {s1}
  Path = {"photo","clip"}
  Kind <- KindByName
  NoTask = NoTask
  NoJob = NoJob
  NoRow = NoRow
  FileLimit = 4
  RequestLimit = 2
  RestartLimit = 1
  FaultLimit = 0
SPECIFICATION UnfailingSpec
PROPERTIES PreviewsArrive
INVARIANTS StatusSettles RowsFit
\* tasks, file ids and requests are bounded: the model may stop
CHECK_DEADLOCK FALSE
