\* "ready once no media lacks a preview", with two workers
CONSTANTS
  Task = {1,2,3}
  Worker = {w1,w2}
  Share = {s1}
  Path = {"photo","clip"}
  Kind <- KindByName
  NoTask = NoTask
  NoJob = NoJob
  NoRow = NoRow
  FileLimit = 2
  RequestLimit = 2
  RestartLimit = 0
  FaultLimit = 0
SPECIFICATION Spec
SYMMETRY Symmetry
INVARIANTS StatusSettles
\* tasks and requests are bounded: the model may stop
CHECK_DEADLOCK FALSE
