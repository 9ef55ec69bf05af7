\* three tasks, two workers, two clients, one restart, one failing database
\* call; a clock of two seconds
CONSTANTS
  Task = {t1, t2, t3}
  Worker = {w1, w2}
  Client = {c1, c2}
  NoTask = NoTask
  ClockLimit = 1
  RestartLimit = 1
  FaultLimit = 1
SPECIFICATION FairSpec
INVARIANTS TypeOK ClaimsSound
PROPERTIES NoOvertaking ImplementsLifecycle Progress
\* the clock, the ids and the restarts are bounded: the model may stop
CHECK_DEADLOCK FALSE
