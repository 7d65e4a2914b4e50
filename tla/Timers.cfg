SPECIFICATION Spec
CONSTANTS
  Timer = {t1, t2, t3}
  Repeating = {t1, t2}
  Null = Null
  Intervals = {0, 1}
  MaxSerials = {2, 4}
  MaxTime = 2
INVARIANTS
  TypeOK
  RunningIsQueued
  NoneSkipped
PROPERTIES
  OncePerRun
CHECK_DEADLOCK FALSE
