SPECIFICATION FairSpec
CONSTANTS
  s1 = s1
  s2 = s2
  p1 = p1
  p2 = p2
  Sec <- OneSec
  Reply <- Two
  Owner <- BothOnOne
  Timed = {p1}
  MainHasClient = FALSE
  MaxSpontaneous = 0
INVARIANTS
  TypeOK
  LinksReachLiving
  BreakIsAnnounced
  WaitingIsNotForgotten
  RecordsAreNeeded
  RecordsWait
PROPERTIES
  RepliesEnd
  NameArrives
  LossIsNoticed
  MainCloses
CHECK_DEADLOCK FALSE
