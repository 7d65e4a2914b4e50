SPECIFICATION FairSpec
CONSTANTS
  s1 = s1
  s2 = s2
  p1 = p1
  p2 = p2
  Sec <- OneSec
  Reply <- One
  Owner <- OnlyOne
  Timed = {}
  MainHasClient = FALSE
  MaxSpontaneous = 1
PROPERTIES
  ForwardsToLiving
CHECK_DEADLOCK FALSE
