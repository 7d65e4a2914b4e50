SPECIFICATION FairSpec
CONSTANTS
  Conn = {c1, c2}
  Clients = {c1}
  Waiting = {c2}
  Fd = {1, 2}
  None = None
  MaxEvents = 1
INVARIANTS
  WatchedAsAsked
  NotifiedAsRequested
PROPERTIES
  EveryoneIsServed
CHECK_DEADLOCK FALSE
