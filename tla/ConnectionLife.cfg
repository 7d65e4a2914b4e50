SPECIFICATION FairSpec
CONSTANTS
  Reply = {r1, r2}
  Timed = {r1}
  Invalid = {r2}
  WithFds = {r1}
  MaxSerial = 3
  None = None
INVARIANTS
  SentInOrder
  FrontIsStarted
  RecordsMatchReplies
PROPERTIES
  ConnectingEnds
CHECK_DEADLOCK FALSE
