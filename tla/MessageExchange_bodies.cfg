SPECIFICATION FairSpec
CONSTANTS
  MaxMessageLength = 9
  Block = 4
  Capacity = 4
  MaxFds = 1
  Kinds = {"local", "ip"}
  Template <- OneWayTemplates
  Foreign <- OneWayForeign
  Saved <- OneWaySaved
  Arguments_ <- NewArguments
  MaxSend <- OneWayMax
  MaxEdits = 2
INVARIANTS
  BodiesSurvive
CHECK_DEADLOCK FALSE
