SPECIFICATION FairSpec
CONSTANTS
  Ends = {main, secondary}
  MaxCalls = 3
INVARIANTS
  CallExclusion
  NoCallIntoDestroyed
  UnlockFindsLocked
  UnlinkerSparesDeadPeer
PROPERTIES
  OperationsEnd
  ImplementsGate
CHECK_DEADLOCK FALSE
