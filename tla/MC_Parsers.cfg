SPECIFICATION Spec
CONSTANTS
  ArrayMax = 2
  ParenMax = 2
  TotalMax = 3
  PortNumber <- Ports
  SignatureCodes <- Codes
  MaxSignature = 7
  PathCodes <- PathChars
  MaxPath = 6
  Methods <- SomeMethods
  Pairs <- SomePairs
  MaxPairs = 4
INVARIANTS
  GrammarIsAccepted
  PathIsNames
  
CHECK_DEADLOCK FALSE
