SPECIFICATION Spec
CONSTANTS
  ArrayMax = 2
  ParenMax = 2
  TotalMax = 3
  MaxSignatureLength = 14
  MaxArrayLength = 20
  MaxMessageLength = 60
  InitialDataCapacity = 32
  SignatureReservedSpace = 16
  LargestSize = 2
  LargestChar = 7
  SignExtension = 1024
  Scripts <- SomeScripts
INVARIANTS
  WritesStayInBuffer
  ClosedIsClean
  RoundTrip
  CopyIsFaithful
PROPERTY SkippingIsReading
CHECK_DEADLOCK FALSE
