\* One response of each format, broken off or cancelled anywhere.
SPECIFICATION Spec
CONSTANTS
  Providers <- FourProviders
  FormatOf <- FourFormats
  Prompts <- ThreePrompts
  ChanCap = 1
  MaxText = 1
  MaxCalls = 2
  Parts = 2
INVARIANTS
  TypeOK
  FailoverInOrder
  WirePaired
  CallsWhole
  UsageCountedOnce
  BreakIsReported
CHECK_DEADLOCK FALSE
PROPERTIES
  ReplySafety
  StreamReleased
