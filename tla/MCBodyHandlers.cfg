CONSTANTS
  StreamLen = 4
  BufSize = 2
  MaxRead = 3
  Chains <- ShortChains
SPECIFICATION Spec
CHECK_DEADLOCK FALSE
INVARIANT TypeOK
INVARIANT WholeBody
INVARIANT PanicsOnlyIf
INVARIANT OriginReleased
