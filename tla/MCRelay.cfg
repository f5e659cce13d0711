CONSTANTS
  Modes <- AllModes
  MaxSend <- TwoAndOne
  Room = 1
SPECIFICATION FairSpec
CHECK_DEADLOCK FALSE
INVARIANT TypeOK
PROPERTY ImplementsDuplexStream
PROPERTY EndReachesPeer
PROPERTY TakenDown
PROPERTY CopiesEnd
