CONSTANTS
  Loops <- BothLoops
  MaxReqs = 2
  MaxReads = 2
  BufSize = 2
SPECIFICATION Spec
CHECK_DEADLOCK FALSE
INVARIANT InSync
INVARIANT RepliesDecode
 
PROPERTY LoopReturns
