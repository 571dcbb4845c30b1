SPECIFICATION Spec
CONSTANTS
  Workers = {w1, w2}
  NMap = 1
  NReduce = 2
  Empty = {}
  MaxTimeouts = 1
  MaxCrashes = 0
  MaxFails = 1
INVARIANT NoEarlyExit
CHECK_DEADLOCK FALSE
