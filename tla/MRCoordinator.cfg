SPECIFICATION Spec
CONSTANTS
  Workers = {w1, w2, w3}
  NMap = 2
  NReduce = 2
  Empty = {}
  MaxTimeouts = 2
  MaxCrashes = 1
  MaxFails = 0
INVARIANT TypeOK
INVARIANT NoEarlyExit
PROPERTY JobCompletes
CHECK_DEADLOCK FALSE
