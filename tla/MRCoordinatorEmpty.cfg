SPECIFICATION Spec
CONSTANTS
  Workers = {w1, w2}
  NMap = 2
  NReduce = 2
  Empty <- EmptyBucket
  MaxTimeouts = 0
  MaxCrashes = 0
  MaxFails = 0
PROPERTY JobCompletes
CHECK_DEADLOCK FALSE
