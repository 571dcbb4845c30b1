SPECIFICATION Spec
CONSTANTS
  Clients = {c1, c2}
  MaxRounds = 2
  MaxLoss = 2
INVARIANT TypeOK
INVARIANT MutualExclusion
INVARIANT NoTestFailure
INVARIANT PutResultTruthful
PROPERTY AllRoundsFinish
CHECK_DEADLOCK FALSE
