SPECIFICATION FairSpec
CONSTANTS
  Worker = {w1, w2}
  Master = Master
  NoThread = NoThread
  nBatchSize = 2
  MaxSpurious = 1
  MaxBad = 1
  MaxChecks = 4
INVARIANT TodoExact UnusedBetween
PROPERTY Implements
