SPECIFICATION FairSpec
CONSTANTS
  Worker <- TwoWorkers
  BucketCount = 2
  MaxBucketMoves = 1
  EventLimit <- OneCrash
PROPERTY Settles
CHECK_DEADLOCK FALSE
