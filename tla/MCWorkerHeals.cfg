SPECIFICATION FairSpec
CONSTANTS
  Worker <- TwoWorkers
  BucketCount = 1
  MaxBucketMoves = 1
  EventLimit <- Stall
INVARIANT RecordsWellFormed
PROPERTY Heals
CHECK_DEADLOCK FALSE
