SPECIFICATION Spec
CONSTANTS
  Worker <- TwoWorkers
  BucketCount = 3
  MaxBucketMoves = 1
  EventLimit <- NoEvents
INVARIANTS FreeFirst ExclusiveWork SuccessorWaits
CHECK_DEADLOCK FALSE
