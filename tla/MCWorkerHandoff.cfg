SPECIFICATION Spec
CONSTANTS
  Worker <- TwoWorkers
  BucketCount = 1
  MaxBucketMoves = 1
  EventLimit <- StopCrashError
INVARIANTS TypeOK IndInv
PROPERTIES YieldedByOwner ImplementsOwnership
CHECK_DEADLOCK FALSE
