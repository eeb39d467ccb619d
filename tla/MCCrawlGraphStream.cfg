SPECIFICATION Spec
CONSTANTS
  s1 = s1  s2 = s2  u1 = u1  u2 = u2  u3 = u3
  Sender = {s1}
  URL = {u1, u2}
  NameOf <- Paths
  Result <- AllSucceed
  MaxRequests = 1
  MaxQueued = 1
  MaxUpdates = 2
  MaxFailures = 0
  MaxOverlaps = 0
  MaxReloads = 2
  MaxBreaks = 2
INVARIANTS TypeOK ViewIsTree FollowsGraph
CHECK_DEADLOCK FALSE
