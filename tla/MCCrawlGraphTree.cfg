SPECIFICATION Spec
CONSTANTS
  s1 = s1  s2 = s2  u1 = u1  u2 = u2  u3 = u3
  Sender = {s1, s2}
  URL = {u1, u2, u3}
  NameOf <- Paths
  Result <- OneRedirects
  MaxRequests = 2
  MaxQueued = 1
  MaxUpdates = 1
  MaxFailures = 1
  MaxOverlaps = 1
  MaxReloads = 0
  MaxBreaks = 0
SYMMETRY Symmetric
CONSTRAINT FailureOrOverlap
INVARIANTS Rooted NearestAncestor Shown
CHECK_DEADLOCK FALSE
