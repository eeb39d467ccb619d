SPECIFICATION Spec
CONSTANTS
  t1 = t1  t2 = t2  c1 = c1  c2 = c2  l1 = l1  l2 = l2  l3 = l3
  u1 = u1  u2 = u2  d1 = d1  d2 = d2  b1 = b1
  Task <- TwoTasks
  Cleaner = {c1}
  LockObject = {l1, l2, l3}
  URL = {u1, u2}
  Domain = {d1, d2}
  Bucket = {b1}
  DomainOf <- TwoDomains
  BucketOf <- OneBucket
  MaxActiveDomains = 1
  MaxUrlsPerDomain = 1
  EventLimit <- Assign
INVARIANTS ScanSafe CountsExact AttestedStaysEmpty
SYMMETRY Symmetric
CHECK_DEADLOCK FALSE
