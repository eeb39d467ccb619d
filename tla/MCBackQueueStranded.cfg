SPECIFICATION FairSpec
CONSTANTS
  t1 = t1  t2 = t2  c1 = c1  c2 = c2  l1 = l1  l2 = l2  l3 = l3
  u1 = u1  u2 = u2  d1 = d1  d2 = d2  b1 = b1
  Task <- TwoTasks
  Cleaner = {c1}
  LockObject = {l1, l2, l3}
  URL = {u1, u2}
  Domain = {d1}
  Bucket = {b1}
  DomainOf <- OneDomain
  BucketOf <- OneBucket
  MaxActiveDomains = 1
  MaxUrlsPerDomain = 2
  EventLimit <- Error
PROPERTY NoneStranded
CHECK_DEADLOCK FALSE
