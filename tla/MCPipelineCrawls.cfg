SPECIFICATION FairSpec
CONSTANTS
  t1 = t1  t2 = t2  u1 = u1  u2 = u2  u3 = u3
  Task = {t1, t2}
  URL = {u1, u2, u3}
  Seed = {u1}
  LinksOf <- Links
  Target <- Redirected
  MaxRedirectDepth = 1
  Possible <- Event
  MaxEvents = 1
INVARIANTS TypeOK OneEntry SeenIsKept FinishedOnce
PROPERTIES AttemptsKept OnlyLateProgress Announced Reaches
CHECK_DEADLOCK FALSE
