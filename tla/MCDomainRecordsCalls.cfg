SPECIFICATION Spec
CONSTANTS
  t1 = t1  t2 = t2  t3 = t3
  Task = {t1, t2, t3}
  MaxLocks = 2
  LanguageThreshold = 2
  MaxCalls = 5
  MaxErrors = 1
  MaxMisses = 1
SYMMETRY Symmetric
INVARIANTS TypeOK LimitBlocks LanguageBlocks FactsExpire PagesCounted
PROPERTY Readmission
CONSTRAINT OneTrouble
CHECK_DEADLOCK FALSE
