SPECIFICATION FairSpec
CONSTANTS
  Execs = {x1, x2}
  PoolSize = 1
  MaxAttempts = 3
  BaseDelay = 2
  MaxDelay = 3
INVARIANTS
  RetryCountIsExact
  AttemptsDoNotOverlap
PROPERTIES
  PermanentIsLast
  KeepsItsPromise
  EveryExecutionEnds
CHECK_DEADLOCK FALSE
