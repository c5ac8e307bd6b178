SPECIFICATION FairSpec
CONSTANTS
  Execs = {e1, e2, e3}
  Contents = {h}
  Scores = {0, 1}
  None = None
  MaxFaults = 1
INVARIANTS
  CacheIsBacked
  OnlyMishapsStrand
PROPERTIES
  EveryEvaluationEnds
CHECK_DEADLOCK FALSE
