SPECIFICATION Spec
CONSTANTS
  Jobs = {j1}
  Names = {n1}
  Workers = {w1}
  Coros = {c1}
  Asks <- OneColumnAsks
  None = None
  MaxRuns = 1
  DbFails = FALSE
INVARIANTS
  ServingIsStarted
