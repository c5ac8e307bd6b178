SPECIFICATION Spec
CONSTANTS
  Jobs = {j1, j2}
  Names = {n1, n2}
  Workers = {w1, w2}
  Coros = {c1, c2}
  Asks <- OneColumnAsks
  None = None
  MaxRuns = 1
  DbFails = TRUE
INVARIANTS
  NamesAreUnique
PROPERTIES
  DeletedGetsNoRuns
  UpdatesKeepApart
SYMMETRY Symmetry
