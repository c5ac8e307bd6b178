SPECIFICATION Spec
CONSTANTS
  Runs = {r1, r2}
  Workers = {w1, w2}
  Coros = {c1, c2}
  None = None
INVARIANTS
  OneExecution
  LiveRunsAreFresh
PROPERTIES
  SettledIsFinal
  ScanSelectsOrphans
  ManyWorkersLifecycle
SYMMETRY Symmetry
