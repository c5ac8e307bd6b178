SPECIFICATION FairSpec
CONSTANTS
  Runs = {r1}
  Workers = {w1}
  Coros = {c1, c2, c3}
  None = None
INVARIANTS
  InterruptedIsIdle
  RowCoherent
PROPERTIES
  OneWorkerLifecycle
  EveryCoroutineEnds
