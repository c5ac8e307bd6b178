SPECIFICATION FairSpec
CONSTANTS
  Items = {i1}
  Titles = {t, u}
  Texts = {a, b}
  t = t
  u = u
  a = a
  b = b
  Bodies <- OneFieldBodies
  Reqs = {q1, q2}
  None = None
  MaxFaults = 1
INVARIANTS
  PointFollowsRow
  BackfillRepairs
PROPERTIES
  EveryRequestEnds
CHECK_DEADLOCK FALSE
