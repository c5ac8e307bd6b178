SPECIFICATION Spec
CONSTANTS
  Runs = {r1}
  Workers = {w1}
  Coros = {c1}
  None = None
PROPERTIES
  FailureIsRecorded
