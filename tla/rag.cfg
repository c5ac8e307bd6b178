SPECIFICATION Spec
CONSTANTS
  Registered = {"openai", "ollama"}
  NoTask = NoTask
  NoModel = NoModel
  Questions = {1, 2}
  Points = {a, b}
  Rows = {a, c}
  Matches = {a}
  Kinds = {k, l}
  NoKind = NoKind
  PointKind <- MCPointKind
  RowKind <- MCRowKind
  Limit = 2
  Threshold = 2
  MaxText = 2
  None = None
  Later = Later
  a = a
  b = b
  c = c
  k = k
  l = l
INVARIANTS
  TypeOK
  OneVoice
  DoneIsWhole
PROPERTIES
  AgreementFirst
  FilterNarrows
  EveryAnswerEnds
CHECK_DEADLOCK FALSE
