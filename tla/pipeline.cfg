SPECIFICATION Spec
CONSTANTS
  Execs = {e1, e2}
  First = e1
  MaxAttempts = 2
  Chats = {c1, c2}
  Unsure <- UnsureAnalyst
  Credentials <- AllOrNothing
  None = None
SYMMETRY ChatSymmetry
INVARIANTS
  DigestIsOwn
  CompletedIsWhole
  SentIsSent
  ChannelsAreIndependent
CHECK_DEADLOCK FALSE
