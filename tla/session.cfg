SPECIFICATION Spec
CONSTANTS
  Tabs = {t1, t2}
  Reqs = {q1, q2}
  Slots = {h1, h2}
  None = None
  Endpoints = {"login", "refresh", "logout"}
  MaxTokens = 3
  MaxFaults = 1
INVARIANTS
  GateIsHonest
  CookieIsLive
SYMMETRY Symmetry
