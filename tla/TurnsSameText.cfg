CONSTANTS
  a1 = a1
  a2 = a2
  a3 = a3
  b1 = b1
  c1 = c1
  a = a
  b = b
  c = c
  Calls = {a1, a2, a3, b1, c1}
  Requests = {a, b, c}
  RequestOf <- CallsOf
  Texts = {"hello", "thanks", "continue", "/refresh", "/compact"}
  TextOf <- SameTexts
  Compacts = {c}
  Refreshes = {}
  CacheLimit = 3
  Overlap = FALSE
  Faults = {}
SPECIFICATION Spec
CHECK_DEADLOCK FALSE
INVARIANTS
  StartedMeansPersisted
