CONSTANTS
  Callers = {c1, c2}
  AskIds = {2, 101}
  MayHang = TRUE
  MayDie = TRUE
  MayStop = TRUE
SPECIFICATION FairSpec
CHECK_DEADLOCK FALSE
INVARIANTS
  TypeOK
  ReaderNeverBlocks
  RepliesMatch
  NobodyWaitsForTheDead
  ApprovalsArrive
PROPERTIES
  CallsReturn
