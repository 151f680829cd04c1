CONSTANTS
  h1 = h1
  r1 = r1
  r2 = r2
  r3 = r3
  p1 = p1
  p2 = p2
  Hosts = {h1}
  Requests = {r1, r2, r3}
  HostOf <- MCHostOf
  Replies = {p1, p2}
  ReplyTo <- MCReplyTo
  Shutdown = Shutdown
  QueueLimit = 2
  WaiterLimit = 2
  MayCrash = TRUE
SPECIFICATION FairSpec
INVARIANTS
  TypeOK
  NothingLeaks
  AcceptedReplyFindsRoom
  AnswersMatch
  WithinLimits
PROPERTIES
  NoOvertaking
  ImplementsExchange
  EveryClientFinishes
