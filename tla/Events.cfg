CONSTANTS
  h1 = h1
  h2 = h2
  m1 = m1
  m2 = m2
  p1 = p1
  Threads = {h1, h2}
  Models = {m1, m2}
  Approvals = {p1}
  MaxTurns = 2
  Plans <- SomePlans
  MaxOut = 2
  MaxLog = 2
SPECIFICATION Spec
SYMMETRY Alike
CHECK_DEADLOCK FALSE
INVARIANTS
  TypeOK
  TurnsFollowCodex
  ConfirmedSettingsAreCurrent
  ApprovalsAccounted
  PollsMissOnlyRaces
  SpokenTurnsAreShown
