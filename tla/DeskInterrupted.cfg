CONSTANTS
  p1 = p1
  p2 = p2
  g1 = g1
  g2 = g2
  g3 = g3
  small = small
  medium = medium
  pack = pack
  Menus = {p1, p2}
  Hosts = {g1, g2, g3}
  Profiles = {small, medium}
  First = small
  Pack = pack
  MaxSetups = 3
  MaxTokens = 2
  MaxFaults = 2
  Plans <- SomePlans
SPECIFICATION Spec
SYMMETRY Alike
CHECK_DEADLOCK FALSE
INVARIANTS
  WorkingModelIntact
