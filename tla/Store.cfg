CONSTANTS
  Hosts = {h1, h2, h3}
  MaxFaults = 2
SPECIFICATION Spec
SYMMETRY Symmetry
INVARIANTS
  TypeOK
  AcknowledgedSurvive
PROPERTIES
  DamageCostsOneSave
CHECK_DEADLOCK FALSE
