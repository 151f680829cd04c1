CONSTANTS
  Hosts = {h1, h2, h3}
  MaxFaults = 1
SPECIFICATION Spec
SYMMETRY Symmetry
INVARIANTS
  AlwaysStartable
