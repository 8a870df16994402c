SPECIFICATION Spec
CONSTANTS
  MAX_CLIENTS = 2
  NOFILE = 7
  Conns = {c1, c2, c3}
SYMMETRY Symmetry
INVARIANTS TypeOK TableConsistent MaxFdCovers
PROPERTY ReadinessNotStale
