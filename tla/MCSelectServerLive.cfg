SPECIFICATION Spec
CONSTANTS
  MAX_CLIENTS = 2
  NOFILE = 6
  Conns = {c1, c2}
PROPERTY ReadableServed
