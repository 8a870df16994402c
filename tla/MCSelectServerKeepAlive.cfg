SPECIFICATION Spec
CONSTANTS
  MAX_CLIENTS = 1
  NOFILE = 5
  Conns = {c1}
PROPERTY KeepAliveWaits
