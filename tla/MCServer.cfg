SPECIFICATION Spec
CONSTANTS
  w1 = w1  w2 = w2  w3 = w3  c1 = c1  c2 = c2  c3 = c3
  CommandLines <- Lines
  MaxAddresses = 2
  PORTS = 65536
  DefaultPort = 9527
  Pids = {w1, w2, w3}
  Limit = 2
  Clients = {c1, c2, c3}
  PerWorker = 2
INVARIANTS TypeOK OneSocketOrNone ListensAsTold TableBeforeListen PortStaysOpen
PROPERTY WaitingServed
CHECK_DEADLOCK FALSE
