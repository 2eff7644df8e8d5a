SPECIFICATION Spec
CONSTANTS
  c1 = c1
  c2 = c2
  c3 = c3
  s1 = s1
  s2 = s2
  s3 = s3
  s4 = s4
  NoSock = NoSock
  Client = {c1, c2}
  TcpOnly = {c2}
  Sock = {s1, s2, s3}
  MaxEndpoints = 3
  Backlog = 1
  MaxFault = 3
INVARIANTS
  CountAccounts
  FirstLastBracket
  BothTookPart
  NoOrphan
CHECK_DEADLOCK FALSE
