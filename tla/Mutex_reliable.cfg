SPECIFICATION ReliableSpec
CONSTANTS
  r1 = r1
  r2 = r2
  NoOne = NoOne
  Lost = Lost
  Remote = {r1, r2}
  Process = {r1, r2}
  procOf <- OwnProcess
  MaxSession = 1
  MaxRequest = 2
  MaxFault = 0
INVARIANTS
  FreeIsKnown
PROPERTIES
  Answered
CHECK_DEADLOCK FALSE
