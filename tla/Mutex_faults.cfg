SPECIFICATION Spec
CONSTANTS
  r1 = r1
  r2 = r2
  NoOne = NoOne
  Lost = Lost
  Remote = {r1, r2}
  Process = {r1, r2}
  procOf <- OwnProcess
  MaxSession = 2
  MaxRequest = 2
  MaxFault = 1
INVARIANTS
  MutualExclusion
  FreeMeansUnclaimed
  UniqueIndexWhileKept
PROPERTIES
  ImplementsLock
SYMMETRY Symmetry
CHECK_DEADLOCK FALSE
