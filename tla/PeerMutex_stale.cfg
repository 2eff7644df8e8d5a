SPECIFICATION Spec
CONSTANTS
  Peer <- ThreePeers
  MaxRequest = 2
  MaxLoss = 0
INVARIANTS
  MutualExclusion
CHECK_DEADLOCK FALSE
