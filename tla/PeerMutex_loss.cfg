SPECIFICATION FairSpec
CONSTANTS
  Peer <- ThreePeers
  MaxRequest = 1
  MaxLoss = 1
INVARIANTS
  ExclusionUntilLoss
  TakenOnce
PROPERTIES
  EveryRequestEnds
CHECK_DEADLOCK FALSE
