SPECIFICATION FairSpec
CONSTANTS
  Peer <- TwoPeers
  MaxRequest = 3
  MaxLoss = 0
INVARIANTS
  MutualExclusion
  OwnerIsKnown
  HeldBySomeone
PROPERTIES
  HeldUntilRelease
CHECK_DEADLOCK FALSE
