SPECIFICATION Spec
CONSTANTS
    Throttles <- MCThrottles
    DropMod = 2
    MaxFrames = 3
    MaxSkip = 1
    MaxConns = 2
    MaxRequests = 2
CHECK_DEADLOCK FALSE
INVARIANTS FramesCounted FramesWhole CreditsKept StatusHonest
