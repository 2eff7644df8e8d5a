SPECIFICATION LiveSpec
CONSTANTS
    pos = pos
    s1 = s1
    s2 = s2
    Type <- MCType
    Sender <- MCSender
    Message <- MCMessage
    RRLength = 1
    Handlers <- MCHandlers
    Repetitions <- MCRepetitions
    MaxLoss = 1
INVARIANTS TypeOK DeliveredOnce
PROPERTY HeardDespiteLoss
CHECK_DEADLOCK FALSE
