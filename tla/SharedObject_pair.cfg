SPECIFICATION LiveSpec
CONSTANTS
    a = a
    b = b
    Value <- MCValue
    Default = a
    Objects <- MCObjects
    Policies = {"ACCEPT", "DENY_LOCAL", "CALLBACK"}
    MaxTime = 2
    MaxSets = 2
    MaxRequests = 2
    MaxBreaks = 1
INVARIANTS Converged SameSequence SomeoneSerializes
PROPERTY Settles
CHECK_DEADLOCK FALSE
