SPECIFICATION LiveSpec
CONSTANTS
    Num <- MCNum
    Name <- MCName
    Files <- MCFiles
    Modes = {"preload", "accumulate", "neither"}
    Limits = {0, 1}
    MaxElapsed = 2
    MaxCalls = 3
    MaxWait = 3
INVARIANTS TypeOK ListFollowsFile NamesKept
PROPERTIES QueryKeepsPlace PlaysOut
CHECK_DEADLOCK FALSE
