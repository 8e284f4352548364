SPECIFICATION FairSpec
CONSTANTS
    MaxFds = 3
    FD_CHUNK = 2
    PipeCap = 2
    Faults = {"child"}
CHECK_DEADLOCK FALSE
PROPERTY InitReturns
