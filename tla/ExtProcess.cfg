SPECIFICATION FairSpec
CONSTANTS
    MaxFds = 5
    FD_CHUNK = 2
    PipeCap = 2
    Faults = {"spawn", "child", "host"}
CHECK_DEADLOCK FALSE
INVARIANTS
    ExecClean
    Framed
PROPERTIES
    ShutdownEnds
    ChildEnds
