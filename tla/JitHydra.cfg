SPECIFICATION FairSpec
CONSTANTS
    Threads = {t1, t2}
    o1 = o1
    o2 = o2
    o3 = o3
    h1 = h1
    h2 = h2
    Objects = {o1, o2}
    Hashes = {h1}
    Compilable = {h1}
    ProgOf <- MCSharedProgOf
    PipeCap = 1
    Faults = {"host", "jitcomp", "disk"}
    NoObject = NoObject
    NoHash = NoHash
INVARIANTS
    RefCountsExact
    PointersValid
    CodeInUseMapped
PROPERTIES
    KeepsPromise
    CallsReturn
    EventuallyForgotten
CHECK_DEADLOCK FALSE
