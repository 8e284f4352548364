SPECIFICATION FairSpec
CONSTANTS
    Threads = {t1}
    o1 = o1
    o2 = o2
    o3 = o3
    h1 = h1
    h2 = h2
    Objects = {o1, o2}
    Hashes = {h1}
    Compilable = {h1}
    ProgOf <- MCSharedProgOf
    PipeCap = 1
    Faults = {"host"}
    NoObject = NoObject
    NoHash = NoHash
PROPERTY EventuallyNative
