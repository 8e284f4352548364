SPECIFICATION Spec
CONSTANTS
    Threads = {t1}
    o1 = o1
    o2 = o2
    o3 = o3
    h1 = h1
    h2 = h2
    Objects = {o1, o2, o3}
    Hashes = {h1, h2}
    Compilable = {h1, h2}
    ProgOf <- MCProgOf
    PipeCap = 2
    Faults = {"host", "jitcomp", "disk"}
    NoObject = NoObject
    NoHash = NoHash
INVARIANTS
    CompilesWholePrograms
