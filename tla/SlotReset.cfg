SPECIFICATION SlotSpec
CONSTANTS
    o1 = o1
    o2 = o2
    s1 = s1
    s2 = s2
    p1 = p1
    p2 = p2
    Objects = {o1}
    Sessions = {s1, s2}
    Patterns = {p1, p2}
    NoSession = NoSession
    NoPattern = NoPattern
    Events = {}
INVARIANT ResetWhenUnmarked
