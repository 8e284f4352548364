SPECIFICATION KfunsSpec
CONSTANTS
    Size = 3
    MaxOutbufs = 5
    MaxTotal = 20
    UncheckedFail = FALSE
    Buf = 63
    Cap = 17
    Rec = 16
    Extra = 1
    PeerRec = 16
    Hs = 1
    HsOut = 2
    Received = {0, 16, 63}
    Messages = {1, 63}
    MaxWire = 174
    MaxSent = 140
    Callers = {"trusting", "looking"}
    o1 = o1
    o2 = o2
    s1 = s1
    s2 = s2
    p1 = p1
    p2 = p2
    Objects = {o1, o2}
    Sessions = {s1, s2}
    Patterns = {p1, p2}
    NoSession = NoSession
    NoPattern = NoPattern
    Events = {"driver", "destruct", "init", "late", "restart"}
SYMMETRY MCSymmetry
INVARIANTS
    NoMisuse NoLeak ArrayIsOutput CallsSound NothingLeft Genuine Reversed
    GotIsDecrypted SentIsProduced
    SessionsLive SessionsReachable StateRestorable MatchesAsked
PROPERTY LeftOnlyIfFull
CHECK_DEADLOCK FALSE
