SPECIFICATION TransferSpec
CONSTANTS
    Buf = 63
    Cap = 17
    Rec = 16
    Extra = 1
    PeerRec = 16
    Hs = 0
    HsOut = 2
    Received = {0}
    Messages = {1, 63}
    MaxWire = 0
    MaxSent = 280
    Callers = {"looking"}
INVARIANT NothingHeldBack
CHECK_DEADLOCK FALSE
