SPECIFICATION TransferSpec
CONSTANTS
    Buf = 63
    Cap = 17
    Rec = 16
    Extra = 1
    PeerRec = 1
    Hs = 0
    HsOut = 2
    Received = {0, 1, 6}
    Messages = {1}
    MaxWire = 20
    MaxSent = 0
    Callers = {"looking"}
INVARIANT AllProcessed
CHECK_DEADLOCK FALSE
