SPECIFICATION TransferSpec
CONSTANTS
    Buf = 63
    Cap = 17
    Rec = 16
    Extra = 1
    PeerRec = 16
    Hs = 1
    HsOut = 2
    Received = {0, 1, 16, 63}
    Messages = {1}
    MaxWire = 160
    MaxSent = 20
    Callers = {"trusting"}
INVARIANT InSequence
CHECK_DEADLOCK FALSE
