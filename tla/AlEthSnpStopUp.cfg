CONSTANTS
    RingSize = 4
    Reserve = 2
    NumRx = 1
    Pages = {p1, p2, p3}
    NoPage = NoPage
    TxBufs = {b1, b2}
    NoBuf = NoBuf
    Addrs = {a1}
    NoAddr = NoAddr
    BoardMac = a1
    StopWhileUp = TRUE
SPECIFICATION Spec
CHECK_DEADLOCK FALSE
INVARIANT QuietWhenGone
