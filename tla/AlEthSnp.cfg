CONSTANTS
    RingSize = 4
    Reserve = 2
    NumRx = 1
    Pages = {p1, p2}
    NoPage = NoPage
    TxBufs = {b1, b2}
    NoBuf = NoBuf
    Addrs = {a1, a2}
    NoAddr = NoAddr
    BoardMac = NoAddr
    StopWhileUp = FALSE
SPECIFICATION FairSpec
CHECK_DEADLOCK FALSE
INVARIANTS
    NoDmaToFreed
    QuietWhenGone
    EcHoldsCurrentAddress
    PromiscuousFollowsFilters
PROPERTIES
    ReturnedBufferIsQuiet
    TransmitRecovers
