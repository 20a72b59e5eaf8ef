CONSTANTS
    Slaves = {s1, s2}
    Packets <- AllPackets
    TxFifo = 2
    MaxRequests = 3
SPECIFICATION FairSpec
INVARIANTS
    SentToItsSlave
    ReadsOwnByte
    SuccessMeansDone
PROPERTIES
    RefinesI2cBus
    LockReleased
    BusFreed
