CONSTANTS
    RingSize = 4
    Reserve = 2
    NumRx = 2
    MaxFrames = 18
    MaxOdd = 5
    Kinds = {"good", "badlen", "error"}
SPECIFICATION FairSpec
INVARIANTS
    NoBufferLost
    SignalIsExact
    CopiesTheFetchedFrame
PROPERTIES
    RefinesFrameQueue
    EventuallyFetched
