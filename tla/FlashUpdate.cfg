CONSTANTS
    FlashPages = 12
    SectorPages = 2
    Wrap = 48
    Contents <- AllContents
    Timeouts = TRUE
    Images <- AllImages
    Slots = {4, 8}
    MaxImage = 4
    RawOffsets = {0, 3, 10, 44}
    MaxUpdates = 2
    MaxPowerCuts = 1
SPECIFICATION FairSpec
CHECK_DEADLOCK FALSE
INVARIANTS
    FlashInv
    SuccessMeansFlashed
PROPERTIES
    UpdateEnds
