CONSTANTS
    Wrap64 = 32
    Wrap32 = 16
    FlashSize = 8
    FlashOffset = 4
    MaxImage = 4
    PhdrSize = 1
    PhdrLimit = 2
    ReservedBase = 9
    ReservedTop = 12
    ReadSize = 2
    CacheLineBytes = 2
    RamTop = 20
    Phdrs <- SomePhdrs
    Phoffs = {1, 3, 31}
SPECIFICATION Spec
CHECK_DEADLOCK FALSE
INVARIANTS
    LoaderInv
    ReadsStayInImage
    ImagePlaced
