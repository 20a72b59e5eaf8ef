SPECIFICATION FormatSpec
CHECK_DEADLOCK FALSE
CONSTANTS
    BlockSize = 512
    Totals <- SomeTotals
    RamTotals <- SomeTotals
    MinRam = 69632
    EntriesBytes = 16384
    RootBytes = 16384
    Rsvd32 = 32
    ClusterBytes = 32768
    MaxShift = 6
    Min16 = 4085
    Max16 = 65524
    Wrap32 = 1073741824
    Wrap64 = 1073741824
INVARIANTS
    LayoutSound
    TablesWhole
    Fat16Agrees
