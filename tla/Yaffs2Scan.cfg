CONSTANTS
    NumBlocks = 2
    PagesPerBlock = 4
    Dirs = {5}
    Files = {6}
    MaxWrites = 5
    StaleAt = {2}
    MaxTorn = 1
    SeqMax = 3
    TornParents = {1, 4}
    MaxErrors = 1
    MaxFaulty = 3
    AllocFails = TRUE
SPECIFICATION Spec
CHECK_DEADLOCK FALSE
INVARIANTS
    ScanInv
    FilesAreCurrent
    TreeIsCurrent
