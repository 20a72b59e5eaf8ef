CONSTANTS
    FileSizes = {0, 2, 3, 6, 9}
    Lens = {0, 1, 3, 5, 20}
    HeaderSize = 2
    ContainerHeader = 2
    ObjectHeader = 3
    Outputs = {0, 3, 5, 7, 8, 12}
    MinCapacity = 4
    Packages <- SomePackages
    EhdrSize = 2
    MaxRuns = 3
SPECIFICATION Spec
CHECK_DEADLOCK FALSE
INVARIANTS
    NpkInv
    EntriesTile
    RunsFreeTheirBuffers
    DtbNamesLivePages
