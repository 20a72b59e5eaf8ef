CONSTANTS
    Volumes <- SomeVolumes
    Handles = {"h1", "h2"}
    DataPerPage = 2
    LinkDepth = 3
    Paths <- SomePaths
    Sizes = {0, 1, 3, 8}
    Positions = {0, 1, 4, 9}
SPECIFICATION FileSpec
INVARIANTS
    FileInv
    EnumerationComplete
    ListedIsOpened
