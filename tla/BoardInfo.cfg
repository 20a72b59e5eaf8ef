SPECIFICATION InfoSpec
CHECK_DEADLOCK FALSE
CONSTANTS
    Size = 6
    HeaderSize = 2
    Cells <- SomeCells
    NAME_MAX = 2
    SERIAL_MAX = 2
    MacSize = 2
    DefaultName <- AName
    DefaultSerial <- ASerial
    DefaultMac <- AMac
INVARIANTS
    AreaSafe
    SaysTheLast
