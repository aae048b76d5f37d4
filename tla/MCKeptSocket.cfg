SPECIFICATION Spec
CONSTANTS
    MaxSockets = 1
    Netconns = {n1}
    Modes = {"TCP"}
    ReadSizes = {}
    MaxRx = 2
    NULL = NULL
    Objects = {o1, o2}
    BufSizes = {0, 1, 3}
    LineEnds = {1, 2}
    KeepsClosed = TRUE
    MaxChunks = 2
INVARIANTS
    FirmwareNeverBlocks
PROPERTIES
    CallsReturn
