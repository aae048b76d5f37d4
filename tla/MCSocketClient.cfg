SPECIFICATION Spec
CONSTANTS
    MaxSockets = 2
    Netconns = {n1, n2}
    Modes = {"TCP"}
    ReadSizes = {}
    MaxRx = 2
    NULL = NULL
    Objects = {o1, o2}
    BufSizes = {0, 1, 3}
    LineEnds = {1}
    KeepsClosed = FALSE
    MaxChunks = 1
SYMMETRY Symmetries
VIEW WithoutRet
INVARIANTS
    FirmwareNeverBlocks
    SlotsAccounted
    StreamUnbroken
