SPECIFICATION Spec
CONSTANTS
    MaxSockets = 1
    Netconns = {n1}
    Modes = {"TCP"}
    ReadSizes = {}
    MaxRx = 2
    NULL = NULL
    Objects = {o1}
    BufSizes = {1}
    LineEnds = {2}
    KeepsClosed = FALSE
    MaxChunks = 1
PROPERTIES
    ConnectedIsTrue
