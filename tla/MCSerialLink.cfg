SPECIFICATION Spec
CONSTANTS
    Packets <- MCPackets
    CmdLen <- MCCmdLen
    BufferSize = 4
    Uninit = {0, 1, 64}
    LengthTimely = TRUE
    Restarts = TRUE
    CutShort = FALSE
    MaxSends = 3
INVARIANTS
    TypeOK
    HandsOffRequests
    ReplyIsOwn
PROPERTIES
    Answered
