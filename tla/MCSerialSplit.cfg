SPECIFICATION Spec
CONSTANTS
    Packets <- MCPackets
    CmdLen <- MCCmdLen
    BufferSize = 4
    Uninit = {0, 1, 64}
    LengthTimely = FALSE
    Restarts = FALSE
    CutShort = FALSE
    MaxSends = 3
INVARIANTS
    HandsOffRequests
