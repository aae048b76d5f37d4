SPECIFICATION Spec
CONSTANTS
    Packets <- MCPackets
    CmdLen <- MCCmdLen
    BufferSize = 4
    Uninit = {0}
    LengthTimely = TRUE
    Restarts = TRUE
    CutShort = TRUE
    MaxSends = 3
PROPERTIES
    Answered
