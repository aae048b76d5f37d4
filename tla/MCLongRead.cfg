SPECIFICATION DriverSpec
CONSTANTS
    LongName = 0
    Sockets = {9}
    Ssids <- MCSsids
    Passphrases <- MCPassphrases
    Names <- MCNames
    Chunks <- MCChunks
    Addresses <- MCAddresses
    Ports <- MCPorts
    Sizes = {2, 300}
    Held <- MCHeldLong
    SendbufSize = 256
    RxSize = 256
    TxSize = 256
INVARIANTS
    ReplyFits
