SPECIFICATION DriverSpec
CONSTANTS
    LongName = 240
    Sockets = {9}
    Ssids <- MCSsids
    Passphrases <- MCPassphrases
    Names <- MCNames
    Chunks <- MCChunks
    Addresses <- MCAddresses
    Ports <- MCPorts
    Sizes = {2, 258}
    Held <- MCHeld
    SendbufSize = 256
    RxSize = 256
    TxSize = 256
INVARIANTS
    EveryCommandFits
