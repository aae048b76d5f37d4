SPECIFICATION DriverSpec
CONSTANTS
    LongName = 0
    Sockets = {9}
    Ssids <- MCSsids
    Passphrases <- MCPassphrases
    Names <- MCNames
    Chunks <- MCChunks
    Addresses <- MCAddresses
    Ports <- MCPorts
    Sizes = {2, 258}
    Held <- MCHeld
    SendbufSize = 16
    RxSize = 24
    TxSize = 24
INVARIANTS
    HandlerTakesWhatWasMeant
    OutcomeIsAnswer
