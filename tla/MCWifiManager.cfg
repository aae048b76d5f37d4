SPECIFICATION FairSpec
CONSTANTS
    home1 = home1
    cafe1 = cafe1
    NULL = NULL
    APs = {home1, cafe1}
    SsidOf <- MCSsidOf
    Ssids = {"home", "cafe", "park"}
    NoSsid = "none"
    Passwords = {"secret", "beans"}
    Names = {"www"}
    DottedQuads = {}
    AddressOf <- MCAddressOf
    NoPassword = ""
    Secrets <- MCSecrets
    Attempts = 2
INVARIANTS
    RequestOnListedNetwork
    JoinOnlyWhenDown
PROPERTIES
    EveryNetworkTried
    ConnectEnds
