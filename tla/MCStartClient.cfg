SPECIFICATION Spec
CONSTANTS
    MaxSockets = 2
    Netconns = {n1}
    Modes = {"TCP", "TLS"}
    ReadSizes = {1}
    MaxRx = 1
    home1 = home1
    NULL = NULL
    APs = {home1}
    SsidOf <- MCSsidOf
    Ssids = {"home"}
    NoSsid = ""
    Passwords = {"secret"}
    Names = {"www"}
    DottedQuads = {}
    AddressOf <- MCAddressOf

VIEW WithoutReplies
PROPERTIES
    StartClientTellsOutcome
