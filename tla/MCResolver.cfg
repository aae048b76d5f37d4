SPECIFICATION Spec
CONSTANTS
    home1 = home1
    home2 = home2
    cafe1 = cafe1
    NULL = NULL
    APs = {home1, home2, cafe1}
    SsidOf <- MCSsidOf
    Ssids = {"home", "cafe", ""}
    NoSsid = ""
    Passwords = {"secret"}
    Names = {"www", "10.0.0.1"}
    DottedQuads = {"10.0.0.1"}
    AddressOf <- MCAddressOf
INVARIANTS
    ResolvedIsAsked
