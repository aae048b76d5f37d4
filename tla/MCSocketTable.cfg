SPECIFICATION Spec
CONSTANTS
    MaxSockets = 2
    Netconns = {n1, n2}
    Modes = {"TCP", "UDP"}
    ReadSizes = {0, 1, 2}
    MaxRx = 2
    NULL = NULL
SYMMETRY NetconnSymmetry
VIEW WithoutRet
INVARIANTS
    TypeOK
    LiveConnsOwned
    PncNeverDangles
    StateTellsConnect
    HeldDataIsOwn
    DeliveredInOrder
    AnnouncedBytesHeld
    NagleNoteTrue
    UndefinedOnlyAfterFault
PROPERTIES
    FlushReleasesWrites
    ImplementsSocketService
