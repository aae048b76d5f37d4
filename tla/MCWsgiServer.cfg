SPECIFICATION FairSpec
CONSTANTS
    Slots = {0, 1, 2}
    Requests <- Mixed
    Patient = FALSE
    OwnSockets = TRUE
INVARIANTS
    TypeOK
    AnsweredOnce
    ServerKept
PROPERTIES
    PollReturns
    ServerProgress
CHECK_DEADLOCK FALSE
