SPECIFICATION FairSpec
CONSTANTS
    Slots = {0, 1, 2}
    Requests <- Plain
    Patient = TRUE
    OwnSockets = FALSE
PROPERTIES
    RequestsServed
