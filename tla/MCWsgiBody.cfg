SPECIFICATION Spec
CONSTANTS
    Slots = {0, 1}
    Requests <- Long
    Patient = TRUE
    OwnSockets = FALSE
INVARIANTS
    BodyIsWhole
