SPECIFICATION Spec
CONSTANTS
    Slots = {0, 1}
    Requests <- Plain
    Patient = TRUE
    OwnSockets = TRUE
INVARIANTS
    OnlyRequestsServed
