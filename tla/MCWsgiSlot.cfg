SPECIFICATION Spec
CONSTANTS
    Slots = {0, 1, 2}
    Requests <- Plain
    Patient = TRUE
    OwnSockets = FALSE
PROPERTIES
    ClientIsClient
