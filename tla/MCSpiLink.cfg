SPECIFICATION Spec
CONSTANTS
    Packets <- Kinds
    Left = {0}
    Handled <- Codes
    RxSize = 16
    MaxLost = 3
INVARIANTS
    HandsOff
    OutcomeIsOwn
PROPERTIES
    CommandEnds
