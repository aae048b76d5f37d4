SPECIFICATION Spec
CONSTANTS
    Packets <- WithSend
    Left = {0}
    Handled <- Codes
    RxSize = 16
    MaxLost = 1
INVARIANTS
    HandsOffWhatWasSent
