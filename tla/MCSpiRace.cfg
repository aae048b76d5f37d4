SPECIFICATION Spec
CONSTANTS
    Packets <- WithAp
    Left = {0}
    Handled <- Codes
    RxSize = 16
    MaxLost = 3
INVARIANTS
    SelectIsForReply
