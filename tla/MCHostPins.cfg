SPECIFICATION PinsSpec
CONSTANTS
    Pins = {p1, p2}
    Digitals = {d1, d2}
    Pwms = {w1}
    Duties = {0, 3}
    Frequencies = {1000}
    Reliable = FALSE
    NULL = NULL
SYMMETRY Symmetries
INVARIANTS
    OutputAsWritten
