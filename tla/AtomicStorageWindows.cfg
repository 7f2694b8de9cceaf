CONSTANTS
    W = {w1, w2}
    R = {r1}
    Data = {d1, d2, d3}
    Bad = Bad
    Absent = Absent
    NoOwner = NoOwner
    Windows = TRUE
    QuarantineLive = FALSE
    Interference = {}
    MaxInterference = 0
    MaxFailures = 1
SPECIFICATION Spec
SYMMETRY Symmetry
PROPERTIES
    FailClosed
    JournalOutlivesDanger
    ImplementsRegister
CHECK_DEADLOCK FALSE
