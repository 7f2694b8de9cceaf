CONSTANTS
    W = {w1}
    R = {r1}
    Data = {d1, d2}
    Bad = Bad
    Absent = Absent
    NoOwner = NoOwner
    Windows = FALSE
    QuarantineLive = TRUE
    Interference = {Bad}
    MaxInterference = 1
    MaxFailures = 0
SPECIFICATION Spec
SYMMETRY Symmetry
PROPERTIES
    NeverTorn
CHECK_DEADLOCK FALSE
