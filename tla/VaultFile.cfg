CONSTANTS
    P = {p1, p2}
    MaxFresh = 4
    MaxOps = 4
    MaxRestores = 1
    KeyringFails = TRUE
    LateFailure = TRUE
SPECIFICATION Spec
SYMMETRY Symmetry
INVARIANTS
    NoFalseAlarm
    EnabledOpens
    WithdrawnIsLockedOut
CHECK_DEADLOCK FALSE
