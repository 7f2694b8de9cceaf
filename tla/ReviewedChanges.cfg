CONSTANTS
    Tokens = {t1, t2}
    Instance = instance
    Requests = {r1, r2}
    Entries = {1, 2}
    Stored = {1}
    Saves = {x1}
    MaxFresh = 5
    MaxRequests = 2
SPECIFICATION Spec
SYMMETRY MCSymmetry
INVARIANTS
    RefusedStaysOut
PROPERTIES
    EditsKept
    AppliedAsShown
    CleanupAsShown
CHECK_DEADLOCK FALSE
