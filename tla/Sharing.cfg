CONSTANTS
    Owner = o
    Others = {a}
    Shares = {s1}
    Threads = {r1, r2}
    MaxReads = 1
    MaxFresh = 3
    MaxCalls = 2
SPECIFICATION Spec
SYMMETRY MCSymmetry
INVARIANTS
    ViewsWithinLimit
    ReadableByMembers
    CompletedWasAccepted
PROPERTIES
    RevokedIsGone
    SharedEditsKept
CHECK_DEADLOCK FALSE
