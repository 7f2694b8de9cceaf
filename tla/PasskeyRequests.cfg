SPECIFICATION Spec
CONSTANTS
    Tokens = {t1, t2}
    Vaults = {v1}
    MaxEpoch = 1
    None = None
    Browsers = {b1}
    Ids = {i1}
    Approvals = {a1, a2}
    MaxRequests = 1
    MaxAttempts = 2
    MaxBegins = 2
    MaxEdits = 1
SYMMETRY Symmetry
INVARIANTS
    ApprovedOnce
    ResultNeedsSession
    NoEditLost
    LockoutHolds
PROPERTIES
    NoApprovalAfterEnd
CHECK_DEADLOCK FALSE
