CONSTANTS
    Tokens = {t1, t2}
    Vaults = {v1, v2}
    MaxEpoch = 2
    Requests = {r1, r2}
    Keys = {k1, k2}
    MaxPending = 1
    MaxDevices = 1
    NoVault = NoVault
SPECIFICATION ConnectSpec
INVARIANTS
    NoUnlockAcrossLock
    OnlyChosenDevices
    ApprovedIsEnrolled
    RefusedIsNotEnrolled
SYMMETRY Symmetry
CHECK_DEADLOCK FALSE
