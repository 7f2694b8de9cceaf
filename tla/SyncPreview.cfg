CONSTANTS
    S = {s1, s2}
    Content = {c1, c2, c3}
    None = None
    IdempotentCreate = {}
    DeleteConfirm = {s1, s2}
    AbsenceIsDelete = {}
    Choices = {"local", "remote", "merge"}
    MayDelete = TRUE
    MaxEdits = 1
    MaxRemoteEdits = 1
    MaxFailures = 1
    MaxEvents = 2
    Plans <- Both
    MaxPreviews = 1
SPECIFICATION PreviewSpec
SYMMETRY Symmetry
INVARIANTS
    CleanMeansSynced
    NoDuplicateCreate
PROPERTIES
    PurgedIsGone
    PullKeepsEdits
    ShownIsReplaced
CHECK_DEADLOCK FALSE
