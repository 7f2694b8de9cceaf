CONSTANTS
    S = {s1}
    Content = {c1, c2, c3}
    None = None
    IdempotentCreate = {}
    DeleteConfirm = {s1}
    AbsenceIsDelete = {s1}
    Choices = {"local", "remote", "merge"}
    MayDelete = TRUE
    MaxEdits = 2
    MaxRemoteEdits = 1
    MaxFailures = 2
    MaxEvents = 3
SPECIFICATION FairSpec
PROPERTIES
    PendingClears
CHECK_DEADLOCK FALSE
