CONSTANTS
    P = {p1, p2}
    M = {m1, m2}
    MaxEdits = 1
    MaxStops = 1
    MaxUndo = 1
    NoMigration = NoMigration
SPECIFICATION FairSpec
INVARIANTS
    EvidenceStays
    MigratedCanReturn
PROPERTIES
    Finishes
CHECK_DEADLOCK FALSE
