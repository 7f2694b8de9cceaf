CONSTANTS
    D = {1, 2}
    O = {1}
    F = {f1}
    V = {v1, v2}
    States = {"active", "deleted"}
    None = None
    Holders = {1, 2}
    Resolvers = {1}
    MaxEdits = 2
    MaxResolves = 1
    MaxSeq <- FourThree
SPECIFICATION Spec
SYMMETRY Symmetry
PROPERTIES
    ConflictsStay
    NoRevival
CHECK_DEADLOCK FALSE
