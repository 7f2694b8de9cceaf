CONSTANTS
    D = {1, 2}
    O = {1}
    F = {f1}
    V = {v1, v2, v3}
    States = {"active", "deleted"}
    None = None
    Holders = {1}
    Resolvers = {1}
    MaxEdits = 3
    MaxResolves = 0
    MaxSeq <- ThreeFour
SPECIFICATION Spec
SYMMETRY Symmetry
INVARIANTS
    NothingLost
    AckTruthful
    Converged
PROPERTIES
    EditsNotOverwritten
CHECK_DEADLOCK FALSE
