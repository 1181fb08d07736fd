SPECIFICATION Spec
CONSTANTS
    Node = {n1, n2, n3}
    Command = {}
    None = None
    SnapshotInterval = 9
    Timely = FALSE
    MaxTerm = 2
    VoteFanout = 2
    Contender = {n1, n2, n3}
    MaxAppendCalls = 0
    Stoppable = {}
SYMMETRY Symmetry
CHECK_DEADLOCK FALSE
INVARIANTS
    ElectionSafety
