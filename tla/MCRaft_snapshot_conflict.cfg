SPECIFICATION Spec
CONSTANTS
    Node = {n1, n2, n3}
    Command = {c1, c2}
    None = None
    SnapshotInterval = 2
    Timely = TRUE
    MaxTerm = 2
    VoteFanout = 1
    Contender = {n1, n2}
    MaxAppendCalls = 2
    Stoppable = {}
SYMMETRY ContenderSymmetry
CHECK_DEADLOCK FALSE
INVARIANTS
    EntryKeepsIndex
