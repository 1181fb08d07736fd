SPECIFICATION FairSpec
CONSTANTS
    Node = {n1, n2, n3}
    Command = {c1, c2}
    None = None
    SnapshotInterval = 9
    Timely = TRUE
    MaxTerm = 1
    VoteFanout = 1
    Contender = {n1}
    MaxAppendCalls = 1
    Stoppable = {}

CHECK_DEADLOCK FALSE
PROPERTIES
    SubmittedIsApplied
