SPECIFICATION FairSpec
CONSTANTS
    p1 = p1
    p2 = p2
    p3 = p3
    Participant = {p1, p2, p3}
    Operations <- OneEach
    Thread = {t1}
    Executed = TRUE
    Failing <- AllButOne
CHECK_DEADLOCK FALSE
INVARIANTS
    Atomicity
    FinalStateIsTrue
PROPERTIES
    IsAtomicCommit
    PreparedIsSettled
