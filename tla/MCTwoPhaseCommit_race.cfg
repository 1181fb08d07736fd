SPECIFICATION Spec
CONSTANTS
    p1 = p1
    p2 = p2
    p3 = p3
    Participant = {p1, p2, p3}
    Operations <- Pair
    Thread = {t1, t2}
    Executed = FALSE
    Failing = {}
ACTION_CONSTRAINT AbortsComeLate
CHECK_DEADLOCK FALSE
INVARIANTS
    Atomicity
