SPECIFICATION FairSpec
CONSTANTS
    n0 = n0
    n1 = n1
    n2 = n2
    n3 = n3
    Node = {n0, n1, n2, n3}
    NodeAt <- Four
    Byzantine = {n3}
    Lies = {"view-change"}
    Request = {a}
    Clients = {n1}
    Suspects = {n1, n2}
    MaxView = 1
    MaxSeq = 1
CHECK_DEADLOCK FALSE
INVARIANTS
    ViewsAreAskedFor
PROPERTIES
    RequestsAreExecuted
