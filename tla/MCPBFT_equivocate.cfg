SPECIFICATION Spec
CONSTANTS
    n0 = n0
    n1 = n1
    n2 = n2
    n3 = n3
    Node = {n0, n1, n2, n3}
    NodeAt <- Four
    Byzantine = {n0}
    Lies = {"pre-prepare", "commit"}
    Request = {a, b}
    Clients = {}
    Suspects = {}
    MaxView = 0
    MaxSeq = 1
SYMMETRY Backups
CHECK_DEADLOCK FALSE
INVARIANTS
    AgreementInView
    ExecutedIsBacked
