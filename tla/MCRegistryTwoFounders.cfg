SPECIFICATION Spec
CONSTANTS
    None = None
    Strategies = {s1, s2, s3}
    Clients = {p1, p2}
    Founders = {p1, p2}
INVARIANTS
    AtMostOneChampion
CHECK_DEADLOCK FALSE
