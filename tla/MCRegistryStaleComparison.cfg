SPECIFICATION Spec
CONSTANTS
    None = None
    Strategies = {s1, s2, s3}
    Clients = {p1}
    Founders = {p1}
PROPERTIES
    ComparedWithPredecessor
CHECK_DEADLOCK FALSE
