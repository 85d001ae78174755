SPECIFICATION FairSpec
CONSTANTS
    a = a
    b = b
    c = c
    None = None
    Tasks = {a, b, c}
    Workers = {w1}
    DependsOn <- ChainDependsOn
    MaxAttempts <- TwoOneOne
    Rank <- InOrder
    Priorities = {50}
    Unhandled = {}
    MaxQuota = 1
    Crashes = TRUE
    StorageErrors = FALSE
PROPERTIES
    EveryTaskSettles
