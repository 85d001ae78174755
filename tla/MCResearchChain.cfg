SPECIFICATION FairSpec
CONSTANTS
    a = a
    b = b
    c = c
    None = None
    Tasks = {a, b, c}
    Workers = {w1, w2}
    DependsOn <- ChainDependsOn
    MaxAttempts <- TwoOneOne
    Rank <- InOrder
    Priorities = {50}
    Unhandled = {c}
    MaxQuota = 2
    Crashes = FALSE
    StorageErrors = FALSE
INVARIANTS
    RunningHasWorker
PROPERTIES
    EveryTaskSettles
