SPECIFICATION Spec
CONSTANTS
    a = a
    b = b
    c = c
    None = None
    Tasks = {a, b, c}
    Workers = {w1, w2}
    DependsOn <- JoinDependsOn
    MaxAttempts <- TwoOneOne
    Rank <- InOrder
    Priorities = {50, 90}
    Unhandled = {}
    MaxQuota = 1
    Crashes = TRUE
    StorageErrors = TRUE
INVARIANTS
    TypeOK
    ExclusiveOwner
    InputsReady
    SettledHasReason
PROPERTIES
    ImplementsLifecycle
