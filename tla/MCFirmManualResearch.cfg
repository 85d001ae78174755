CONSTANTS
    NormalWorkers = 1
    HeavyWorkers = 4
    Cutoff = 15
    Validation = 14
    Opening = 16
    BacktestStart = 16
    HeavyStart = 8
    HeavyEnd = 16
    LabStart = 20
    LabEnd = 8
SPECIFICATION Spec
INVARIANT ManualResearchRuns
