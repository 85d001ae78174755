CONSTANTS
    Height = 3
    Target = 2
    AcceptPercent = 50
    Window = 2
    Profits <- WinOrLose
    MaxTrades = 3
SPECIFICATION Spec
INVARIANTS TypeOK LadderHasNoGaps RungBelowStands
PROPERTY AuthorityIsEarned
