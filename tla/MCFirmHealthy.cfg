CONSTANTS
    Reports <- FiveReports
    Exits = {14, 18, 24}
    Times = {1, 2}
    RiskPercent = 20
    Start = 125
    MaxDrawdown = 40
    Caution = 20
    Halt = 40
    Champion = "generalist-v1"
    MaxChallengers = 4
    MinOutcomes = 2
    MinForecasts = 1
    DrawdownLimit = 5
    TaskTypes = {"backtest_campaign", "cost_regime_evaluation", "champion_comparison",
                 "sunday_validation", "archive_health_check"}
    Words = {"risk", "kronos"}
    NormalBase = 50
    ElevatedBase = 70
    UrgentBase = 90
    Styles <- TwoStyles
    Sectors <- TwoSectors
    SymbolsOf <- GoldOnly
    Slots = 2
    Week = 4
    WeeksBack = {1, 2}
    MinHistory = 2
    Horizon = 1
    LastTime = 9
SPECIFICATION Spec
INVARIANT HealthyFirmReordersNothing
