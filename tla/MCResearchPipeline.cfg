SPECIFICATION FairPlanSpec
CONSTANTS
    None = None
    f = f
    a = a
    b = b
    c = c
    Strategies = {f, a, b, c}
    Clients = {p1, p2}
    Founders = {p1}
    MaxChallengers = 2
    Version <- Family
    Stages <- ShortChain
    Briefs <- Weekends
    MinOutcomes = 20
    MinForecasts = 10
    DrawdownLimit = 5
INVARIANTS
    PlanTypeOK
    AtMostOneChampion
    TitleIsEarned
    NoOrphanChallenger
    CollidingPlanMadeNothing
PROPERTIES
    NobodyReignsTwice
    FirmIsLed
    CreatedIsResearched
CHECK_DEADLOCK FALSE
