SPECIFICATION SurvivalSpec
CONSTANTS
    None = None
    f = f
    a = a
    b = b
    c = c
    Strategies = {f, a, b}
    Clients = {p1}
    Founders = {p1}
    MaxChallengers = 2
    Version <- Family
    Stages <- PipelineStages
    Briefs <- Weekends
    MinOutcomes = 20
    MinForecasts = 10
    DrawdownLimit = 5
PROPERTIES
    ResearchSurvivesRestarts
CHECK_DEADLOCK FALSE
