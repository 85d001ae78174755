CONSTANTS
    f1 = f1
    home = home
    d2 = d2
    d3 = d3
    r1 = r1
    r2 = r2
    Findings <- OneFinding
    Desks <- Identifiers
    SourceOf <- FromHome
    MinPeers = 2
    MinPercent = 67
    Clients = {c1, c2}
    Times <- Once
    Dies = TRUE
    Rosters <- EveryRoster
    Replications <- TwoReplications
    MaxPlans = 2
SPECIFICATION WorkSpec
INVARIANTS WorkTypeOK PeersValidate
PROPERTIES UndisturbedReflectsEvidence PlannedWorkSuffices
CHECK_DEADLOCK FALSE
