CONSTANTS
    f1 = f1
    home = home
    d2 = d2
    d3 = d3
    Findings <- OneFinding
    Desks <- HomeAndTwo
    SourceOf <- FromHome
    MinPeers = 2
    MinPercent = 67
    Clients = {c1, c2}
    Times <- Once
    Dies = FALSE
SPECIFICATION Spec
INVARIANT EvidenceGated
