CONSTANTS
    c1 = c1
    c2 = c2
    eurusd = eurusd
    usdjpy = usdjpy
    august = august
    rot = rot
    Chunks <- TwoChunks
    Rubbish <- OneRubbish
    Partitions <- TwoPartitions
    LastSecond = 1
    MaxFolders = 5
    ApiFails = TRUE
SPECIFICATION Spec
INVARIANTS TypeOK FiledUnderPartition
PROPERTY UploadsAreVerified
SYMMETRY AnyChunkAnyPair
CHECK_DEADLOCK FALSE
