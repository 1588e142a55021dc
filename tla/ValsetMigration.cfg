CONSTANTS
    g = g
    v = v
    w = w
    None = None
    Validators <- MCValidators
    Genesis <- MCGenesis
    GoverningNode = g
    Interval = 2
    Epoch = 4
    UpgradeAt <- MCUpgrade
    MaxBlock = 3
    MaxVotes = 2
    QueryDepth = 0
    MaxRewinds = 0
    MaxCrashes = 1
    MaxLoss = 1
    HeadStateOnDisk = FALSE
    ReadsInWindow = FALSE
SPECIFICATION FairSpec
INVARIANTS  AlwaysAnswered 
PROPERTIES MigrationEnds
CHECK_DEADLOCK FALSE
