CONSTANTS
    g = g
    v = v
    w = w
    None = None
    Validators <- MCValidators
    Genesis <- MCGenesis
    GoverningNode = g
    Interval = 2
    Epoch = 4
    UpgradeAt <- MCFresh
    MaxBlock = 4
    MaxVotes = 2
    QueryDepth = 4
    MaxRewinds = 1
    MaxCrashes = 1
    MaxLoss = 4
    HeadStateOnDisk = FALSE
    ReadsInWindow = TRUE
SPECIFICATION Spec
INVARIANTS AnswersCorrect
CHECK_DEADLOCK FALSE
