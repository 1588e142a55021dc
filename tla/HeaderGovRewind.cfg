SPECIFICATION Spec
CONSTANTS
    Epoch = 2
    KoreBlock = 5
    Votes <- MCVotes
    Self = 1
    Default <- MCDefault
    InitHead = 3
    MaxBlock = 6
    MaxVotes = 2
    MaxRewinds = 1
    MaxCrashes = 1
    RewindAnywhere = TRUE
    None = None
INVARIANTS RewindDeletesBlock
CHECK_DEADLOCK FALSE
