SPECIFICATION FairSpec
CONSTANTS
    Interval = 2
    Osaka = 2
    InitHead = 4
    MaxBlock = 5
    Queried = {3}
    MaxRewinds = 1
    MaxFaults = 2
    RewindDuringPost = FALSE
    Short = Short
    None = None
INVARIANTS TypeOK CheckpointsCorrect LastAccRewardCorrect CacheCorrect
PROPERTIES CatchesUp
CHECK_DEADLOCK FALSE
