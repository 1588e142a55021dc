SPECIFICATION FairSpec
CONSTANTS
    None = None
    Other = Other
    MaxBlock = 1
    MaxJobs = 1
    MaxCalls = 1
    SlowConsensus = TRUE
PROPERTY StartStopReturn
CHECK_DEADLOCK FALSE
