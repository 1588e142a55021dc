SPECIFICATION FairSpec
CONSTANTS
    None = None
    Other = Other
    MaxBlock = 2
    MaxJobs = 2
    MaxCalls = 3
    SlowConsensus = TRUE
INVARIANTS NoSendOnClosed HandedBlockKept
PROPERTIES ImplementsAgreedChain HandedBlockWritten 
CHECK_DEADLOCK FALSE
