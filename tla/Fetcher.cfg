SPECIFICATION FairSpec
CONSTANTS
    b1 = b1
    b2 = b2
    bad = bad
    Peers = {p1, p2}
    Hashes = {b1, b2, bad}
    Number <- MCNumber
    Valid = {b1, b2}
    EmptyBody = {b2}
    TxHash <- MCTxHash
    hashLimit = 2
    blockLimit = 1
    maxQueueDist = 2
    numInsertTasks = 1
    MaxNotify = 2
    MaxEnqueue = 1
    MaxOthers = 1
    None = None
INVARIANTS
    TypeOK
    QueueAccounted
    CountNeverHigh
    TimersArmed

    
CHECK_DEADLOCK FALSE
