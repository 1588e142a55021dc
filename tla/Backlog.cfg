SPECIFICATION FairSpec
CONSTANTS
    Sources = {"p", "self"}
    Self = "self"
    Messages <- MCMessages
    Rounds <- MCRounds
    GetProposer <- MCGetProposer
    MaxSeq = 2
    None = None
INVARIANTS TypeOK OnlyFutureKept
PROPERTIES NeverDropped EarlyMessageHandled
