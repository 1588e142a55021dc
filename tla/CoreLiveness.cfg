CONSTANTS
    n1 = n1
    n2 = n2
    n3 = n3
    n4 = n4
    a = a
    b = b
    c = c
    None = None
    Nodes <- MCNodes
    Committee <- MCNodes
    CommitteeSize = 22
    Faulty = {}
    Unstable = {}
    Values = {a}
    InvalidValues = {}
    Mined <- MCSilentMined
    GetProposer <- MCGetProposer
    MaxSeq = 1
    MaxRound = 1
SPECIFICATION FairSpec
PROPERTY EveryChainGrows
CHECK_DEADLOCK FALSE
