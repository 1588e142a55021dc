CONSTANTS
    n1 = n1
    n2 = n2
    n3 = n3
    n4 = n4
    a = a
    b = b
    c = c
    None = None
    Nodes <- MCNodes
    Committee <- MCNodes
    CommitteeSize = 22
    Faulty = {n2, n3, n4}
    Unstable = {n1}
    Values = {a, b, c}
    InvalidValues = {c}
    Mined <- MCMined
    GetProposer <- MCGetProposer
    MaxSeq = 1
    MaxRound = 2
SPECIFICATION Spec
 
PROPERTIES ViewNeverGoesBack 
CHECK_DEADLOCK FALSE
