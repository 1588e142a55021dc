CONSTANTS
    n1 = n1
    n2 = n2
    n3 = n3
    n4 = n4
    a = a
    b = b
    c = c
    None = None
    Nodes <- MCNodes
    Committee <- MCNodes
    CommitteeSize = 22
    Faulty = {n4}
    Unstable = {}
    Values = {a, b}
    InvalidValues = {}
    Mined <- MCMined
    GetProposer <- MCGetProposer
    MaxSeq = 1
    MaxRound = 1
SPECIFICATION Spec
SYMMETRY MCSymmetry
INVARIANTS TypeOK Agreement  OnePreparePerView LockJustified RoundJustified CommittedIsSealed
PROPERTY ImplementsAgreedChain
CHECK_DEADLOCK FALSE
