SPECIFICATION Spec
CONSTANTS
    n1 = n1
    n2 = n2
    rev_a = rev_a
    rev_b = rev_b
    rev_c = rev_c
    rev_z = rev_z
    c1 = c1
    c2 = c2
    None = None
    Ns <- MCNs
    Rev <- MCRev
    Client <- MCClient
    Parent <- MCParent
    RevNs <- MCRevNs
    MaxOps = 3
SYMMETRY ClientSymmetry
INVARIANTS
    TypeOK
    ActiveIsHeadChain
    TrashIsSegment
    RestoreBaseRetained
    NoOrphan
    MatchMeansUnmoved
PROPERTY
    ImplementsRegister
