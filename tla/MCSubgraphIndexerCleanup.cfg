SPECIFICATION IndexerLiveSpec
CONSTANTS
    G = G
    a1 = a1
    a2 = a2
    a3 = a3
    a4 = a4
    b1 = b1
    b2 = b2
    c2 = c2
    NoBlock = NoBlock
    Block = {G, a1, a2, a3, c2}
    Genesis = G
    Parent <- TreeParent
    Number <- TreeNumber
    Hash <- TreeHash
    AncestorCount = 1
    ReorgThreshold = 1
    Triggers = {a1, a2, c2}
    NotifyMayFail = FALSE
INVARIANTS
    IndexerConsistent 
PROPERTIES
    CatchesUp Spec
