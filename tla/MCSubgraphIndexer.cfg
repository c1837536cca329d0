SPECIFICATION IndexerSpec
CONSTANTS
    G = G
    a1 = a1
    a2 = a2
    a3 = a3
    a4 = a4
    b1 = b1
    b2 = b2
    c2 = c2
    NoBlock = NoBlock
    Block = {G, a1, a2, a3, a4, b1, b2}
    Genesis = G
    Parent <- TreeParent
    Number <- TreeNumber
    Hash <- TreeHash
    AncestorCount = 4
    ReorgThreshold = 2
    Triggers = {a1, b1, a2}
    NotifyMayFail = TRUE
INVARIANTS
    IndexerConsistent 
PROPERTIES
    StaysOnOneChain
