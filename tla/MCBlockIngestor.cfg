SPECIFICATION LiveSpec
CONSTANTS
    G = G
    a1 = a1
    a2 = a2
    a3 = a3
    a4 = a4
    b2 = b2
    b3 = b3
    NoBlock = NoBlock
    Block = {G, a1, a2, a3, a4, b2, b3}
    Genesis = G
    Parent <- TreeParent
    Number <- TreeNumber
    Hash <- TreeHash
    AncestorCount = 2
    ReorgThreshold = 2
INVARIANTS
    TypeOK
    HeadAncestorsPresent
    LoopBound
PROPERTIES
    HeadOnlyGrows
    Converges
