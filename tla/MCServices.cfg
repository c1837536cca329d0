SPECIFICATION ServicesSpec
CONSTANTS
    G = G  a1 = a1  a2 = a2  a3 = a3  b1 = b1  b2 = b2  b3 = b3
    Block = {G, a1, a2, a3, b1, b2, b3}
    Genesis = G
    NoBlock = NoBlock
    Parent <- TreeParent
    Number <- TreeNumber
    Hash <- TreeHash
    Ommers <- TreeOmmers
    MaxRange = 3
    Buffered = 2
    Deployment = {d1}
    MaxUnsent = 1
    MaxStream = 2
    MaxQueue = 2
    MaxTasks = 3
    Clients = {c1, c2}
    ClientRequests <- MCClientRequests
    QUERY_CACHE_BLOCKS = 2
    BlockWeight = 1
    QueryPermits = 1
    Forks = {f}
    ChainBound = 1
    ChainReverts = 0
    EntityTypes = {"a", "b"}
    Changes = {{"b"}, {"a", "b"}}
    Operations = {"o1"}
    QueryOf <- MCQueryOf
    LARGE_NOTIFICATION_THRESHOLD = 1
    MAX_OPERATIONS_PER_CONNECTION = 1
    Commits = 2
    Messages = 2

      
PROPERTIES
      EveryoneAnswered 
CHECK_DEADLOCK FALSE
