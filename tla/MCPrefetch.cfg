CONSTANTS
    FilterCases <- MCFilterCases
    STRING_PREFIX_SIZE = 2
    TYPEA_BATCH_SIZE = 2
    Null = Null
    Workloads <- MCWorkloads
    max_first = 3
    max_skip = 2
    LatestBlock = 2
    MaxBlock = 3
    MaxReverts = 3
    Infinity = 9
    FirstVid = 10
    ObjectTypes <- MCObjectTypes
    Interfaces <- MCInterfaces
    TypeFields <- MCTypeFields
    Documents <- MCDocuments
    max_complexity = 12
    max_depth = 6
    max_list = 4
    U64_MAX = 31
    Shapes = {q1, q2}
    BlockedShapes = {}
    Deciders = {d1, d2}
    WorkUnits = {1, 4}
    UnitsPerMilli = 2
    WINDOW_SIZE = 3
    BIN_SIZE = 2
    LOAD_THRESHOLD = 2
    JAIL_THRESHOLD = 80
    KILL_RATE_UPDATE_INTERVAL = 1
    SIMULATE = FALSE
    LoadTime = 5
    Measurements = 3
    Clients = {c1, c2}
    ClientRequests <- MCClientRequests
    QUERY_CACHE_BLOCKS = 2
    BlockWeight = 1
    QueryPermits = 1
    Forks = {f, g}
    ChainBound = 2
    ChainReverts = 1
SPECIFICATION Spec
INVARIANTS NothingMissing
CHECK_DEADLOCK FALSE
