SPECIFICATION StorageSpec
CONSTANTS
    A = A  B = B  i = i  x = x  y = y  s1 = s1  s2 = s2
    Keys <- ModelKeys
    Data = {x, y}
    NoEntity = NoEntity
    MaxBlock = 3
    MaxMods = 1
    SharedInterface <- ModelShared
    AccountLike = {B}
    DataSourceIds = {s1, s2}
    k1 = k1 k2 = k2 v1 = v1
    EntityKeys = {k1, k2}
    Fields = {"f", "g"}
    Values = {v1}
    Null = Null
    Absent = Absent
    CacheSize = 4
    MaxOps = 2
    Word = 16
    StalePeriod = 1
    MaxFrequency = 1
SYMMETRY ModelSymmetry
INVARIANTS
    TablesConsistent EntityCacheConsistent
PROPERTIES
    TablesImplementHistory EventsCoverChanges BlocksEndLean
CHECK_DEADLOCK FALSE
