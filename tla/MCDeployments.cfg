SPECIFICATION DeploymentSpec
CONSTANTS
    n1 = n1 n2 = n2 h1 = h1 h2 = h2 c1 = c1 c2 = c2 node1 = node1 node2 = node2
    Names = {n1, n2}
    Hashes = {h1, h2}
    Nodes = {node1, node2}
    NoNode = NoNode
    None = None
    Callers = {c1, c2}
    SwitchMode = "synced"
    MaxId = 5
    CamelCase <- MCCamelCase
    PluralOf <- MCPluralOf
    SnakeCase <- MCSnakeCase
    ValidIds = {"d0", "d1", "d2"}
    ValidNames = {"s"}
    Languages = {"en"}
    Algorithms = {"rank"}
    BadIdentifiers = {"a b"}
    DeploymentIds = {"d1", "d2"}
    Manifests <- MCManifests
    Submissions = 2
    TriggerCases <- MCTriggerCases
    NoAddress = NoAddress
    NoTopic = NoTopic
    MAX_EVENT_ONLY_RANGE = 3
    TRACE_STREAM_STEP_SIZE = 4
    StepDivisor = 2
    ManifestSources <- MCManifest
    SourceAddress <- MCAddress
    BlockContents <- MCBlocks
    MAX_DATA_SOURCES = 4
    SourceBlocks = 3
SYMMETRY ModelSymmetry
INVARIANTS
      TriggersConsistent SourcesConsistent
CHECK_DEADLOCK FALSE
