CONSTANTS
    Subjects = {"repair"}
    Peers = {1, 2}
    Transports = {"addressed", "sender"}
    Faults = {"loss", "removal"}
    Movers = {1}
    MaxGeneration = 2
    MaxHeartbeat = 1
    MaxInFlight = 2
    MinSize = 1
    MaxFiles = 4
    MaxFileSize = 4
    RingNodes = {1, 2, 3}
    VirtualNodesPerNode = 2
    ReplicationFactor = 2
    HashSpace = 6
    ScanKeys = {1, 2, 3, 4}
    Limits = {1, 2}
    M = 2
    Ef = 2
    MaxLevel = 2
    MaxGraphSize = 2
    Entities = {1, 2}
    Links <- MCLinks
    BackLinks <- MCBackLinks
    RowKinds = {"parts", "meta"}
    CacheSize = 1
    NodeLevels = {1}
    Plain = {2}
    MaxStamps = 3
SPECIFICATION Spec
INVARIANTS
    RepairConverges
CHECK_DEADLOCK FALSE
