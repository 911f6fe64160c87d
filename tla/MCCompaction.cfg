CONSTANTS
    w1 = w1
    w2 = w2
    r1 = r1
    c1 = c1
    None = None
    MinSize = 1
    Workers = {w1, w2}
    Readers = {r1}
    Scheduler = Scheduler
    Callers = {}
    Ids = {1}
    ExecPrefix = "sstable"
    RowLen <- Uneven
    MaxIOPS = 1
    MaxBandwidth = 100
    MaxVersions = 3
    MaxJobs = 2
    MaxStops = 0
    MaxCrashes = 1
    MaxPowerLosses = 1
CONSTRAINT Scenarios
SPECIFICATION Spec
SYMMETRY Symmetry
INVARIANTS
    TypeOK
    ReaderFindsUndisturbed
PROPERTIES
    TablesImmutable
    StoreRefined
