CONSTANTS
    w1 = w1
    w2 = w2
    r1 = r1
    c1 = c1
    None = None
    MinSize = 1
    Workers = {w1}
    Readers = {}
    Scheduler = Scheduler
    Callers = {}
    Ids = {1}
    ExecPrefix = ""
    RowLen <- Growing
    MaxIOPS = 1
    MaxBandwidth = 100
    MaxVersions = 2
    MaxJobs = 1
    MaxStops = 0
    MaxCrashes = 0
    MaxPowerLosses = 0
SPECIFICATION Spec
INVARIANTS
    EntityKept
CHECK_DEADLOCK FALSE
