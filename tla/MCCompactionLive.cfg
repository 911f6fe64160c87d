CONSTANTS
    w1 = w1
    w2 = w2
    r1 = r1
    c1 = c1
    None = None
    MinSize = 1
    Workers = {w1, w2}
    Readers = {}
    Scheduler = Scheduler
    Callers = {c1}
    Ids = {1}
    ExecPrefix = "sstable"
    RowLen <- Growing
    MaxIOPS = 1
    MaxBandwidth = 20
    MaxVersions = 2
    MaxJobs = 2
    MaxStops = 1
    MaxCrashes = 0
    MaxPowerLosses = 0
CONSTRAINT OneJobWithCalls
SPECIFICATION FairSpec
PROPERTIES
    JobEnds
    StopReturns
CHECK_DEADLOCK FALSE
