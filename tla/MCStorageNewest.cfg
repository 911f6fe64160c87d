CONSTANTS
    w1 = w1
    w2 = w2
    r1 = r1
    t1 = t1
    t2 = t2
    None = None
    NoTenant = NoTenant
    PseudoTS <- MCPseudoTS
    ScanRanges <- MCScanRanges
    Writers = {w1, w2}
    Readers = {}
    Ids = {1}
    Tenants = {t1}
    MaxSize = 2
    MaxRows = 3
    MaxCrashes = 0
SPECIFICATION Spec
INVARIANTS
    SSTablesNewestWins
CHECK_DEADLOCK FALSE
