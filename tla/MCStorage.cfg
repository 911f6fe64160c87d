CONSTANTS
    w1 = w1
    w2 = w2
    r1 = r1
    t1 = t1
    t2 = t2
    None = None
    NoTenant = NoTenant
    PseudoTS <- MCPseudoTS
    ScanRanges <- MCScanRanges
    Writers = {w1, w2}
    Readers = {r1}
    Ids = {1, 2}
    Tenants = {t1, t2}
    MaxSize = 1
    MaxRows = 3
    MaxCrashes = 1
CONSTRAINT Scenarios
SPECIFICATION FairSpec
INVARIANTS
    TypeOK
    AckedInWal
    AcceptedStored
    ReadBelongsToCaller
    GetFindsVisible
    ScanFindsStored
PROPERTIES
    ResetAfterFlush
    PutTerminates
CHECK_DEADLOCK FALSE
