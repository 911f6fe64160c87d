CONSTANTS
    c1 = c1
    c2 = c2
    e1 = e1
    e2 = e2
    e3 = e3
    Torn = Torn
    None = None
    Clients = {c1, c2}
    Entries = {e1, e2, e3}
    EntryLen <- MCEntryLen
    MaxFileSize = 28
    ChanCap = 1
    FsyncModes = {TRUE, FALSE}
    MaxCrashes = 2
CONSTRAINT Scenarios
SPECIFICATION FairSpec
INVARIANTS
    TypeOK
    AckedDurable
    LogKeepsOrder
PROPERTIES
    CleanReplay
    AppendReturnsUnlessClosed
    CloseReturns
CHECK_DEADLOCK FALSE
