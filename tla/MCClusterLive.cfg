CONSTANTS
    Nodes = {n1, n2, n3}
    Local = n1
    Keys = {k1}
    Values = {v1, v2}
    NoValue = NoValue
    Owners <- AllOwn
    ReplicaCount = 3
    Clients = {c1}
    Loops = {loop}
    Loop = loop
    Replayers = {loop, trigger}
    Levels = {"QUORUM"}
    MaxBatch = 1
    Budgets <- LiveBudgets
    Hole = Hole
    MaxHints = 1
    Checks = 1
    Flushers = {f1}
    MaxPending = 1
    MaxStored = 1
    Readers = {r1}
    Workers = {w1}
    StatsCallers = {s1}
    MaxRate = 1
SPECIFICATION FairSpec
PROPERTIES
    ReplayEnds
    StopHangsOnlyOnStats
    RepairsRun
CHECK_DEADLOCK FALSE
