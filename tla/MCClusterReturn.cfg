CONSTANTS
    Nodes = {n1, n2, n3}
    Local = n1
    Keys = {k1}
    Values = {v1}
    NoValue = NoValue
    Owners <- AllOwn
    ReplicaCount = 3
    Clients = {c1}
    Loops = {loop}
    Loop = loop
    Replayers = {loop}
    Levels = {"QUORUM"}
    MaxBatch = 1
    Budgets <- ReturnBudgets
    Hole = Hole
    MaxHints = 2
    Checks = 1
    Flushers = {f1}
    MaxPending = 2
    MaxStored = 2
    Readers = {r1}
    Workers = {w1}
    StatsCallers = {s1}
    MaxRate = 1
SPECIFICATION HandoffFairSpec
PROPERTY
    HintsDelivered
CHECK_DEADLOCK FALSE
