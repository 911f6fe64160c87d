CONSTANTS
    Nodes = {n1, n2, n3, n4, n5}
    Local = n1
    Keys = {k1}
    Values = {v1, v2}
    NoValue = NoValue
    Owners <- AllOwn
    ReplicaCount = 5
    Clients = {c1}
    Loops = {loop}
    Loop = loop
    Replayers = {loop}
    Levels = {"QUORUM"}
    MaxBatch = 1
    Budgets <- FiveBudgets
    Hole = Hole
    MaxHints = 1
    Checks = 1
    Flushers = {f1}
    MaxPending = 1
    MaxStored = 1
    Readers = {r1}
    Workers = {w1}
    StatsCallers = {s1}
    MaxRate = 1
SPECIFICATION Spec
SYMMETRY FiveSymmetry
CONSTRAINT FiveConstraint
INVARIANT
    MajorityIsCorrect
CHECK_DEADLOCK FALSE
