SPECIFICATION Spec
CONSTANTS
    d1 = d1
    g1 = g1
    NoExecutor = NoExecutor
    NoTask = NoTask
    Requests = {d1}
    Guids = {g1}
    GuidOf <- GuidOfOne
    MemoryMB <- MemoryOfOne
    Executors = {e1}
    Convergers = {e1}
    Workers = {w1}
    Resolvers = {r1}
    MaxMemory = 1
    Faults = {}
    MaxFaults = 0
CHECK_DEADLOCK FALSE
INVARIANTS
    OnlyStoppedExecutorsDisappear
