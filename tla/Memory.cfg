SPECIFICATION FairSpec
CONSTANTS
    d1 = d1
    g1 = g1
    NoExecutor = NoExecutor
    NoTask = NoTask
    Requests <- TwoOfOneStager
    Guids = {1, 2}
    GuidOf <- NumberOf
    MemoryMB <- MemoryOfAll
    Executors = {e1}
    Convergers = {e1}
    Workers = {w1}
    Resolvers = {r1}
    MaxMemory = 1
    Faults = {}
    MaxFaults = 0
CHECK_DEADLOCK FALSE
INVARIANTS
    MemoryConserved
PROPERTIES
    EveryTaskAnswered
