SPECIFICATION Spec
CONSTANTS
    d1 = d1
    g1 = g1
    NoExecutor = NoExecutor
    NoTask = NoTask
    Requests = {d1}
    Guids = {g1}
    GuidOf <- GuidOfOne
    MemoryMB <- MemoryOfOne
    Executors = {e1}
    Convergers = {e1}
    Workers = {w1, w2}
    Resolvers = {r1, r2}
    MaxMemory = 1
    Faults = {"setAck", "casAck", "storeError", "publish", "crash", "slow"}
    MaxFaults = 1
SYMMETRY Slots
CHECK_DEADLOCK FALSE
INVARIANTS
    RunOnce
    KeptUntilReplied
    RepliesAgree
    VerdictEarned
