SPECIFICATION Spec
CONSTANTS
    d1 = d1
    g1 = g1
    NoExecutor = NoExecutor
    NoTask = NoTask
    Requests = {d1}
    Guids = {g1}
    GuidOf <- GuidOfOne
    MemoryMB <- MemoryOfOne
    Executors = {e1, e2}
    Convergers = {e1, e2}
    Workers = {w1, w2}
    Resolvers = {r1}
    MaxMemory = 1
    Faults = {"lock", "casAck", "storeError", "publish", "crash", "presence", "slow"}
    MaxFaults = 1
SYMMETRY Alike
CHECK_DEADLOCK FALSE
INVARIANTS
    TypeOK
    MemoryConserved
    RunOnce
    NoFalseDeath
    RunNotRevoked
    RepliesAgree
PROPERTIES
    ImplementsStaging
    NoRunAfterAnswer
