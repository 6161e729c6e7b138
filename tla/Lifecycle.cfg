SPECIFICATION FairSpec
CONSTANTS
    Nodes <- ExecutorNodes
CHECK_DEADLOCK FALSE
INVARIANTS
    TypeOK
    UpMeansReady
    NodesCleared
PROPERTIES
    ImplementsPresence
    LostPresenceEnds
    ShutdownCompletes
    LossEndsProcess
