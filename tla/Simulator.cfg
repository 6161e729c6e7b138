SPECIFICATION VizSpec
CONSTANTS
    t1 = t1
    t2 = t2
    t3 = t3
    Ours = {t1, t2, t3}
    Old = {t0}
    Executors = {e1, e2}
    MaxReplies = 2
    Durations <- TwoSeconds
    CompletedAt <- OneAfterTheOther
    Errors <- AroundEverySecond
    Off = Off
    NaN = NaN
CHECK_DEADLOCK FALSE
INVARIANTS
    TypeOK
    EndsWhenAllCompleted
    DistributionTells
    VizTypeOK
    DrawnIsShown
    ButtonTells
    EveryErrorShown
    OnlyCompletedDrawn
PROPERTIES
    SimulationEnds
    PlayingEnds
