SPECIFICATION FairSpec
CONSTANTS
    Hosts = {"executor"}
    Addresses = {a1, a2}
    Registrable <- BothWays
    Calls = {c1}
CHECK_DEADLOCK FALSE
INVARIANTS
    TypeOK
    AnswerEarned
    TakenOnce
PROPERTIES
    EveryCallAnswered
    SendersEnd
