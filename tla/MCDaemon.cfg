SPECIFICATION FairSpec
CONSTANTS
    c1 = c1
    c2 = c2
    c3 = c3
    c4 = c4
    Clients = {c1, c2, c3, c4}
    MaxSessions = 2
    Backlog = 2
INVARIANTS
    TypeOK
    CounterExact
PROPERTIES
    EveryClientAnswered
    InterruptReaps
    PoolRefined
CHECK_DEADLOCK FALSE
