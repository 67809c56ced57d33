SPECIFICATION Spec
CONSTANTS
    Services = {s1}
    c1 = c1
    c2 = c2
    c3 = c3
    Clients = {c1, c2, c3}
    Options <- MCOptions
    Foreign = {f1}
    Body <- MCBody
    ExchangeKind = "topic"
    MaxFaults = 3
INVARIANTS
    TypeOK
    RequestIsKept
    NoResultMissed
    DeadLettersStayDead
PROPERTY
    ClientReturns
CHECK_DEADLOCK FALSE
