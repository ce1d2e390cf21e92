SPECIFICATION Spec
CONSTANTS
    c1 = c1
    w1 = w1
    w2 = w2
    Nobody = Nobody
    Clients = {c1}
    Workers = {w1, w2}
    MaxRetries = 2
    MaxFaults = 1
CHECK_DEADLOCK FALSE
INVARIANTS
    TypeOK
    SettledOnce
    CompletedIsCharged
    NoOrphan
PROPERTIES
    HoldSettles
    TerminalStays
