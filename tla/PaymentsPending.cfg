SPECIFICATION Safety
CONSTANTS
    h1 = h1
    h2 = h2
    a1 = a1
    a2 = a2
    Handlers <- OneHandler
    Admins <- OneAdmin
    Faults <- NoFaults
    MaxFaults = 1
CHECK_DEADLOCK FALSE
INVARIANT PendingRefundsTracked
