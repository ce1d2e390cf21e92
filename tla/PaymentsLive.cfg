SPECIFICATION Spec
CONSTANTS
    h1 = h1
    h2 = h2
    a1 = a1
    a2 = a2
    Handlers <- TwoHandlers
    Admins <- NoAdmin
    Faults <- AllFaults
    MaxFaults = 2
CHECK_DEADLOCK FALSE
PROPERTY
    PaidOrderCompletes
