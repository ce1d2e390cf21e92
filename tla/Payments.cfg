SPECIFICATION Safety
CONSTANTS
    h1 = h1
    h2 = h2
    a1 = a1
    a2 = a2
    Handlers <- TwoHandlers
    Admins <- TwoAdmins
    Faults <- AllFaults
    MaxFaults = 2
CONSTRAINT TwoBusy
SYMMETRY Symmetry
CHECK_DEADLOCK FALSE
INVARIANTS
    CompletedIsGranted
    RefundExclusive
    DeductionAccounted
    PendingHeld
PROPERTIES
    NeverUnsettled
    MoneyMovesByLedger
