SPECIFICATION Spec
CONSTANTS
    Pollers = {p1}
    Retriers = {t1}
    Rebuilders = {f1}
    Requests = {r1}
    Accounts = {a1}
    MaxChanges = 2
    MaxBusy = 2
    MaxFaults = 1
INVARIANTS TypeOK ServedIsOfThisEpoch GroupIsReflected AcknowledgedIsServed
PROPERTY ServedInTheEnd
