SPECIFICATION Spec
CONSTANTS
    a = a
    b = b
    c = c
    d = d
    Reqs <- FourReqs
    Fingerprint <- TwoPayloads
    Detached = {d}
    Large = {d}
    TTL = 3
    ProcessingTimeout = 2
    Backoff = 1
    MaxTime = 4
    StoreFaults = TRUE
SYMMETRY Symmetry
CHECK_DEADLOCK FALSE
INVARIANTS
    OneExecutor
    ReplayFaithful
    OnceUnlessExpired
