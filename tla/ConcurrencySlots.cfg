SPECIFICATION Spec
CONSTANTS
    p1 = p1
    p2 = p2
    r1 = r1
    r2 = r2
    r3 = r3
    r4 = r4
    Procs <- TwoProcs
    Reqs <- FourReqs
    Owner <- CrowdOwner
    MaxConcurrency = 1
    QueueLimit = 2
    SlotTTL = 2
    WaitTTL = 2
    Overlap = FALSE
    SpanBounded = TRUE
    Faults = {"index", "decr", "release", "reply", "cleanup"}
SYMMETRY CrowdSymmetry
INVARIANTS
    CapInv
    WaitCoversQueue
    WaitersBounded
