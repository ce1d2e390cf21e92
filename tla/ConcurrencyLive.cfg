SPECIFICATION FairSpec
CONSTANTS
    p1 = p1
    p2 = p2
    r1 = r1
    r2 = r2
    r3 = r3
    r4 = r4
    Procs <- TwoProcs
    Reqs <- TwoReqs
    Owner <- PairOwner
    MaxConcurrency = 1
    QueueLimit = 1
    SlotTTL = 2
    WaitTTL = 2
    Overlap = TRUE
    SpanBounded = FALSE
    Faults = {"incr"}
INVARIANTS
    HolderKeepsSlot
    RunningBounded
PROPERTY
    IndexDrains
