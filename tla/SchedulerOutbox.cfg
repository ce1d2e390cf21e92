SPECIFICATION Spec
CONSTANTS
    k1 = k1
    k2 = k2
    i1 = i1
    i2 = i2
    r1 = r1
    r2 = r2
    r3 = r3
    w1 = w1
    w2 = w2
    Keys = {k1}
    Pollers = {i1, i2}
    Workers = {r1, r2}
    Writers = {w1, w2}
    MaxId = 2
    MaxGen = 3
    Limit = 2
    Reorder = FALSE
    DedupInTx = TRUE
    Lossy = TRUE
    Crashes = TRUE
SYMMETRY Symmetry
CONSTRAINT TwoBusy
INVARIANTS NoChangeLost LeaseHonoured
PROPERTY CleanupOnlySettled
CHECK_DEADLOCK FALSE
