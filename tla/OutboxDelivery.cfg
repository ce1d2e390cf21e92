SPECIFICATION FairSpec
CONSTANTS
    k1 = k1
    k2 = k2
    i1 = i1
    i2 = i2
    r1 = r1
    r2 = r2
    r3 = r3
    w1 = w1
    w2 = w2
    Keys = {k1}
    Pollers = {i1}
    Workers = {r1}
    Writers = {w1}
    MaxId = 2
    MaxGen = 4
    Limit = 2
    Reorder = FALSE
    DedupInTx = TRUE
    Lossy = TRUE
    Crashes = FALSE
PROPERTY Delivered
CHECK_DEADLOCK FALSE
