SPECIFICATION Spec
CONSTANTS
    s1 = s1
    s2 = s2
    Sessions <- TwoSessions
    MaxConnections = 1
    TTL = 7
    Interval = 3
    OpTimeout = 1
    Faults = TRUE
SYMMETRY Symmetry
INVARIANTS
    CapInv
    LiveHasMember
    LiveBounded
    OverrunBounded
