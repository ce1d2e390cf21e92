SPECIFICATION Spec
CONSTANTS
    w1 = w1
    w2 = w2
    Workers = {w1, w2}
    Admins = {a1}
    Platforms = {"grok", "other"}
    LockTTL = 3
    SafetyMargin = 2
    ConfiguredTimeout = 4
    CleanupTimeout = 1
    ReleaseTimeout = 1
    MaxRetries <- MCMaxRetries
    MaxDocs = 3
    MaxFaults = 1
    Nobody = Nobody
INVARIANTS TypeOK LockOwned TokenKept
PROPERTIES WorkingCredentialsKept DueIsSettled
