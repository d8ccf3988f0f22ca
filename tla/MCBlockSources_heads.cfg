CONSTANTS
    Interval = 2
    Quiet = 10
    IdleTimeout = 60
    RetryBase = 1
    RetryMax = 60
    FloatBase = TRUE
    MaxExponent = 1
    BlockTime = 12
    MaxMissed = 1
    MaxWork = 14
    MaxBehind = 2
    MaxInbox = 2
    Faults = 3
SPECIFICATION Spec
INVARIANTS TypeOK FewRequests
PROPERTIES CatchesUp HealthyKept HeadsKeepComing
