\* Half a lookup a second: the bucket never holds a token.
SPECIFICATION Spec
CONSTANTS
    Hosts = {h1}
    Blank = blank
    RefillPerTick = 1
    TicksPerSecond = 1
    LookupCost = 2
    MaxPerHost = 2
    Window = 3
    CleanupInterval = 2
    MaxStepBack = 0
    MaxLag = 1
    Horizon = 5
    MaxRecorded = 1
INVARIANTS
    RetryAfterSuffices
CHECK_DEADLOCK FALSE
