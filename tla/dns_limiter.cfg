\* Two lookups a second in ticks of a quarter second: a tick refills half a token, the
\* bucket holds two.
SPECIFICATION Spec
CONSTANTS
    Hosts = {h1, h2}
    Blank = blank
    RefillPerTick = 1
    TicksPerSecond = 4
    LookupCost = 2
    MaxPerHost = 2
    Window = 3
    CleanupInterval = 2
    MaxStepBack = 0
    MaxLag = 1
    Horizon = 5
    MaxRecorded = 1
INVARIANTS
    TypeOK
    HostWindowBound
    RateBound
    RetryAfterTight
    RetryAfterSuffices
PROPERTIES
    ImplementsSlidingWindow
SYMMETRY Symmetry
CHECK_DEADLOCK FALSE
