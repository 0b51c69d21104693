\* Two threads, three checks, two hosts, one place in the cache, and one lookup of a host
\* per window: a check after the first is refused, hits, or finds itself evicted.
SPECIFICATION Spec
CONSTANTS
    Threads = {t1, t2}
    strict = strict
    lenient = lenient
    public = public
    private = private
    Policies <- MCPolicies
    Addresses <- MCAddresses
    Permitted <- MCPermitted
    Answers <- MCAnswers
    Options <- MCOptions
    Callers <- MCCallers
    MaxBackoff = 1
    MaxChecks = 3
    MaxResets = 0
    Hosts = {h1, h2}
    Blank = blank
    Failed = failed
    Nothing = nothing
    RefillPerTick = 1
    TicksPerSecond = 1
    LookupCost = 1
    MaxPerHost = 1
    Window = 1
    CleanupInterval = 2
    MaxStepBack = 0
    MaxLag = 0
    Horizon = 2
    MaxRecorded = 0
    MaxHosts = 1
    MaxTtl = 1
INVARIANTS
    TypeOK
    VerdictIsOwn
    CacheHoldsWhatWasHeard
    EveryLookupPaid
    WithinDeadline
SYMMETRY Symmetry
CHECK_DEADLOCK FALSE
