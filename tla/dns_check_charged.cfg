\* The instance of dns_check_live.cfg, for what the limiter charges.
SPECIFICATION Spec
CONSTANTS
    Threads = {t1, t2}
    strict = strict
    lenient = lenient
    public = public
    private = private
    Policies <- MCPolicies
    Addresses <- MCAddresses
    Permitted <- MCPermitted
    Answers <- MCAnswers
    Options <- MCOptions
    Callers <- MCCallers
    MaxBackoff = 1
    MaxChecks = 2
    MaxResets = 1
    Hosts = {h1}
    Blank = blank
    Failed = failed
    Nothing = nothing
    RefillPerTick = 1
    TicksPerSecond = 1
    LookupCost = 1
    MaxPerHost = 1
    Window = 1
    CleanupInterval = 2
    MaxStepBack = 0
    MaxLag = 0
    Horizon = 1
    MaxRecorded = 0
    MaxHosts = 1
    MaxTtl = 1
INVARIANTS
    OnlyRealLookupsCharged
CHECK_DEADLOCK FALSE
