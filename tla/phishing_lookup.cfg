\* The instance of phishing.cfg, for what lookup means by absent.
SPECIFICATION Spec
CONSTANTS
    Threads = {t1, t2}
    Nobody = nobody
    host = host
    parent = parent
    other = other
    Hosts <- MCHosts
    Names <- MCNames
    Covering <- MCCovering
    Feeds <- MCFeeds
    Never = never
    RefreshSeconds = 2
    Cooldown = 1
    MaxStepBack = 0
    Horizon = 3
    MaxCalls = 3
INVARIANTS
    AbsentWasChecked
CHECK_DEADLOCK FALSE
