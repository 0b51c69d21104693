\* The instance of phishing.cfg, for failed downloads that refresh() started.
SPECIFICATION Spec
CONSTANTS
    Threads = {t1, t2}
    Nobody = nobody
    host = host
    parent = parent
    other = other
    Hosts <- MCHosts
    Names <- MCNames
    Covering <- MCCovering
    Feeds <- MCFeeds
    Never = never
    RefreshSeconds = 2
    Cooldown = 1
    MaxStepBack = 0
    Horizon = 3
    MaxCalls = 3
PROPERTIES
    FailedRefreshKeeps
CHECK_DEADLOCK FALSE
