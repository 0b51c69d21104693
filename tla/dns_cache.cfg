\* Three hosts compete for two places; every pair of ttls from 0 to 2 is an initial state.
SPECIFICATION Spec
CONSTANTS
    Hosts = {h1, h2, h3}
    Answers = {a1, a2}
    Failed = failed
    Nothing = nothing
    MaxHosts = 2
    MaxTtl = 2
    MaxStepBack = 0
    Horizon = 3
INVARIANTS
    TypeOK
    EvictsLeastRecent
PROPERTIES
    ImplementsTtlStore
SYMMETRY Symmetry
CHECK_DEADLOCK FALSE
