SPECIFICATION ServicesSpec
CONSTANTS
    p1 = p1
    p2 = p2
    p3 = p3
    p4 = p4
    Procs = {p1, p2, p3, p4}
    Attempts = 3
    HostOf <- MCHostOf
    Concurrent = FALSE
    MaxForeign = 2
    MaxCrashes = 2
    MaxFaults = 2
    Pools = {1, 2}
    Threshold = 2
    PriceRange = {2, 3}
    QuoteIsB = {1}
    MaxRestarts = 1
    Programs = {"dbc", "damm"}
    PoolFees = {1, 2}
    Statuses = {0, 1}
    MaxFailures = 2
INVARIANTS
    OneKeeper
    PublicFirst
    PriceIsLive
PROPERTIES
    LoneStarterWins
    OnlyNamedStalls
    EveryPoolGraduates
    DriftReported
    PoolChangesAlerted
CHECK_DEADLOCK FALSE
