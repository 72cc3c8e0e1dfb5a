\* Two keys of one BMC that take turns in a registry with room for one, and one of
\* them alone whose lanes expire one after the other, on a clock that may move within
\* a scrape: see Explored.
CONSTANTS
    k1 = k1
    k2 = k2
    b1 = b1
    s1 = s1
    s2 = s2
    None = None
    Keys <- TwoKeys
    Bmcs <- OneBmc
    BmcOf <- BothOnOne
    without_slow = {k2}
    Scrapes <- TwoScrapes
    max_targets = 1
    max_parallel_targets = 2
    max_concurrent_refreshes = 2
    max_concurrent_cycles = 1
    max_total_snapshot_bytes = 2
    max_in_flight_candidate_bytes = 2
    max_snapshot_bytes_per_lane = 2
    SnapshotSizes = {1, 2, 3}
    ttl_seconds <- SlowOutlivesFast
    response_ttl = 1
    max_entries = 2
    MaxObjects = 3
    MaxCoordinators = 2
    MaxLateJobs = 1
    MaxGeneration = 2
    MaxNow = 3
    Lag = 1
CONSTRAINT Explored
SYMMETRY ScrapeSymmetry
SPECIFICATION Spec
INVARIANTS
    AccountsAreTrue
    NothingOutlivesItsTarget
    CacheIsCurrent
    NoScrapeWaitsInVain
PROPERTIES
    LanesOnlyGetNewer
    ImplementsTargetCycle
CHECK_DEADLOCK FALSE
