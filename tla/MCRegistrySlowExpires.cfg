\* One target whose Slow data may expire between the making of a body and the
\* question whether it has Slow data.
CONSTANTS
    k1 = k1
    k2 = k2
    b1 = b1
    s1 = s1
    s2 = s2
    None = None
    Keys <- OneKey
    Bmcs <- OneBmc
    BmcOf <- Alone
    without_slow = {}
    Scrapes <- TwoScrapes
    max_targets = 1
    max_parallel_targets = 2
    max_concurrent_refreshes = 2
    max_concurrent_cycles = 1
    max_total_snapshot_bytes = 2
    max_in_flight_candidate_bytes = 2
    max_snapshot_bytes_per_lane = 2
    SnapshotSizes = {1}
    ttl_seconds <- SlowOutlivesFast
    response_ttl = 1
    max_entries = 2
    MaxObjects = 2
    MaxCoordinators = 2
    MaxLateJobs = 1
    MaxGeneration = 2
    MaxNow = 4
    Lag = 1
SYMMETRY ScrapeSymmetry
SPECIFICATION Spec
INVARIANTS
    CacheAgreesWithBody
CHECK_DEADLOCK FALSE
