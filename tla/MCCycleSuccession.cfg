CONSTANTS
    c1 = c1
    c2 = c2
    t1 = t1
    bmc = bmc
    NoCycle = NoCycle
    Bmcs <- OneBmc
    Targets <- SingleTarget
    BmcOf <- SingleBmcOf
    Cycles <- TwoCycles
    TargetOf <- SuccessiveTargetOf
    slow_disabled <- SingleTarget
    max_concurrent_cycles = 2
    max_concurrent_refreshes = 2
SYMMETRY Interchangeable
SPECIFICATION Spec
INVARIANTS PermitAccounting OpenCycleIsReferenced LiveJobsAreCurrent
PROPERTY ImplementsCyclePermits
CHECK_DEADLOCK FALSE
