CONSTANTS
    c1 = c1
    c2 = c2
    t1 = t1
    bmc = bmc
    NoCycle = NoCycle
    Bmcs <- OneBmc
    Targets <- SingleTarget
    BmcOf <- SingleBmcOf
    Cycles <- SingleCycle
    TargetOf <- SingleTargetOf
    slow_disabled = {}
    max_concurrent_cycles = 1
    max_concurrent_refreshes = 1
SPECIFICATION FairSpec
INVARIANTS ReleasedHoldsNothing NoOrphanedFuture NoLostWakeUp NothingEscapesCleanup
PROPERTIES ImplementsTargetCycle SlowNeverStartsCold EveryCycleIsWoundUp
CHECK_DEADLOCK FALSE
