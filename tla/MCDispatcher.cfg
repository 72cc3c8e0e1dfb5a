CONSTANTS
    a = a
    b = b
    f1 = f1
    f2 = f2
    f3 = f3
    s1 = s1
    s2 = s2
    Requests <- Mixed
    SlowRequests <- MixedSlow
    Cycles <- TwoCycles
    CycleOf <- MixedCycleOf
    capacity = 2
    max_queued_per_lane = 2
    fast_batch_limit = 1
SPECIFICATION FairSpec
INVARIANTS LeaseAccounting SlotBounds NoIdleSlot
PROPERTIES ImplementsLeaseSlots EveryWaiterIsServed
