\* Three requests of one cycle, of which its semaphore lets two in, and one of another,
\* all at one BMC.  Of three that are past it two have the bytes, with a byte over.  All
\* but r3 are of the Slow lane, which may have one of the two slots.
CONSTANTS
    r1 = r1
    r2 = r2
    r3 = r3
    r4 = r4
    c1 = c1
    c2 = c2
    b1 = b1
    Requests <- FourRequests
    SlowRequests <- AllButOne
    Cycles <- TwoCycles
    CycleOf <- ThreeInTheFirst
    Bmcs <- OneBmc
    BmcOf <- SameBmc
    target_concurrency = 2
    capacity_bytes = 5
    max_response_bytes = 2
    max_attempts <- OneRetries
SPECIFICATION FairSpec
INVARIANTS
    TypeOK
    BudgetAccounting
    NobodyParkedForNothing
PROPERTIES
    NoAttemptTooLate
    ImplementsLeaseSlots
    EveryRequestEnds
CHECK_DEADLOCK FALSE
