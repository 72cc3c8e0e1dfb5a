\* Jobs of both lanes, one after the other: a v2 schema with two levels of children
\* in Slow, and a v1 schema with more components and records than a batch.
CONSTANTS
    Definitions <- TheDefinitions
    Resources <- TheResources
    LaneResources <- TheLanes
    Captures <- TheCaptures
    max_pages = 2
    max_members = 2
    max_depth = 2
    Bodies <- TheBodies
    MemberLists <- TheMembers
    Components = 3
    Keys <- TheKeys
    MaxRecords <- TheRecords
    batch_size = 2
    RootLinks <- TheRootLinks
    select_only = TRUE
    chassis_capture = 2
    Rules <- TheRules
    Observed <- TheObserved
SPECIFICATION FairSpec
INVARIANTS
    TypeOK
    LineageIsKept
    CollectionsAreWhole
    CrawlWithinBudget
    SystemBodyIsUsedOnce
    NothingLeftInFlight
PROPERTIES
    OneDiscoveryPerCycle
    EveryJobEnds
