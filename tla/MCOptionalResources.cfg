\* The same jobs, asked what a job may fail at.
CONSTANTS
    Definitions <- TheDefinitions
    Resources <- TheResources
    LaneResources <- TheLanes
    Captures <- TheCaptures
    max_pages = 2
    max_members = 2
    max_depth = 2
    Bodies <- TheBodies
    MemberLists <- TheMembers
    Components = 3
    Keys <- TheKeys
    MaxRecords <- TheRecords
    batch_size = 2
    RootLinks <- TheRootLinks
    select_only = TRUE
    chassis_capture = 2
    Rules <- TheRules
    Observed <- TheObserved
SPECIFICATION Spec
INVARIANTS
    OnlyRequiredEndsTheJob
