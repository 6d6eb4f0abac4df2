\* Three threads that compete for two resources, one of them with nested guards at a
\* time: one is signalled while another waits for what became free, and two of them
\* close a circle.
SPECIFICATION Spec
CONSTANTS
    Threads = {ui, tab1, tab2}
    NoThread = NoThread
    SR_LAST = 2
    MaxDepth = 2
    MaxNested = 1
    MaxStarve = 0
INVARIANTS
    TypeOK
    OwnershipMatchesGuards
    SectionMatchesOwnership
    ResourcesMatchOwnership
    OrderPreventsDeadlock
PROPERTIES
    HandedOverWhenFree
    ImplementsRecursiveLocks
    FreeResourceIsTaken
