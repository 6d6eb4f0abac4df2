\* The UI thread and two tabs.
SPECIFICATION LSpec
CONSTANTS
    Threads = {ui, tab1, tab2}
    UIThread = ui
    NoThread = NoThread
    SR_LAST = 13
    MaxDepth = 2
    MaxNested = 39
    MaxStarve = 0

INVARIANTS
    LTypeOK
    DeadlockNeedsSection
    SenderReleasesForHandler
    SectionUnderManager
    OnePanePerFamily
    OneSitePerScript
