\* Two BHOs and a helperbar that come and go, two roots one after the other,
\* with up to two script sites to destroy at the end.
SPECIFICATION Spec
CONSTANTS
    Objects = {bho1, helperbar1, bho2}
    NoObject = NoObject
    MaxRoots = 2
    MaxPolls = 2
    MaxSites = 2
CHECK_DEADLOCK FALSE
INVARIANTS
    TypeOK
    RootLivesWithObjects
    InitedMeansServed
    ManagerOutlivesThread
PROPERTIES
    OnlySitesHoldRoot
