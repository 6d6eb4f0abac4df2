SPECIFICATION Spec
CONSTANTS
    Browsers = {b1, b2}
    MaxId = 3
    MaxObjects = 3
    MaxLost = 1
INVARIANTS
    TypeOK
    HolderIsRegistered
    RefsCountHolders
    IdNamesBrowser
    SitedBHOIsAsked
PROPERTY
    FaultNeedsUnsitedBHO
CHECK_DEADLOCK FALSE
