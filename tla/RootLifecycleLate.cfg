\* A UI thread that is ready too late.
SPECIFICATION Spec
CONSTANTS
    Objects = {bho, helperbar}
    NoObject = NoObject
    MaxRoots = 2
    MaxPolls = 2
    MaxSites = 0
CHECK_DEADLOCK FALSE
INVARIANTS
    RunningThreadIsInited
