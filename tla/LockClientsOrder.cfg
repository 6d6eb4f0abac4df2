\* The order of requests Module.cpp asks for.
SPECIFICATION LSpec
CONSTANTS
    Threads = {ui, tab1}
    UIThread = ui
    NoThread = NoThread
    SR_LAST = 13
    MaxDepth = 2
    MaxNested = 39
    MaxStarve = 0
PROPERTIES
    RequestsInOrder
