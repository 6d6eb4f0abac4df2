\* Two processes, which may not read some of their files.
SPECIFICATION Spec
CONSTANTS
    Processes = {p1, p2}
    Files = {f1, f2, f3}
    SystemFiles = {f1, f2}
    Guids = {g1, g2}
    Values = {v1, v2}
    NoValue = NoValue
    NoScript = NoScript
    MaxEvents = 3
SYMMETRY ProcessSymmetry
INVARIANTS
    TypeOK
    OneRowPerProcess
    UncontendedRead
    AbsentWhenInterrupted
    CatalogMatchesDisk
CHECK_DEADLOCK FALSE
