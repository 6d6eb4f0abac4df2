\* A top document, frames and subframes; handlers inside two scripts.
SPECIFICATION Spec
CONSTANTS
    Docs = {d1, d2, d3}
    NoDoc = NoDoc
    MaxFrames = 4
    MaxNesting = 1
INVARIANTS
    TypeOK
    ManagedHasFrame
    LinksInTable
    LinksFollowTree
    InsertFindsRoom
    RefreshFindsAll
