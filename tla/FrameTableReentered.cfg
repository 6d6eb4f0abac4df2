\* A handler that runs inside the script of a document.
SPECIFICATION Spec
CONSTANTS
    Docs = {d1, d2}
    NoDoc = NoDoc
    MaxFrames = 3
    MaxNesting = 1
INVARIANTS
    OneFramePerDocument
