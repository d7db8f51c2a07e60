CONSTANTS
    Attachments = {a1}
    Legacy = {a1}
    Fallback = {}
    None = None
    Limit = 1
    Capacity = 1
    MaxOutput = 3
    MaxMessages = 1
    Ends = {"closed", "status", "deleted"}
SPECIFICATION Spec
INVARIANTS
    ScreenIsContiguous
    LiveBoundary
    FinalIsLast
PROPERTIES
    EndIsTold
    ScreensCatchUp
    DeletionEndsAll
\* Every attachment may have ended, or wait for a client that says nothing.
CHECK_DEADLOCK FALSE
