CONSTANTS
    Attachments = {a1, a2}
    Legacy = {}
    Fallback = {a2}
    None = None
    Limit = 1
    Capacity = 1
    MaxOutput = 0
    MaxMessages = 2
    Ends = {"deleted"}
SPECIFICATION Spec
INVARIANTS
    ExclusiveDelivery
    InputInOrder
PROPERTIES
    WaiterTakesVacancy
    DeletionEndsAll
\* Every attachment may have ended, or wait for a client that says nothing.
CHECK_DEADLOCK FALSE
