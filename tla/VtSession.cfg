CONSTANTS
    Sessions = {s1}
    None = None
    Geometries = {g1}
    QueueCapacity = 2
    MaxPending = 2
    MaxBatch = 2
    MaxCached = 2
    MaxNode = 2
    MaxOutput = 2
    MaxResizes = 2
    Faults = {"reject", "stop"}
SPECIFICATION FairSpec
INVARIANTS
    ServedIsExact
    AcceptedInOrder
    StoppedMeansRaw
    DeadHoldsNoCache
PROPERTIES
    SnapshotCatchesUp
    DisposeEnds
\* The system rests when every terminal is silent or gone, and when the worker stopped.
CHECK_DEADLOCK FALSE
