CONSTANTS
    Sessions = {s1}
    None = None
    Geometries = {}
    QueueCapacity = 2
    MaxPending = 0
    MaxBatch = 2
    MaxCached = 1
    MaxNode = 2
    MaxOutput = 1
    MaxResizes = 0
    Faults = {}
SPECIFICATION Spec
INVARIANTS
    NodeSessionsAreTracked
\* The system rests when every terminal is silent or gone, and when the worker stopped.
CHECK_DEADLOCK FALSE
