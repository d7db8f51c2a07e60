\* Liveness: one PUT, two DELETEs of its id, and a shutdown.
CONSTANTS
    Requests = {r1}
    Ids = {i1}
    Specs = {s1}
    Deletes = {d1, d2}
    Daemon = Daemon
    None = None
    MayShutdown = TRUE
SPECIFICATION Spec
PROPERTIES
    ShutdownReturns
    DeletedIsReaped
CHECK_DEADLOCK FALSE
