\* The claim of the comment in mark_reaped.
CONSTANTS
    Requests = {r1}
    Ids = {i1}
    Specs = {s1}
    Deletes = {d1}
    Daemon = Daemon
    None = None
    MayShutdown = FALSE
SPECIFICATION Spec
INVARIANTS
    NoSignalWhileReaping
CHECK_DEADLOCK FALSE
