\* Two PUTs and two DELETEs of one id, and a shutdown at any point.
CONSTANTS
    Requests = {r1, r2}
    Ids = {i1}
    Specs = {s1}
    Deletes = {d1, d2}
    Daemon = Daemon
    None = None
    MayShutdown = TRUE
SPECIFICATION Spec
SYMMETRY Symmetry
INVARIANTS
    OneShellPerId
    DeleteMeansGone
    StatusTruthful
    NoOrphanShell
    ShutdownLeavesNothing
CHECK_DEADLOCK FALSE
