\* Two runs compete for one slot, with every fault the code handles.
CONSTANTS
    Runs = {r1, r2}
    Max = 1
    Commands = 2
    Scheduled = {}
    Hosted = {r2}
    Faulty = {r1}
    Faults = {"launch", "crash", "io"}
    None = None
SPECIFICATION Spec
INVARIANTS
    OneRunPerSlot
    FailedToStartNeverRuns
    RunningIsSeen
PROPERTIES
    BoardSpec
    DeathIsSeen
\* Every run may have ended.
CHECK_DEADLOCK FALSE
