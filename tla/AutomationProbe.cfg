\* A probe of one run meets the runner of the other.
CONSTANTS
    Runs = {r1, r2}
    Max = 1
    Commands = 1
    Scheduled = {r1}
    Hosted = {r2}
    Faulty = {}
    Faults = {}
    None = None
SPECIFICATION Spec
PROPERTIES
    SkippedOnlyWhenFull
CHECK_DEADLOCK FALSE
