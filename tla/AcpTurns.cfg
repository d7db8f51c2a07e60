\* Three inputs, or two where a fault occurs, and a stop.
CONSTANTS
    MaxInputs = 3
    MaxFaulted = 2
    MaxStops = 1
    Faults = {"io", "loss", "close"}
SPECIFICATION Spec
INVARIANTS
    NeverResent
    IdleMeansQuiet
    CompletedByItsOwn
    ReportedOnce
    RestIsSettled
PROPERTIES
    StopHolds
\* Every input may have ended.
CHECK_DEADLOCK FALSE
