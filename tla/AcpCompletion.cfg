\* A prompt and steering input that the agent leaves to be sent as a prompt.
CONSTANTS
    MaxInputs = 2
    MaxFaulted = 0
    MaxStops = 0
    Faults = {}
SPECIFICATION Spec
PROPERTIES
    CompletionReported
CHECK_DEADLOCK FALSE
