SPECIFICATION Spec
CONSTANTS
    c1 = c1
    c2 = c2
    d1 = d1
    None = None
    Callers <- MCCallers
    DeviceList <- MCDeviceList
    Inputs <- MCInputs
    MaxCalls = 3
    MaxStatus = 1
    MaxAttempts = 2
INVARIANTS MirrorExplained AnswersAreTrue
PROPERTY StoredIsOnNode
CONSTRAINT Undisturbed
SYMMETRY Symmetry
CHECK_DEADLOCK FALSE
