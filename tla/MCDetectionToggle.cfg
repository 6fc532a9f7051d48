CONSTANTS
    Apps = {zoom}
    InitiallyEnabled = TRUE
    EventCapacity = 1
    ForwardCapacity = 1
    CtlCapacity = 2
    MaxLines = 2
    MaxAsks = 2
    MaxFailures = 1
SPECIFICATION Spec
PROPERTIES
    RefusedStartIsRunning
CHECK_DEADLOCK FALSE
