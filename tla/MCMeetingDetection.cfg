CONSTANTS
    Apps = {zoom, meet}
    InitiallyEnabled = TRUE
    EventCapacity = 1
    ForwardCapacity = 1
    CtlCapacity = 2
    MaxLines = 4
    MaxAsks = 2
    MaxFailures = 1
SPECIFICATION Spec
INVARIANTS
    DetectionTypeOK
    BridgeKnowsLastLine
PROPERTIES
    EndedAnswersStarted
    DisableTakesEffect
    HandlesDroppedEnds
CHECK_DEADLOCK FALSE
