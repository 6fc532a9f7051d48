CONSTANTS
    Sessions = {1, 2}
    NoSession = 0
    ChannelCapacity = 1
    BatchMax = 2
    MaxMessages = 2
    MaxFaults = 1
SPECIFICATION Spec
INVARIANTS
    EngineTypeOK
    WrittenInOrder
    StoppedIsComplete
PROPERTIES
    ActivityLogSpec
    StopReturns
    NothingLeftRunning
CHECK_DEADLOCK FALSE
