CONSTANTS
    Sessions = {1, 2}
    NoSession = 0
    ChannelCapacity = 1
    BatchMax = 2
    MaxMessages = 0
    MaxFaults = 1
SPECIFICATION Spec
PROPERTIES
    HandlesAreStopped
CHECK_DEADLOCK FALSE
