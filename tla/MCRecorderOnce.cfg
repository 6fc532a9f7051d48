CONSTANTS
    Meetings = {a, b}
    NoMeeting = NoMeeting
    StartAttempts = 2
    BusCapacity = 2
    MaxArms = 1
    MaxCancels = 1
    MaxFaults = 1
    MaxCrashes = 1
SPECIFICATION Spec
PROPERTIES
    
    CallsReturn
    AbandonedArmEnds
CHECK_DEADLOCK FALSE
