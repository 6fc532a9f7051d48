CONSTANTS
    Meetings = {1, 2}
    NoMeeting = 0
    StartAttempts = 1
    BusCapacity = 4
    MaxArms = 1
    MaxCancels = 1
    MaxFaults = 0
    MaxCrashes = 1
    StopCapacity = 2
    MaxEnds = 0
    MaxToggles = 2
    HoursPass = FALSE
SPECIFICATION PipelineSpec
PROPERTIES
    DeclineStopsItsOwn
CHECK_DEADLOCK FALSE
