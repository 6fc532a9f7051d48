CONSTANTS
    Meetings = {1, 2}
    NoMeeting = 0
    StartAttempts = 1
    BusCapacity = 4
    MaxArms = 2
    MaxCancels = 1
    MaxFaults = 0
    MaxCrashes = 1
    StopCapacity = 2
    MaxEnds = 1
    MaxToggles = 1
    HoursPass = TRUE
SPECIFICATION PipelineSpec
INVARIANTS
    PipelineTypeOK
    CapIffRecording
    HandedOverOnce
PROPERTIES
    RecorderContract
    ShownCaptureEnds
CHECK_DEADLOCK FALSE
