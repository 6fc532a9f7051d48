CONSTANTS
    Meetings = {a, b}
    NoMeeting = NoMeeting
    StartAttempts = 2
    BusCapacity = 2
    MaxArms = 2
    MaxCancels = 1
    MaxFaults = 1
    MaxCrashes = 1
SPECIFICATION Spec
INVARIANTS
    TypeOK
    NoOrphanCapture
    StopTakesOwnSession
    
    CompletedIsFindable
    NoUnreferencedFiles
    NoStrandedRow
PROPERTIES
    TerminalIsFinal
CHECK_DEADLOCK FALSE
