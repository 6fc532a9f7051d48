CONSTANTS
    MaxGenerations = 1
    MaxFaults = 0
SPECIFICATION CaptureSpec
INVARIANT LiveTapHearsAllSources
CHECK_DEADLOCK FALSE
