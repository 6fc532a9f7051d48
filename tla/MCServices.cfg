CONSTANTS
    Recordings = {1, 2}
    Languages = {"auto", "ru"}
    RealtimeLanguage = "auto"
    NoModel = NoModel
    MaxEvents = 2
    MaxGenerations = 2
    MaxFaults = 3
    MaxFrames = 3
    MaxErrors = 2
    OpenFrames = 2
    CloseFrames = 2
    MaxSegmentFrames = 5
    MinVoicedFrames = 3
    PreRollFrames = 1
    OverlapFrames = 2
    MaxStream = 9
    MaxMeetings = 2
    MaxChunks = 1
    TapCapacity = 2
    MaxQueue = 2
    MaxPending = 2
    MaxBackoff = 1
    MaxTurns = 3
    MaxQuestions = 1
    MaxResets = 1
    EventBuffer = 2
    MaxAgentTurns = 3
    MaxOutput = 3
    MaxFindings = 2
    MaxSpan = 5
    Agents = {"claude", "codex"}
    NoAgent = "none"
    MaxTasks = 2
    MaxCommands = 3
    MaxPanelMeetings = 2
    MaxEntries = 3
    Apps = {"mail", "vault"}
    Excluded = {"vault"}
    RawCapacity = 1
    QueueCapacity = 2
    MaxInputs = 3
    MaxSwitches = 1
    Windows = {"mail", "deal"}
    MaxTree = 2
    Threshold = 1
    CacheEntries = 1
    HopCapacity = 1
    MaxTtls = 1
    MaxHops = 3
    MaxRedraws = 2
    CallApps = {"zoom", "teams"}
    SessionsPerApp = 2
    CallbackCapacity = 2
    InitialSessions = 1
    MaxTransitions = 3
    Fields = {"tracking_paused", "meeting_detection_enabled"}
    Writers = {"ui", "task"}
    MaxWrites = 3
    MaxDeaths = 1
    MaxFrame = 9
    MaxChunk = 2
    MaxGapFrames = 5
    Versions = {1, 2}
    MaxCommits = 2
    MaxLaunches = 3
    MaxSeconds = 1
SPECIFICATION ServicesSpec
INVARIANTS
    ServicesTypeOK
    SoundKeepsItsTime
    TurnsAreOfTheirMeeting
    
    ShellIsAsSwitched
    
    ActivityIsFaithful
    DetectionOnWindows
    
PROPERTIES
    ModelsFollowSettings
    SessionsAreSound
    ConversationIsFaithful
    
CHECK_DEADLOCK FALSE
