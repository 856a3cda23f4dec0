SPECIFICATION Spec
CONSTANTS
    Reasons = {"switch"}
    None = None
    MaxDraws = 1
    MaxInputs = 0
    MaxRests = 1
    MaxTasks = 1
    MaxQueries = 1
    MaxEffects = 1
    MaxSends = 1
    MaxSessions = 2
    MaxFaults = 1
    MaxKills = 1
    MAX_BOOT_ATTEMPTS = 2
    StartLimitBurst = 2
    Releases = {1}
    Apps = {"home", "chess"}
    MaxEdits = 2
    MaxTaps = 1
PROPERTIES
    ExitEnds
    StockReturns
    LaunchesEndOrArrive
    EditReachesTheWindow
CHECK_DEADLOCK FALSE
