SPECIFICATION Spec
CONSTANTS
    Engine <- ChessEngine
    StartPosition <- ChessStart
    N = 3
    THREEFOLD_CLAIM = 2
    FIVEFOLD_AUTOMATIC = 3
    FIFTY_MOVE_CLAIM = 3
    SEVENTY_FIVE_MOVE_AUTOMATIC = 9
    MaxChessFaults = 1
    MaxStarts = 2
    B = 2
    Stream <- TwoDraws
    TargetGivens <- Targets
    NextDifficulty <- Levels
    FIRST_PUZZLE = "hard"
    MAX_DAMAGE_RECTS = 3
    Touched = {0, 5, 8, 9}
    MaxTaps = 2
    MaxSudokuFaults = 1
    MaxLaunches = 2
    READS <- TwoReads
    QueriesPerSecond = 3
    MaxConfirms = 1
    MaxSuspends = 1
    Apps = {1, 2}
    Newest = 2
    MAX_ATTEMPTS = 1
    MaxRequests = 2
    MaxOutside = 1
    Held = {1}
    Tiles = {1, 2}
    Fingers = {1, 2}
    Budget = 1
    MaxReadings = 2
    MaxTouches = 2
INVARIANTS
    GamesAreSound
    ScreensAreSound
CHECK_DEADLOCK FALSE
