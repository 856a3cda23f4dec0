SPECIFICATION SessionSpec
CONSTANTS
    home = home
    app = app
    Apps <- MCApps
    None = None
    RestoreAttempts = 1
    SessionFailures = 1
    StartBudget = 2
    RestoreBurst = 1
    MaxCommands = 2
    MaxFaults = 1
    Faults = {"app"}
INVARIANTS
    StoppedAtStock
CHECK_DEADLOCK FALSE
