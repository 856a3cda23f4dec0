SPECIFICATION EitherSpec
CONSTANTS
    home = home
    app = app
    Apps = {home}
    None = None
    RestoreAttempts = 1
    SessionFailures = 1
    StartBudget = 1
    RestoreBurst = 1
    MaxCommands = 1
    MaxFaults = 1
    Faults = {"app", "hang", "compositor", "refuse", "kill"}
INVARIANTS
    StockTruth
PROPERTIES
    SpentStaysAtStock
    AlwaysResolves
CHECK_DEADLOCK FALSE
