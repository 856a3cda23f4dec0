SPECIFICATION Spec
CONSTANTS
    MaxSessions = 3
    MaxFaults = 2
    MaxKills = 1
    MAX_BOOT_ATTEMPTS = 2
    StartLimitBurst = 3
    Releases = {1, 2}
    Restorers = {"supervisor", "unit"}
    Pids = {"a", "b", "c"}
    Strays = {"s"}
    Hard = {"b"}
    Stuck = {"s"}
    Layout = "unified"
INVARIANTS
    TakeoverIsSafe
    BootIsSound
    SweepTellsTheTruth
    IsolationIsHonest
CHECK_DEADLOCK FALSE
