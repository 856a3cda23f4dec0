SPECIFICATION RecoverySpec
CONSTANTS
    None = None
    MaxFaults = 2
    v1 = v1
    v2 = v2
    v3 = v3
    Cuts = {"power"}
    UpgradeCommands = 2
    Procs = {p1}
    Versions <- MCVersions
    Faults = {"kill", "power"}
    MaxCommands = 4
INVARIANTS
    StateReadable
    RunningKept
    FallbackUsable
PROPERTIES
    EventuallyResolved
    LatestWins
    LockReleased
CHECK_DEADLOCK FALSE
