SPECIFICATION Spec
CONSTANTS
    v1 = v1
    v2 = v2
    v3 = v3
    None = None
    Versions <- MCVersions
    StateVersion <- MCStateVersion
    RollbackTo <- MCRollbackTo
    Faults = {"power", "kill", "io"}
    MaxFaults = 2
    MaxCommands = 2
    Autostart = TRUE
INVARIANTS
    TypeOK
    CurrentComplete
    JournalTruth
    SelectedWasGraded
    NoOrphanStaging
PROPERTIES
    CommitIsEarned
    SwapOnlyAtStock
CHECK_DEADLOCK FALSE
