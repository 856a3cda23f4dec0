SPECIFICATION Spec
CONSTANTS
    v1 = v1
    v2 = v2
    v3 = v3
    None = None
    Versions <- MCVersions
    StateVersion <- MCStateVersion
    RollbackTo <- MCRollbackTo
    Faults = {}
    MaxFaults = 0
    MaxCommands = 2
    Autostart = FALSE
PROPERTY RollbackGoesBack
CHECK_DEADLOCK FALSE
