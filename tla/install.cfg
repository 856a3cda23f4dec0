SPECIFICATION Spec
CONSTANTS
    Versions <- MCVersions
    None = None
    Procs = {p1, p2}
    Faults = {"kill", "power", "io", "hasty"}
    MaxFaults = 2
    MaxCommands = 3
INVARIANTS
    SelectedComplete
PROPERTIES
    RecoveredClean
SYMMETRY Symmetry
CHECK_DEADLOCK FALSE
