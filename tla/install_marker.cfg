SPECIFICATION Spec
CONSTANTS
    Versions <- MCVersions
    None = None
    Procs = {p1}
    Faults = {"kill"}
    MaxFaults = 1
    MaxCommands = 4
INVARIANT SelectedWhole
CHECK_DEADLOCK FALSE
