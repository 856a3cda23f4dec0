SPECIFICATION Spec
CONSTANTS
    h = h
    r = r
    Procs = {h, r}
    Honest = {h}
    Homes = {h}
    MaxFrames = 3
    ClientSends = 1
    MaxPanelFaults = 1
    MaxSleeps = 1
    Capacity = 2
    Reasons = {"switch", "sleep"}
    Nil = Nil
    MaxDraws = 2
    MaxInputs = 1
    MaxRests = 1
    MaxTasks = 1
    MaxQueries = 0
    MaxEffects = 1
    MaxSends = 2
    Width = 2
    MaxPointers = 2
    MaxSystem = 1
    MaxFaults = 1
    MaxSwitches = 1
    TouchSlots = {0, 1}
    MaxIds = 4
    MaxDrops = 1
    Contacts = {1, 2, 3}
    Points <- Line
    Side = 6
    EDGE_ZONE_DEPTH = 1
    EDGE_SWIPE_MIN_TRAVEL = 3
    PINCH_MIN_CLOSING = 3
    MIN_PINCH_FINGERS = 3
    W = 2
    H = 2
    Strokes <- Marks
    Sysfs <- Trees
    MaxStrokes = 3
INVARIANTS
    CompositorIsSound
    SessionIsSound
    PanelLoopIsSound
    InputIsSound
    PanelTellsTheTruth
PROPERTIES
    SessionImplementsContract
    GesturesAreFinal
CHECK_DEADLOCK FALSE
