SPECIFICATION Spec
CONSTANTS
    Versions = {1, 2}
    Keys = {"ours", "other"}
    Trusted = {"ours"}
    Prereleases = {2}
    Contents = {"a", "b"}
    MaxSerial = 3
    CatalogFaults = 2
    Sources <- SourceTrees
    Foreign <- ForeignEntries
    EntryLimit = 5
    FileLimit = 3
    TotalLimit = 7
    MAX_ENTRYPOINT_BYTES = 2
    MAX_ASSET_BYTES = 2
    MAX_PACKAGE_BYTES = 5
    RootCommands = 4
    RootFaults = 2
    AppDirs = {"chess", "home"}
    REQUIRED_COMPONENTS = {"paperclip-compositor", "home"}
    Compiled = {"home"}
    Runs = {1, 2}
    MaxVersion = 2
    MaxEdits = 1
    TrainCommands = 1
    Components <- ComponentList
    Includes <- IncludeLists
    STATE_VERSION = 1
    MaxBuilds = 1
    MaxPackages = 2
    MaxFaults = 1
    Shells = {1, 2}
    Hosts = {"10.11.99.1", "lan"}
    USB_HOST = "10.11.99.1"
    RETAIN = 1
    Pids = {1, 2}
    MaxRuns = 2
    MaxMoves = 1
    MaxKills = 1
    MaxPolls = 1
    Here = 2
    Parts = 2
    MaxPid = 3
    MaxEvents = 4
    MaxDrops = 1
    MaxCommands = 2
INVARIANTS
    PackagingIsSound
    ShippedIsWhatWasBuilt
    DeskTellsTheTruth
PROPERTIES
    CatalogIsSound
    RootIsSound
CHECK_DEADLOCK FALSE
