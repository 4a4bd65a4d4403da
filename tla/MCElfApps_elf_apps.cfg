SPECIFICATION ElfSpec
CONSTANTS
    launcher = launcher
    maps = maps
    notes = notes
    Apps = {launcher, maps, notes, mail}
    Launchers = {launcher}
    NoApp = NoApp
    MaxSlots = 3
    MaxUptime = 2
    Horizon = 1
    LowHeap = TRUE
    CreateFails = TRUE
    Files <- MCFiles
    Permissions = {"ipc", "network", "storage"}
    Arch = "esp32s3"
    NoFile = NoFile
    MaxImages = 2
    MaxGrants = 2
    Streams = {s1, s2}
    MaxOpen = 1
INVARIANTS ForegroundIsAlive ElfTypeOK OneForeground BoundWithinTrust NothingIsLeftBehind
PROPERTIES CallbackProtocol EvictsLeastRecentlyUsed
SYMMETRY MCSymmetry
CHECK_DEADLOCK FALSE
