SPECIFICATION Spec
CONSTANTS
    NoDriver = NoDriver
    Drivers = {oled, kbd, touch}
    Builtin = {oled, kbd}
    BoardDrivers = {oled, kbd}
    Displays = {oled}
    InputDrivers = {kbd, touch}
    Radios = {}
    Listed = {oled, kbd, touch}
    Builds = {"release", "debug", "sim"}
    MaxLoaded = 2
    MaxInputs = 1
    MaxStorage = 1
INVARIANTS TypeOK DriversAreSound
PROPERTIES TamperedNeverRuns BootEndsUnlessConfigIsAsked
CHECK_DEADLOCK FALSE
