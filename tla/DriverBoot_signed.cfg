SPECIFICATION Spec
CONSTANTS
    NoDriver = NoDriver
    Drivers = {oled, kbd, touch}
    Builtin = {oled, kbd}
    BoardDrivers = {oled, kbd}
    Displays = {oled}
    InputDrivers = {kbd, touch}
    Radios = {}
    Listed = {oled, kbd, touch}
    Builds = {"release"}
    MaxLoaded = 2
    MaxInputs = 1
    MaxStorage = 1
INVARIANT SignedDriversLoad
CHECK_DEADLOCK FALSE
