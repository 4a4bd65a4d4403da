SPECIFICATION Spec
CONSTANTS
    MaxVersion = 2
    FileSystems = {"fat"}
    Entries = 1
    MaxStages = 2
    MaxFaults = 0
INVARIANT InstallActivates
