SPECIFICATION Spec
CONSTANTS
    MaxVersion = 2
    FileSystems = {"fat", "posix"}
    Entries = 2
    MaxStages = 2
    MaxFaults = 3
INVARIANTS TypeOK ArtifactsAreSound
PROPERTY ActiveAdvances
