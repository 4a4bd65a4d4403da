SPECIFICATION Spec
CONSTANTS
    NFiles = 2
    MaxVersion = 2
    MaxFaults = 3
    ImageFaults = TRUE
    NvsErases = TRUE
PROPERTIES JournalIsResolved
