SPECIFICATION Spec
CONSTANTS
    NFiles = 3
    MaxVersion = 3
    MaxFaults = 3
    ImageFaults = FALSE
    NvsErases = FALSE
INVARIANTS GenerationIsWhole KernelRunsOnWholeBundle
PROPERTIES
    ConfirmedBundleStays NeverReselectsOldImage
    ImplementsAtomicGeneration
