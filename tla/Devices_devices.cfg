SPECIFICATION Spec
CONSTANTS
    Boards <- BoardProfiles
    MaxStarts = 2
    MaxFaults = 2
    MaxKeys = 2
    Pictures = {2, 3}
INVARIANTS
    TypeOK
    NothingIsLeaked
    OldPictureIsShown
PROPERTIES
    InputIsReported
    ScreenCatchesUp
CHECK_DEADLOCK FALSE
