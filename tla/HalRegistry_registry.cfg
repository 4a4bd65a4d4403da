SPECIFICATION Spec
CONSTANTS
    Tasks = {t1, t2}
    Readers = {q}
    Nobody = Nobody
    Drivers = {a, b}
    NoRequest = NoRequest
    Kinds = {"display", "input"}
    Singles = {"display"}
    MaxInputs = 2
    MaxStorage = 2
    MaxCalls = 3
INVARIANT ReadsAreCoherent
PROPERTY ImplementsAtomicRegistry
