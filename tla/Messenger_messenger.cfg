SPECIFICATION Spec
CONSTANTS
    Payloads = {hello, help, essay}
    Oversized = {essay}
    MaxQueue = 2
    Retries = {1}
    Lifetimes = {2}
    NoMem = 9
    InvalidArg = 10
    Batch = 2
    MaxNow = 2
    MaxCrashes = 1
INVARIANTS TypeOK DeliveryIsBounded
PROPERTIES OverIsOver Settles
CHECK_DEADLOCK FALSE
