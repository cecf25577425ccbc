CONSTANTS
    Processes = {p1}
    Parsable = {1, 2}
    MaxLen = 2
    ReadCount = 2
    ReplayCount = 2
    MaxMessages = 2
    MaxCrashes = 0
    MaxErrors = 0
SPECIFICATION Spec
INVARIANT
    AckedSucceeded
CHECK_DEADLOCK FALSE
