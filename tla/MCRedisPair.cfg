CONSTANTS
    Processes = {p1, p2}
    Parsable = {1, 3, 4}
    MaxLen = 2
    ReadCount = 2
    ReplayCount = 4
    MaxMessages = 4
    MaxCrashes = 1
    MaxErrors = 1
SPECIFICATION FairSpec
INVARIANTS
    TypeOK
    AckedWasAttempted
    NothingForgotten
    RepeatsBounded
PROPERTIES
    InOrder
    EveryMessageHandled
CHECK_DEADLOCK FALSE
