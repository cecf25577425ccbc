CONSTANTS
    Consumers = {c1, c2}
    NoTask = NoTask
    MaxSize = 2
    MaxEvents = 5
SPECIFICATION FairSpec
INVARIANTS
    TypeOK
    Conservation
    ExclusiveHandling
    StopFindsAllHandled
PROPERTIES
    RefinesLossyFifo
    BacklogIsServed
    IdleCloseReturns
CHECK_DEADLOCK FALSE
