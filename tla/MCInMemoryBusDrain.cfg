CONSTANTS
    Consumers = {c1, c2}
    NoTask = NoTask
    MaxSize = 2
    MaxEvents = 4
SPECIFICATION FairSpec
PROPERTIES
    CloseDrainsQueue
CHECK_DEADLOCK FALSE
