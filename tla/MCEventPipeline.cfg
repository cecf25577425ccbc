CONSTANTS
    Consumers = {c1, c2}
    NoTask = NoTask
    None = None
    Approvers = {"alice"}
    Routable = {"far"}
    AddressBits = 2
    Events <- MCEvents
    RuleFiles <- MCRuleFiles
    AllowedSubnets <- MCAllowedSubnets
    BlockedSubnets <- MCBlockedSubnets
    Narrow = 0
    Wide = 1
    BaselineWindow = 0
    MaxEvents = 3
    MaxTime = 1
    MaxReloads = 1
    MaxFailures = 1
SPECIFICATION Spec
SYMMETRY ConsumerSymmetry
INVARIANTS
    TypeOK
    NothingSkipped
    AlertsEndNothing
    OneFilePerEvent
    UnsharedThresholdIsExact
    NarrowestNeverMisses
CHECK_DEADLOCK FALSE
