CONSTANTS
    Consumers = {c1}
    NoTask = NoTask
    None = None
    Approvers = {"alice"}
    Routable = {"far"}
    AddressBits = 2
    Events <- MCEvents
    RuleFiles <- MCRuleFiles
    AllowedSubnets <- MCAllowedSubnets
    BlockedSubnets <- MCBlockedSubnets
    Narrow = 1
    Wide = 2
    BaselineWindow = 0
    MaxEvents = 3
    MaxTime = 2
    MaxReloads = 0
    MaxFailures = 0
SPECIFICATION Spec
INVARIANT
    FiresWhenReached
CHECK_DEADLOCK FALSE
