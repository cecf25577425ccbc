CONSTANTS
    Replicas = {r1}
    Lures = {l1, l2}
    NoLure = NoLure
    Ttl = 1
    TtlOf <- MCTtlOf
    Kubernetes = TRUE
    MaxTime = 3
    MaxFailures = 1
SPECIFICATION FairSpec
PROPERTY
    ExpiredIsCleanedUp
CHECK_DEADLOCK FALSE
