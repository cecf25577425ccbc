CONSTANTS
    Replicas = {r1, r2}
    Lures = {l1, l2, l3}
    NoLure = NoLure
    Ttl = 1
    TtlOf <- MCTtlOf
    Kubernetes = TRUE
    MaxTime = 3
    MaxFailures = 2
SPECIFICATION FairSpec
INVARIANTS
    TypeOK
    RecordedPodsKeepRow
    DamageBounded
PROPERTIES
    NoEarlyReap
    ExpiredGoOrReapersEnd
CHECK_DEADLOCK FALSE
