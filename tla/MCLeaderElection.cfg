CONSTANTS
    Replicas = {r1, r2}
    Ttl = 5
    Late = 1
    MaxTime = 16
    MaxFailures = 1
SPECIFICATION Spec
SYMMETRY ReplicaSymmetry
INVARIANTS
    TypeOK
    AtMostOneLeader
    LeaderHoldsLock
    OneStartPerLock
    FreeLockIsTaken
CHECK_DEADLOCK FALSE
