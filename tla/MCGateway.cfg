\* Two changes or failures in a kv gateway, two failed readings in a static one.
CONSTANTS
    None = None
    NoBucket = NoBucket
    t1 = t1
    t2 = t2
    Targets <- Aliased
    q1 = q1
    q2 = q2
    Requests = {q1, q2}
    Configs <- Deployments
    Faults = {"edit", "destroy", "watch", "fetch"}
    MaxFaults = 2
SPECIFICATION FairSpec
INVARIANTS TypeOK BlindWatcherIsNoticed SteadyEntriesDecide
PROPERTIES AdmissionFollowsBacklog TablesFollowBuckets
CHECK_DEADLOCK FALSE
