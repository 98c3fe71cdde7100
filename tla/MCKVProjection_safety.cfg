\* Two faults of any kind over logs of three events of a key and an alias.
CONSTANTS
    None = None
    Subs = {}
    Projects = {}
    KeyIds = {k1}
    AliasNames = {a1}
    Targets = {t1}
    Vals = {v1}
    MaxLog = 3
    Faults = {"crash", "error", "resync", "repeat"}
    MaxFaults = 2
SPECIFICATION Spec
INVARIANTS TypeOK NoHole RotationLeavesNoGap MissesAreSelfMade
PROPERTIES BucketsFollowLog
CHECK_DEADLOCK FALSE
