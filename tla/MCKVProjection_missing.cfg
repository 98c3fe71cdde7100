\* One crash with a change and a rotation of a key not yet projected.
CONSTANTS
    None = None
    Subs = {}
    Projects = {}
    KeyIds = {k1}
    AliasNames = {}
    Targets = {t1}
    Vals = {v1}
    MaxLog = 3
    Faults = {"crash"}
    MaxFaults = 1
SPECIFICATION Spec
INVARIANTS RememberedHashHasEntry
CHECK_DEADLOCK FALSE
