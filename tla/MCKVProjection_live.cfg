\* Two faults over logs of two events: what a process that stays up reaches.
CONSTANTS
    None = None
    Subs = {}
    Projects = {}
    KeyIds = {k1}
    AliasNames = {a1}
    Targets = {t1}
    Vals = {v1}
    MaxLog = 2
    Faults = {"crash", "error", "resync", "repeat"}
    MaxFaults = 2
SPECIFICATION FairSpec
PROPERTIES Converges
CHECK_DEADLOCK FALSE
