\* Two requests at a time over a new log and three old ones, two faults.
CONSTANTS
    None = None
    Platform = Platform
    s1 = s1
    s2 = s2
    p1 = p1
    k1 = k1
    a1 = a1
    a2 = a2
    Subs = {s1, s2}
    Projects = {p1}
    KeyIds = {k1}
    AliasNames = {a1, a2}
    Global = {a2}
    Names = {"n"}
    Vals = {None, "v"}
    Targets = {"t"}
    Callers = {c1, c2}
    Commands <- Sends
    Histories <- Logs
    MaxAppends = 2
    Faults = {"crash", "sql", "kv", "relay", "resync"}
    MaxFaults = 2
SPECIFICATION FairSpec
INVARIANTS TypeOK OrgKeepsAnOwner EventsFitTheLog
    AuthorizedByARoleOnceHeld RowsCoverMarker
PROPERTIES RowsConverge
CHECK_DEADLOCK FALSE
