\* One key: its budget is edited, a month passes, the process restarts and
\* calls fail.
CONSTANTS
    k1 = k1
    Keys = {k1}
    Hashes = {h1}
    IdOf <- OneKey
    Budgets = {1, 2}
    NoKey = NoKey
    NoEntry = NoEntry
    NoReading = NoReading
    LastMonth = 2
    MaxUsage = 1
    MaxEdits = 2
    MaxRestarts = 1
    Faults = {"kv", "sink"}
SPECIFICATION FairSpec
INVARIANTS TypeOK CleanIsPublished EntriesAreSound
PROPERTY Converges
CHECK_DEADLOCK FALSE
