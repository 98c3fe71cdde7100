\* A key under two hashes, BUDGETS failing and destroyed.
CONSTANTS
    k1 = k1
    Keys = {k1}
    Hashes = {h1, h2}
    IdOf <- OneKey
    Budgets = {1, 2}
    NoKey = NoKey
    NoEntry = NoEntry
    NoReading = NoReading
    LastMonth = 1
    MaxUsage = 1
    MaxEdits = 3
    MaxRestarts = 0
    Faults = {"kv", "bucket"}
SPECIFICATION FairSpec
INVARIANTS TrackedAsApplied EntriesAreTracked
PROPERTY BudgetedStaysLive
CHECK_DEADLOCK FALSE
