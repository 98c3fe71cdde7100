\* Violation: the cancel message is gone before the worker listens for it.
CONSTANTS
    Requests = {r1}
    Streaming = {}
    Workers = {w1}
    NoWorker = NoWorker
    MaxDeliver = 2
    MaxInflight = 1
    ChanCap = 1
    MaxChunks = 0
    Faults = {"hangup"}
SPECIFICATION Spec
INVARIANT CancelCoversPickup
CHECK_DEADLOCK FALSE
