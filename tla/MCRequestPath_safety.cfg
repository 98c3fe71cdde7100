\* One streaming request, two workers that may crash or lose heartbeats or acks,
\* a channel that overflows at the second frame.
CONSTANTS
    Requests = {r1}
    Streaming = {r1}
    Workers = {w1, w2}
    NoWorker = NoWorker
    MaxDeliver = 2
    MaxInflight = 1
    ChanCap = 1
    MaxChunks = 2
    Faults = {"crash", "stall", "ack"}
SYMMETRY WorkerSymmetry
SPECIFICATION Spec
INVARIANTS TypeOK StreamFromOneAttempt CompleteWhenDone RedeliveryNeedsALoss
    RebilledOnlyAfterLostAck SettledIsBilled
PROPERTY SettledNeverRedelivered
CHECK_DEADLOCK FALSE
