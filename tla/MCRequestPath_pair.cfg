\* Two plain requests compete for one slot on two workers.
CONSTANTS
    Requests = {r1, r2}
    Streaming = {}
    Workers = {w1, w2}
    NoWorker = NoWorker
    MaxDeliver = 2
    MaxInflight = 1
    ChanCap = 1
    MaxChunks = 0
    Faults = {"crash"}
SYMMETRY PairSymmetry
SPECIFICATION Spec
INVARIANT EngineConcurrency
CHECK_DEADLOCK FALSE
