\* Liveness: crashes, shutdowns, hangups, failing publishes, lost deletes,
\* cancels, acks and usage events, for a request answered in one frame.
CONSTANTS
    Requests = {r1}
    Streaming = {}
    Workers = {w1}
    NoWorker = NoWorker
    MaxDeliver = 2
    MaxInflight = 1
    ChanCap = 1
    MaxChunks = 0
    Faults = {"crash", "shutdown", "ack", "hangup", "publish",
              "transport"}
SPECIFICATION FairSpec
PROPERTIES EveryHandlerReturns AbandonedWorkStops StartedIsMetered
CHECK_DEADLOCK FALSE
