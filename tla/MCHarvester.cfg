\* Three messages, of which two may be unanswered, and any three faults.
CONSTANTS
    m1 = m1
    m2 = m2
    bad = bad
    r1 = r1
    Msgs = {m1, m2, bad}
    NoReq = NoReq
    ReqOf <- Requests
    TimeOf <- Times
    MaxAckPending = 2
    Faults = {"insert", "answer", "crash", "stop"}
    MaxFaults = 3
SPECIFICATION FairSpec
INVARIANTS TypeOK StoredBeforeSettled InsertsBoundedByFaults
    ShutdownAnswersHandled
PROPERTIES EveryRequestStored
CHECK_DEADLOCK FALSE
