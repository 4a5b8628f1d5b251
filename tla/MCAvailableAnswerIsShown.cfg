SPECIFICATION Spec
CONSTANTS
    Posts = {p1}
    TrxIDs = {t1}
    TrxOf <- SharedTrxID
    EDCStatuses = {"paid", "failed"}
    Workers = {w1}
    Clients <- MCClients
    NoTx = NoTx
    NoData = NoData
    Timeout = Timeout
    NoCall = NoCall
    NoJob = NoJob
    MaxRetries = 3
    MaxRivals = 3
    PublishRetries = 0
    MaxFaults = 0
    MaxTouches = 0
    MaxResends = 0
    MaxCrashes = 0
    p1 = p1
    t1 = t1
    w1 = w1
INVARIANTS
    AvailableAnswerIsShown
CHECK_DEADLOCK FALSE
