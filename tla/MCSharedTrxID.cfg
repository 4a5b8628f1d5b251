SPECIFICATION Spec
CONSTANTS
    Posts = {p1, p2}
    TrxIDs = {t1}
    TrxOf <- SharedTrxID
    EDCStatuses = {"paid"}
    Workers = {w1}
    Clients <- MCClients
    NoTx = NoTx
    NoData = NoData
    Timeout = Timeout
    NoCall = NoCall
    NoJob = NoJob
    MaxRetries = 3
    MaxRivals = 3
    PublishRetries = 1
    MaxFaults = 0
    MaxTouches = 2
    MaxResends = 0
    MaxCrashes = 0
    p1 = p1
    p2 = p2
    t1 = t1
    w1 = w1
SYMMETRY MCSymmetry
INVARIANTS
    TimeoutIsRecorded
\* The requests are finitely many: once all are answered nothing happens.
CHECK_DEADLOCK FALSE
