SPECIFICATION FairSpec
CONSTANTS
    Posts = {p1}
    TrxIDs = {t1}
    TrxOf <- SharedTrxID
    EDCStatuses = {"paid", "failed"}
    Workers = {w1}
    Clients <- MCClients
    NoTx = NoTx
    NoData = NoData
    Timeout = Timeout
    NoCall = NoCall
    NoJob = NoJob
    MaxRetries = 3
    MaxRivals = 3
    PublishRetries = 1
    MaxFaults = 2
    MaxTouches = 1
    MaxResends = 1
    MaxCrashes = 1
    p1 = p1
    t1 = t1
    w1 = w1
INVARIANTS
    AnswerFindsTransaction
    AnswerOutlastsContention
PROPERTIES
    EveryRequestEnds
    AnswerIsRecorded
\* The requests are finitely many: once all are answered nothing happens.
CHECK_DEADLOCK FALSE
