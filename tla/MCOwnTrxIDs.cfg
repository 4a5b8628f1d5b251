SPECIFICATION Spec
CONSTANTS
    Posts = {p1, p2}
    TrxIDs = {t1, t2}
    TrxOf <- OwnTrxIDs
    EDCStatuses = {"paid"}
    Workers = {w1}
    Clients <- MCClients
    NoTx = NoTx
    NoData = NoData
    Timeout = Timeout
    NoCall = NoCall
    NoJob = NoJob
    MaxRetries = 3
    MaxRivals = 3
    PublishRetries = 0
    MaxFaults = 1
    MaxTouches = 0
    MaxResends = 1
    MaxCrashes = 1
    p1 = p1
    p2 = p2
    t1 = t1
    t2 = t2
    w1 = w1
INVARIANTS
    TypeOK
    AnswerIsAuthentic
    NoEmptyResult
    ReportedOutcomeStays
    NoPaymentAfterRefusal
PROPERTIES
    ImplementsPaymentLifecycle
    StoreIsAtomic
\* The requests are finitely many: once all are answered nothing happens.
CHECK_DEADLOCK FALSE
