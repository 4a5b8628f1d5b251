SPECIFICATION FairStoreSpec
CONSTANTS
    Posts = {p1}
    TrxIDs = {t1}
    TrxOf <- MCTrxOf
    EDCStatuses = {"paid", "failed"}
    NoTx = NoTx
    NoData = NoData
    Timeout = Timeout
    NoCall = NoCall
    Clients = {c1, c2}
    MaxRetries = 3
    MaxRivals = 3
    p1 = p1
    t1 = t1
    c1 = c1
    c2 = c2
INVARIANTS
    StoreTypeOK
    CleanMeansFresh
    RetryBudget
    StatusMatchesData
PROPERTIES
    AnswersKept
    ImplementsAtomicStore
    UpdateAdvances
    UpdateTerminates
