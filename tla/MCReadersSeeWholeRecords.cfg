SPECIFICATION Spec
CONSTANTS
    Posts = {p1}
    TrxIDs = {t1}
    TrxOf <- OneTrxID
    EDCStatuses = {"paid"}
    NoTx = NoTx
    NoData = NoData
    Timeout = Timeout
    NoCall = NoCall
    NoRecord = NoRecord
    Free = Free
    Updaters = {u1, u2}
    Readers = {r1}
    t1 = t1
    u1 = u1
    u2 = u2
    p1 = p1
    r1 = r1
INVARIANTS
    ReadersSeeWholeRecords
