SPECIFICATION FairSpec
CONSTANTS
    TrxIDs = {t1}
    DefaultTTL = 3
    HalfWord = 16
    PerSecond = 3
    Durations <- AllDurations
    Admins = {a1,a2}
    NoTrx = NoTrx
    MaxWrites = 2
    t1 = t1
    a1 = a1
    a2 = a2
INVARIANTS
    TypeOK
    RecordStaysADay
PROPERTIES
    ExtensionIsExact
    RecordsExpire
