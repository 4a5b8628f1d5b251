SPECIFICATION Spec
CONSTANTS
    TrxIDs = {t1}
    DefaultTTL = 3
    HalfWord = 16
    PerSecond = 3
    Durations <- AllDurations
    Admins = {a1}
    NoTrx = NoTrx
    MaxWrites = 1
    t1 = t1
    a1 = a1
PROPERTIES
    ExtensionExtends
