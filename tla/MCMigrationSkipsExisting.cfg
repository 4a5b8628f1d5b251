SPECIFICATION Spec
CONSTANTS
    Pairs = {k1}
    Malformed = {bad}
    Serials = {s1, s2}
    NoSerial = NoSerial
    NoPair = NoPair
    Config <- CleanConfig
    Migrations = {m1}
    Requests = {}
    PairOf <- OnePair
    MaxFaults = 0
    k1 = k1
    bad = bad
    s1 = s1
    s2 = s2
    m1 = m1
PROPERTIES
    MigrationSkipsExisting
