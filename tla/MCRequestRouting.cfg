SPECIFICATION Spec
CONSTANTS
    Pairs = {k1}
    Malformed = {bad}
    Serials = {s1, s2}
    NoSerial = NoSerial
    NoPair = NoPair
    Config <- DirtyConfig
    Migrations = {m1, m2}
    Requests = {r1}
    PairOf <- OnePair
    MaxFaults = 1
    k1 = k1
    bad = bad
    s1 = s1
    s2 = s2
    m1 = m1
    m2 = m2
    r1 = r1
SYMMETRY MCSymmetry
INVARIANTS
    TypeOK
    UnforcedMigrationKeeps
    MigrationReportIsHonest
    HoldStopsRequests
    RoutedAsAssigned
