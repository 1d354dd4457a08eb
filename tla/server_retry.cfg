SPECIFICATION Spec
CONSTANTS
    a1 = a1
    a2 = a2
    c1 = c1
    c2 = c2
    p1 = p1
    p2 = p2
    x = x
    y = y
    z = z
    Attempts = {a1, a2}
    Clients = {c1}
    ClientOf <- RetryClientOf
    Paths = {p1}
    PathOf <- OneClientPath
    Blocks = {x, y, z}
    Hole = Hole
    None = None
    LocalVersions <- OneVersion
    EpochVersions = {}
    TornRecords = {}
    MaxCrashes = 1
    MaxStops = 1
    DeleteOnComplete = FALSE
    NetworkFaults = TRUE
    LocalFaults = FALSE
    DiskFaults = FALSE
CHECK_DEADLOCK FALSE
ACTION_CONSTRAINT OneEnd
SYMMETRY AttemptSymmetry
INVARIANTS
    TypeOK
    OffsetSetBeforeCopy
    SolePrefix
    SoleTransferStored
    QueryPrimesSession
