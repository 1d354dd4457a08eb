SPECIFICATION Spec
CONSTANTS
    a1 = a1
    a2 = a2
    c1 = c1
    c2 = c2
    p1 = p1
    p2 = p2
    x = x
    y = y
    z = z
    Attempts = {a1, a2}
    Clients = {c1, c2}
    ClientOf <- TwoClientOf
    Paths = {p1}
    PathOf <- SamePath
    Blocks = {x, y, z}
    Hole = Hole
    None = None
    LocalVersions <- OneBlock
    EpochVersions = {}
    TornRecords = {}
    MaxCrashes = 1
    MaxStops = 0
    DeleteOnComplete = TRUE
    NetworkFaults = FALSE
    LocalFaults = FALSE
    DiskFaults = TRUE
CHECK_DEADLOCK FALSE
ACTION_CONSTRAINT OneLoss
SYMMETRY PairSymmetry
INVARIANTS
    RecordBeforeFile
    SolePrefix
PROPERTY ImplementsMediaDirectory
