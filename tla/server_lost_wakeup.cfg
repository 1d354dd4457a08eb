SPECIFICATION FairSpec
CONSTANTS
    a1 = a1
    a2 = a2
    c1 = c1
    c2 = c2
    p1 = p1
    p2 = p2
    x = x
    y = y
    z = z
    Attempts = {a1}
    Clients = {c1}
    ClientOf <- OneClientOf
    Paths = {p1}
    PathOf <- OneClientPath
    Blocks = {x, y, z}
    Hole = Hole
    None = None
    LocalVersions <- OneVersion
    EpochVersions = {}
    TornRecords = {}
    MaxCrashes = 0
    MaxStops = 0
    DeleteOnComplete = FALSE
    NetworkFaults = FALSE
    LocalFaults = FALSE
    DiskFaults = FALSE
CHECK_DEADLOCK FALSE
PROPERTY FirstBlockEndsWait
