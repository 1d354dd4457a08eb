SPECIFICATION FairSpec
CONSTANTS
    a1 = a1
    a2 = a2
    c1 = c1
    c2 = c2
    p1 = p1
    p2 = p2
    x = x
    y = y
    z = z
    Attempts = {a1, a2}
    Clients = {c1, c2}
    ClientOf <- TwoClientOf
    Paths = {p1, p2}
    PathOf <- TwoPaths
    Blocks = {x, y, z}
    Hole = Hole
    None = None
    LocalVersions <- OwnVersions
    EpochVersions <- Epoch
    TornRecords <- Epoch
    MaxCrashes = 0
    MaxStops = 0
    DeleteOnComplete = FALSE
    NetworkFaults = TRUE
    LocalFaults = FALSE
    DiskFaults = FALSE
CHECK_DEADLOCK FALSE
INVARIANT PathIsolation
PROPERTY WokenWriterEnds
