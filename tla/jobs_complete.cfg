SPECIFICATION FairSpec
CONSTANTS
    j1 = j1
    j2 = j2
    s1 = s1
    s2 = s2
    f1 = f1
    f2 = f2
    Jobs = {j1, j2}
    Servers = {s1, s2}
    ServerOf <- SameServer
    Files = {f1, f2}
    FileOf <- OwnFile
    None = None
    Workers = {w1}
    Blocks = 2
    QueueCap = 2
    SubscriberCap = 3
    Subscribers = 1
    Lockers = {1}
    MaxRuns = 2
    DeleteOnComplete = FALSE
    NetworkFaults = FALSE
    LocalFaults = FALSE
    MayClose = FALSE
CHECK_DEADLOCK FALSE
PROPERTY JobCompletes
 
