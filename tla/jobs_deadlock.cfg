SPECIFICATION FairSpec
CONSTANTS
    j1 = j1
    j2 = j2
    s1 = s1
    s2 = s2
    f1 = f1
    f2 = f2
    Jobs = {j1}
    Servers = {s1, s2}
    ServerOf <- JustOne
    Files = {f1, f2}
    FileOf <- JustOneFile
    None = None
    Workers = {w1}
    Blocks = 4
    QueueCap = 1
    SubscriberCap = 1
    Subscribers = 1
    Lockers = {1}
    MaxRuns = 1
    DeleteOnComplete = FALSE
    NetworkFaults = FALSE
    LocalFaults = FALSE
    MayClose = FALSE
CHECK_DEADLOCK FALSE
PROPERTY NotificationsArrive
