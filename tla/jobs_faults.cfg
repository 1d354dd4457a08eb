SPECIFICATION Spec
CONSTANTS
    j1 = j1
    j2 = j2
    s1 = s1
    s2 = s2
    f1 = f1
    f2 = f2
    Jobs = {j1}
    Servers = {s1, s2}
    ServerOf <- JustOne
    Files = {f1, f2}
    FileOf <- JustOneFile
    None = None
    Workers = {w1, w2}
    Blocks = 1
    QueueCap = 1
    SubscriberCap = 1
    Subscribers = 1
    Lockers = {1}
    MaxRuns = 2
    DeleteOnComplete = TRUE
    NetworkFaults = TRUE
    LocalFaults = TRUE
    MayClose = TRUE
CHECK_DEADLOCK FALSE
SYMMETRY WorkerSymmetry
ACTION_CONSTRAINT EarlySignal
INVARIANTS
    TypeOK
    OneToken
    RetriesBounded
    CompletedIsWhole
PROPERTIES
    JobNotLost
    ImplementsJobQueue
