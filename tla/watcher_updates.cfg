SPECIFICATION Spec
CONSTANTS
    Paths = {p, q}
    Listeners = {l}
    None = None
    MaxVersion = 2
    WriteDuration = 2
    UpdateCap = 2
    OutgoingCap = 2
    FilesVanish = TRUE
    MayClose = TRUE
CHECK_DEADLOCK FALSE
SYMMETRY WatcherSymmetry
INVARIANTS
    TypeOK
    OneHandler
    QuietPeriod
    UpdatesInOrder
PROPERTIES
    NotifiedInOrder
