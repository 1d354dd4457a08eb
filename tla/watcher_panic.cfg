SPECIFICATION Spec
CONSTANTS
    Paths = {p}
    Listeners = {l}
    None = None
    MaxVersion = 2
    WriteDuration = 2
    UpdateCap = 1
    OutgoingCap = 1
    FilesVanish = FALSE
    MayClose = FALSE
CHECK_DEADLOCK FALSE
INVARIANT EventNeverPanics
