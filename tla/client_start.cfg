SPECIFICATION FairSpec
CONSTANTS
    Names <- MCNames
    Special <- MCSpecial
    Concat <- MCConcat
    Glob <- MCGlob
    Servers <- MCServers
    Unnamed = {"b"}
    Unreachable = {}
    Directories <- MCDirectories
    Files <- MCFiles
    QueueCap = 1
    QuietStart = FALSE
CHECK_DEADLOCK FALSE
ACTION_CONSTRAINT LateSticks
INVARIANT TypeOK
INVARIANT AllServersServed
INVARIANT TreeKept
INVARIANT NoPanicBeforeSignal
PROPERTY HandedOverIsSent
PROPERTY SignalEnds
