SPECIFICATION FairSpec
CONSTANTS
    own = own
    inc = inc
    NoDir = NoDir
    TempFile = TempFile
    Dirs <- TwoDirs
    Incoming = inc
    Homes <- OwnHome
    MaxPrefix = 4
    MaxFaults = 1
    MayCancel = TRUE
    MaxEvents = 2
    MaxStarts = 2
INVARIANTS FileKept ReadsFind NoDangling CleanedUp
PROPERTIES NothingReplaced Arrives
CHECK_DEADLOCK FALSE
