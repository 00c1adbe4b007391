SPECIFICATION Spec

CONSTANTS
    c1 = c1
    c2 = c2
    NoChunk = NoChunk
    Clients <- OneClient
    Size = 2
    ChunkSize = 1
    HashKinds = {TRUE}
    BufLimit = 2
    Careless = TRUE
    MaxWrite = 2
    MaxBad = 1
    MaxFaults = 1
    MaxUser = 0
    MaxRehash = 1

INVARIANTS
    WorkCounted

CHECK_DEADLOCK FALSE
