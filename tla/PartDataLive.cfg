SPECIFICATION LiveSpec

CONSTANTS
    c1 = c1
    c2 = c2
    NoChunk = NoChunk
    Clients <- OneClient
    Size = 3
    ChunkSize = 2
    HashKinds = {TRUE, FALSE}
    BufLimit = 2
    Careless = FALSE
    MaxWrite = 1
    MaxBad = 1
    MaxFaults = 0
    MaxUser = 0
    MaxRehash = 0

PROPERTIES
    Completes
