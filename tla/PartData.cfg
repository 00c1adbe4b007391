SPECIFICATION Spec

CONSTANTS
    c1 = c1
    c2 = c2
    NoChunk = NoChunk
    Clients <- TwoClients
    Size = 3
    ChunkSize = 2
    HashKinds = {TRUE, FALSE}
    BufLimit = 2
    Careless = FALSE
    MaxWrite = 2
    MaxBad = 1
    MaxFaults = 0
    MaxUser = 1
    MaxRehash = 0
SYMMETRY ClientSymmetry

INVARIANTS
    LocksExclusive
    LockReserved
    NothingLost
    VerifiedIsGood
    VerdictsCurrent
    CompletedKept
    FlagsFresh

PROPERTIES
    ProgressKept
    CompletedAfterChunks
