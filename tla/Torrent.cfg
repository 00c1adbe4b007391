SPECIFICATION FairSpec
CONSTANTS
  Peers = {"seed", "leech"}
  Incoming = {"leech"}
  NoPeer = "none"
  NumChunks = 2
  PerChunk = 1
  Short = {}
  Window = 2
  Starts <- OneSeed
  Gains <- OneGain
  NoBlock = 100
  Gone = 101
  MaxFaults = 1
INVARIANTS NoStall NeverIdle
PROPERTIES Completes
CHECK_DEADLOCK FALSE
