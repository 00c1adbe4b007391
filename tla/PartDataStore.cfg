SPECIFICATION FairSpec
CONSTANTS
  Blocks <- MCBlocks
  NoFile = NoFile
  Torn = Torn
  MaxFaults = 2
  MaxDeaths = 2
INVARIANTS NeverLost ClaimsAccounted
PROPERTIES DatReplaced BufferDrains
CHECK_DEADLOCK FALSE
