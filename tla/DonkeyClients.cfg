SPECIFICATION Spec
CONSTANTS
  Clients = {1, 2}
  Peers = {"p"}
  Unknown = "unknown"
  Slots = 1
  MaxEvents = 1
  MaxQueue = 2
INVARIANTS NoDangling NoZombies DownloadsConnected
CHECK_DEADLOCK FALSE
