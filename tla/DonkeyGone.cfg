SPECIFICATION Spec
CONSTANTS
  Clients = {1, 2}
  Peers = {"p"}
  Unknown = "unknown"
  Slots = 1
  MaxEvents = 1
  MaxQueue = 2
INVARIANT SourcesAlive
CHECK_DEADLOCK FALSE
