SPECIFICATION FairSpec
CONSTANTS
  Socks <- MCSocks
  Addrs <- MCAddrs
  None = 0
  Server = 3
  Reuse = TRUE
  ConnLimit = 2
  ConnectingLimit = 1
INVARIANTS NoSlotLost LimitHolds DataServed
PROPERTIES SlotsReturn
