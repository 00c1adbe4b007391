SPECIFICATION FairSpec
CONSTANTS
  a = a  b = b  timer = timer
  Tables <- MCTables
  Objects <- MCObjects
  Table <- MCTable
  Immortal <- MCImmortal
  Handlers = {h}
  MaxEvents = 2
  MaxTick = 1
PROPERTIES ImplementsMailbox Settles
CHECK_DEADLOCK FALSE
