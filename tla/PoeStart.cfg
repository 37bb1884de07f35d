SPECIFICATION StartSpec
CONSTANTS
  Size = 256
  Tables <- SourceTables
  OwnIds <- QueuedIds
  Handled <- reply_handler
  GroupSize = 2
  MaxPorts = 5
  Unused = Unused
  Garbage = Garbage
CHECK_DEADLOCK FALSE
INVARIANTS UnsharedKept ReplyReachesItsHandler SetupIsExact
