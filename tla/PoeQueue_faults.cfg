SPECIFICATION FairSpec
CONSTANTS
  a = a
  b = b
  NoCmd = NoCmd
  CmdId = {a, b}
  Batch <- MCBatch
  SeqMod = 3
  MAX_RETRIES = 1
  MaxQueued = 4
  MaxStray = 2
  MaxLost = 1
  MaxRestart = 1
CHECK_DEADLOCK FALSE
INVARIANTS StopAndWait NoStall AcceptedIsOwn AtMostOnce
PROPERTIES NeverReordered QueueDrains Implements
