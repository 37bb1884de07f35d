SPECIFICATION FairSpec
CONSTANTS
  n1 = n1
  n2 = n2
  NoName = NoName
  Names = {n1, n2}
  MAX_PORT = 2
  GroupSize = 1
  Devices = {1}
  Configs <- TwoGroupConfigs
  MaxQueue = 3
  MaxPolls = 2
  MaxDropped = 1
  MaxGarbled = 1
  MaxRestart = 1
CHECK_DEADLOCK FALSE
INVARIANTS PowerFollowsConfig DisabledEndsOff
PROPERTIES StatusSettles
