SPECIFICATION FairSpec
CONSTANTS
  Ports = {1}
  Tests = {"link"}
  DemonParams <- MCDemonParams
  TimeDelay = 2
  RunTests = FALSE
  MaxLag = 1
  MaxPipe = 1
  MaxSwitch = 1
PROPERTIES DeadIsRestarted
