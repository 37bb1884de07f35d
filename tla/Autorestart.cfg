SPECIFICATION FairSpec
CONSTANTS
  Ports = {1}
  Tests = {"disable", "link", "ping", "speed", "time"}
  DemonParams <- MCDemonParams
  TimeDelay = 3
  RunTests = TRUE
  MaxLag = 1
  MaxPipe = 2
  MaxSwitch = 1
INVARIANTS NoHastyRestart RestartDiscipline
PROPERTIES PowerCycles RequestServed
