SPECIFICATION ElementsSpec
CONSTANTS
    Menus <- MCMenus
    Offered <- MCOffered
    OwnTexts <- MCTexts
    Targets <- MCTargets
    MaxList = 4
    AllPorts = {p1, p2}
    MaxRows = 3
    MaxCells <- MCMaxCells
    Ring = 3
    Window = 4
    MaxTime = 7
SYMMETRY MCPorts
INVARIANTS ChoiceIsRead ListMatchesBox PortsConsistent WindowIsLatest
CHECK_DEADLOCK FALSE
