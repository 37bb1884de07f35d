SPECIFICATION Spec
CONSTANTS
    Nets = {"lan", "wan", "wwan"}
    ZoneNames = {"lan", "wan", "guest"}
    Owned = {"dhcp"}
    Routing = {"route"}
    MaxWifi = 2
    MaxZones = 3
    MaxEdits = 3
    Start <- MCStart
    None = None
INVARIANTS ReferencesResolve ZoneAsChosen
PROPERTIES KeepsOneZone
CHECK_DEADLOCK FALSE
