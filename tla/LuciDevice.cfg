SPECIFICATION DeviceSpec
CONSTANTS
    Rollback = 4
    MinRollback = 2
    Holdoff = 1
    MaxApply = 2
    MaxLost = 2
    MaxJobs = 2
    MaxWire = 2
CHECK_DEADLOCK FALSE
INVARIANTS VerdictIsTrue UpgradeVerdict
PROPERTIES ApplyEnds UpgradeEnds
