SPECIFICATION Spec
CONSTANTS
    Temps = {"new1"}
    Cfgs = {"cfg1", "cfg2", "cfg3", "cfg4"}
    Opts = {"mode", "addr", "port"}
    Vals = {"a", "b"}
    NewBase = 1000
    MaxFail = 1
    Fields <- MCFields
    Conf <- MCConf
    MaxActs = 4
CHECK_DEADLOCK FALSE
INVARIANTS SavedIsShown SavedExactly CancelledAddIsGone
