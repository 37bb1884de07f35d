SPECIFICATION Spec
CONSTANTS
    Classes = {"rpc", "uci", "ui", "form", "swupdate", "status"}
    Requires <- MCRequires
    Core = {"ui", "rpc", "form"}
    ViewClass = "status"
    Preload = {"swupdate"}
    PollOf <- MCPollOf
    Interval <- MCInterval
    Forbidden = {"watch"}
    TickMod = 4
    MaxFail = 2
CHECK_DEADLOCK FALSE
INVARIANTS RepliesMatch ExpiryIsReal
PROPERTIES CallsSettle PageStarts PollingFollowsSession
