SPECIFICATION Spec
CONSTANTS
    Scenes <- OneScene
    NetworkMode = "WAN"
    DefaultName = TRUE
    RetryCount = 1
    PingRetryCount = 1
    PingType = "PING_TEXT"
    FirstMessage = TRUE
    CreatedFirst = TRUE
    NetCap = 0
    Overdraft = 1
INVARIANTS AuthComesFirst
CHECK_DEADLOCK FALSE
