SPECIFICATION Spec
CONSTANTS
    Scenes <- OneScene
    NetworkMode = "WAN"
    DefaultName = TRUE
    RetryCount = 1
    PingRetryCount = 3
    PingType = "PING_NO"
    FirstMessage = FALSE
    CreatedFirst = TRUE
    NetCap = 0
    Overdraft = 1
PROPERTIES AfterPings
CHECK_DEADLOCK FALSE
