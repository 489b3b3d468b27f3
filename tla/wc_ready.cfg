SPECIFICATION FairSpec
CONSTANTS
    Scenes <- AllScenes
    NetworkMode = "WAN"
    DefaultName = TRUE
    RetryCount = 1
    PingRetryCount = 1
    PingType = "PING_NO"
    FirstMessage = TRUE
    CreatedFirst = TRUE
    NetCap = 0
    Overdraft = 1
INVARIANTS TypeOK NeverForsaken IInv
PROPERTIES ReadyAgain
CHECK_DEADLOCK FALSE
