SPECIFICATION FairSpec
CONSTANTS
    WifiMode = "STA"
    Enabled = {"wifi", "eth"}
    ShouldReconnect = TRUE
    ByteMod = 4
    MgrCap = 2
    DrvCap = 4
    MaxRenewals = 0
    LateIp = FALSE
INVARIANTS LinkInv NoLostRetry HonestStatus  EthernetNeedsLink
PROPERTIES StationRetries StatusSettles
CHECK_DEADLOCK FALSE
