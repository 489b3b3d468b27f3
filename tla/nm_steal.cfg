SPECIFICATION Spec
CONSTANTS
    WifiMode = "STA"
    Enabled = {"wifi", "eth"}
    ShouldReconnect = TRUE
    ByteMod = 4
    MgrCap = 2
    DrvCap = 3
    MaxRenewals = 0
    LateIp = FALSE
INVARIANTS StationReported
CHECK_DEADLOCK FALSE
