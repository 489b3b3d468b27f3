SPECIFICATION Spec
CONSTANTS
    WifiMode = "STA"
    Enabled = {"wifi", "eth", "unknown"}
    ShouldReconnect = TRUE
    ByteMod = 4
    MgrCap = 1
    DrvCap = 3
    MaxRenewals = 1
    LateIp = TRUE
INVARIANTS LinkInv StatusAnnounced RepeatsAreRenewals
PROPERTIES ImplementsStatus
CHECK_DEADLOCK FALSE
