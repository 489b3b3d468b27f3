SPECIFICATION FairSpec
CONSTANTS
    Scenes <- ReadyScenes
    Topics = {}
    Resubscribed = {}
    StopFails = FALSE
    NetCap = 2
    EventCap = 1
PROPERTIES ReadyAgain
CHECK_DEADLOCK FALSE
